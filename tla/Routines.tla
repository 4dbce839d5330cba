------------------------------- MODULE Routines --------------------------------
(***************************************************************************)
(* The routines of a GBS or GBR file on the CPU: gbs_init calls the one    *)
(* that initialises a subsong, and from then on the interrupts call play,  *)
(* by the handlers that gbs_open writes to the first page of the ROM.      *)
(*                                                                         *)
(* Of the file's own code nothing is known but that it keeps the stack in  *)
(* order: it pops what it has pushed before it returns.  It may call, jump *)
(* within itself, and turn interrupts on and off at will.                  *)
(***************************************************************************)
EXTENDS Cpu, SequencesExt

CONSTANTS
  LoadAddr,    \* gbs->load
  Code,        \* the addresses where the file's code may have an instruction
  InitAddr,    \* gbs->init
  PlayAddr,    \* gbs->play
  Stack,       \* gbs->stack
  Handlers,    \* what the interrupts call: the kinds of file
  MaxWords     \* bound on the words on the stack when the file's code puts one there

\* The interrupts of a kind of file call these addresses, one after the other.
Handler == [vblank: Seq(Code), timer: Seq(Code), replayer: BOOLEAN]

\* "Load address %04x overlaps with replayer end %04x.": the file's code begins after
\* the handlers and the replayer.  The stack has room in RAM.
ASSUME FileAssumption ==
  /\ LoadAddr \in Nat /\ 97 <= LoadAddr /\ LoadAddr <= 32767
  /\ Code \subseteq LoadAddr .. 32767 /\ {InitAddr, PlayAddr} \subseteq Code
  /\ MaxWords \in Nat /\ Stack \in 32768 + 2 * (MaxWords + 2) .. 65535
ASSUME HandlersAssumption ==
  \A h \in Handlers : /\ h \in Handler /\ Len(h.vblank) <= 2 /\ Len(h.timer) <= 2
                      /\ h.replayer => LoadAddr >= 365

VARIABLES
  rom,      \* what is known of the ROM
  frames,   \* the routines that run, the innermost one last
  willing   \* the file's code has turned interrupts on

routineVars == <<cpuVars, rom, frames, willing>>

-----------------------------------------------------------------------------
Bytes(addr, bytes) ==
  [x \in addr .. addr + Len(bytes) - 1 |-> bytes[x - addr + 1]]
Both(m, n) == [x \in DOMAIN m \cup DOMAIN n |-> IF x \in DOMAIN m THEN m[x] ELSE n[x]]

CallBytes(addr) == <<\hCD, Low(addr), High(addr)>>
JpBytes(addr) == <<\hC3, Low(addr), High(addr)>>

\* An interrupt handler: calls, and reti.
HandlerBytes(calls) ==
  [i \in 1 .. 3 * Len(calls) + 1 |->
     IF i > 3 * Len(calls) THEN \hD9
     ELSE CallBytes(calls[1 + ((i - 1) \div 3)])[1 + ((i - 1) % 3)]]
HandlerRom(h) == Both(Bytes(64, HandlerBytes(h.vblank)), Bytes(80, HandlerBytes(h.timer)))

\* The targets of rst are in the file's code.
RstRom ==
  [x \in 0 .. 63 |-> IF x % 8 < 3 THEN JpBytes(LoadAddr + (x - (x % 8)))[1 + (x % 8)] ELSE 0]

\* gbs_add_rom_replayer, for a cartridge made of the file: its code from 0x150 on,
\* and the address of its endless loop.
ReplayerBytes ==
  <<\h21, Low(Stack), High(Stack), \hF9>>
  \o <<\h3E, 0, \hE0, 6>> \o <<\h3E, 0, \hE0, 7>>        \* TMA, TAC
  \o <<\h26, 32, \h36, 1>>                               \* the bank
  \o <<\h3E, 0>> \o CallBytes(InitAddr)
  \o <<\h3E, 5, \hE0, 255>>                              \* IE
ReplayerLoop == 336 + Len(ReplayerBytes)
ReplayerRom ==
  Both(Bytes(256, <<0>> \o JpBytes(336)),
       Bytes(336, ReplayerBytes \o <<\h76>> \o JpBytes(ReplayerLoop)))

RomOf(h) ==
  LET own == Both(RstRom, HandlerRom(h))
  IN  IF h.replayer THEN Both(own, ReplayerRom) ELSE own

-----------------------------------------------------------------------------
\* Instructions by what they do to the calls: those that call or return now.
Calls(op) == op = \hCD \/ op \in Rsts \/ (op \in CallConds /\ Taken(CondOf(op), f))
Returns(op) == op \in {\hC9, \hD9} \/ (op \in RetConds /\ Taken(CondOf(op), f))
Pushes(op) == op \in {\hD5, \hE5}
Pops(op) == op \in {\hD1, \hE1}
EnablesIrq(op) == op \in {\hFB, \hD9}
Size(op) ==
  CASE op \in {\hC3, \hCD} \cup JpConds \cup CallConds -> 3
    [] op \in {\h18} \cup JrConds -> 2
    [] OTHER -> 1

Inner == frames[Len(frames)]
Called(ret, to) == Append(frames, [ret |-> ret, to |-> to, sp |-> sp, pushed |-> 0])

Track(op) ==
  frames' = IF Calls(op) THEN Called(After(Size(op)), pc')
            ELSE IF Returns(op) THEN Front(frames)
            ELSE IF Pushes(op) THEN [frames EXCEPT ![Len(frames)].pushed = @ + 1]
            ELSE IF Pops(op) THEN [frames EXCEPT ![Len(frames)].pushed = @ - 1]
            ELSE frames

\* What the ROM of gbs_open does.
Rom(addr) == IF addr \in DOMAIN rom THEN rom[addr] ELSE 0
KnownCode ==
  /\ pc \in DOMAIN rom
  /\ Execute(rom[pc], Rom(pc + 1), Rom(pc + 1) + 256 * Rom(pc + 2), 0)
  /\ Track(rom[pc])
  /\ willing' = (willing /\ pc' # HaltAtPc)
  /\ UNCHANGED rom

\* What the file's code may do.  Its data is left out, and the flags never change:
\* a condition and its opposite stand for the two outcomes.
Opcodes ==
  {\h00, \h10, \h18, \h76, \hC3, \hC9, \hCD, \hD9, \hE9, \hF3, \hFB, \hD5, \hE5, \hD1, \hE1}
  \cup {op \in JrConds \cup RetConds \cup JpConds \cup CallConds : CondOf(op) \in {"NZ", "Z"}}
  \cup {op \in Rsts : LoadAddr + (op - 199) \in Code}
InOrder(op, to) ==
  /\ Calls(op) \/ Pushes(op) \/ EnablesIrq(op) => Stack - sp < 2 * MaxWords
  /\ Returns(op) => Inner.pushed = 0
  /\ Pops(op) => Inner.pushed > 0
  /\ op \in {\h18} \cup JrConds => to - After(2) \in -128 .. 127
  /\ op = \hE9 => hl \in Code \cup {0}
  /\ op \in {\hC3, \hE9, \h18} \/ Returns(op) \/ After(Size(op)) \in Code
FileCode ==
  /\ pc \in Code
  /\ \E op \in Opcodes, to \in Code :
       /\ InOrder(op, to)
       /\ Size(op) = 1 => to = InitAddr
       /\ Execute(op, Low(to - After(2)), to, 0)
       /\ Track(op)
       /\ willing' = ((willing \/ EnablesIrq(op)) /\ pc' # HaltAtPc)
  /\ UNCHANGED rom

TakeInterrupt ==
  /\ Interrupt
  /\ frames' = Called(pc, pc')
  /\ UNCHANGED <<rom, willing>>

RequestInterrupt ==
  /\ \E irq \in Irq : Request(irq)
  /\ UNCHANGED <<rom, frames, willing>>

\* gbs_init; a cartridge begins at 0x100.
Replayer == 256 \in DOMAIN rom
Begin(replayer) == Started(Stack, IF replayer THEN 256 ELSE InitAddr, 0)
Outermost(to) == <<[ret |-> HaltAtPc, to |-> to, sp |-> Stack, pushed |-> 0]>>
StartSubsong ==
  /\ LET s == Begin(Replayer)
     IN  pc' = s.pc /\ sp' = s.sp /\ a' = s.a /\ ram' = s.ram
  /\ f' = {} /\ de' = 0 /\ hl' = 0
  /\ ime' = FALSE /\ halted' = FALSE /\ clock' = Untimed /\ requested' = {}
  /\ frames' = Outermost(pc') /\ willing' = FALSE
  /\ UNCHANGED rom

RoutinesInit ==
  /\ \E h \in Handlers : rom = RomOf(h)
  /\ LET s == Begin(Replayer)
     IN  pc = s.pc /\ sp = s.sp /\ a = s.a /\ ram = s.ram
  /\ f = {} /\ de = 0 /\ hl = 0
  /\ ime = FALSE /\ halted = FALSE /\ clock = Untimed /\ requested = {}
  /\ frames = Outermost(pc) /\ willing = FALSE

RoutinesNext ==
  KnownCode \/ FileCode \/ TakeInterrupt \/ RequestInterrupt \/ StartSubsong
RoutinesSpec == RoutinesInit /\ [][RoutinesNext]_routineVars

-----------------------------------------------------------------------------
\* Every return, of a routine or of an interrupt, leads to where it was called
\* from and finds the stack as it was there, whatever came between the two.
ReturnsToCaller ==
  [][ Len(frames') < Len(frames) /\ ~StartSubsong =>
        pc' = Inner.ret /\ sp' = Inner.sp ]_routineVars

\* At the breakpoint every routine has returned, nothing is left on the stack,
\* and the CPU waits with interrupts on, even if the routines have turned them
\* off: the next frame is played.
IdleIsReady ==
  pc = HaltAtPc =>
    halted /\ ime /\ sp = Stack /\ frames = <<>>

\* "PLAY - Begins after INIT process is complete", and once at a time, as long as
\* the file's code does not turn on interrupts itself.
FromOutside(addr) ==
  {i \in DOMAIN frames : frames[i].to = addr /\ frames[i].ret \in DOMAIN rom \cup {HaltAtPc}}
PlayInTurn ==
  ~willing => Cardinality(FromOutside(InitAddr) \cup FromOutside(PlayAddr)) <= 1

\* "Enable interrupts now": when the code of gbs_add_rom_replayer has called init and
\* waits in its endless loop, the CPU takes the interrupts that call play, as it does
\* at the breakpoint of gbsplay itself.
CartridgeIsReady == halted /\ Replayer /\ pc = ReplayerLoop + 1 => ime
=============================================================================
