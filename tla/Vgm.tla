---------------------------------- MODULE Vgm ----------------------------------
(***************************************************************************)
(* VGM files: vgm_open translates the register writes of a recording, and  *)
(* the waits between them, to code for the CPU, in as many banks as it     *)
(* takes, and adds the routines that run it.  There is no play routine:    *)
(* init runs until the recording ends.                                     *)
(*                                                                         *)
(* A recording is a sequence of VGM commands, the end command left out.    *)
(***************************************************************************)
EXTENDS Cpu, SequencesExt, Accumulation

CONSTANTS
  Recordings,
  BankSize,     \* 0x4000
  MaxUnits,     \* 0x10000, the longest delay of one call
  VgmStack      \* gbs->stack, 0xfffe

BankAddr == 65408   \* 0xff80

Waits == {\h61, \h62, \h63} \cup (\h70 .. \h7F)
Uint16 == 0 .. 256 * 256 - 1
WaitCommand == [op: Waits, n: Uint16]
WriteCommand == [op: {\hB3}, reg: 0 .. 47, val: 0 .. 255]
Command == WaitCommand \cup WriteCommand

\* The longest delay has a number of two bytes, and the stack, of three words, does
\* not reach down to the bank's number in RAM.
ASSUME VgmAssumption ==
  /\ BankSize \in Nat /\ 8 <= BankSize /\ BankSize <= 16384
  /\ MaxUnits \in Nat /\ 1 <= MaxUnits /\ MaxUnits <= 65536
  /\ VgmStack \in Nat /\ BankAddr + 6 < VgmStack /\ VgmStack <= 65535
  /\ Recordings \subseteq Seq(Command)

VARIABLES
  song,      \* the recording
  parsed,    \* how many of its commands, and its end, have been translated
  trans,     \* gbs->code and codelen, total_wait, total_clocks
  bank,      \* what the upper window of the ROM shows
  written,   \* the writes to sound registers so far
  delays     \* and the calls of the delay routine

machineVars == <<bank, written, delays>>
vgmVars == <<cpuVars, song, parsed, trans, machineVars>>

-----------------------------------------------------------------------------
\* Samples to wait
Samples(cmd) ==
  CASE cmd.op = \h61 -> cmd.n
    [] cmd.op = \h62 -> 735
    [] cmd.op = \h63 -> 882
    [] cmd.op \in \h70 .. \h7F -> (cmd.op % 16) + 1
    [] OTHER -> 0

RET == \hC9

\* Slip: the last byte of a bank may be part of an instruction.
Emit_NoSpare(t, byte, reserve) ==
  LET remain == t.codelen - Len(t.code)
  IN  IF reserve > remain
      THEN [t EXCEPT !.code = @ \o [i \in 1 .. remain |-> RET] \o <<byte>>,
                     !.codelen = @ + BankSize]
      ELSE [t EXCEPT !.code = Append(@, byte)]

\* emit: code that must not be split, and a byte to spare for a RET, are put
\* into a new bank if they do not fit into the rest of this one.
Emit(t, byte, reserve) ==
  LET remain == t.codelen - Len(t.code)
  IN  IF reserve + 1 > remain
      THEN [t EXCEPT !.code = @ \o [i \in 1 .. remain |-> RET] \o <<byte>>,
                     !.codelen = @ + BankSize]
      ELSE [t EXCEPT !.code = Append(@, byte)]

\* A call of the delay routine, with the number of its rounds after it.
EmitDelay(t, units) ==
  LET called == Emit(t, \hCF, 3)
      counted == Emit(Emit(called, Low(units - 1), 0), High(units - 1), 0)
  IN  [counted EXCEPT !.clocks = @ + 64 * units]

\* Delays of a number of units, each as long as may be.
DelaysOf(units) ==
  [i \in 1 .. (units + MaxUnits - 1) \div MaxUnits |->
     IF i * MaxUnits <= units THEN MaxUnits ELSE units % MaxUnits]

\* The loop over them.
Translation == [code: Seq(Byte), codelen: Nat, wait: Nat, clocks: Nat]
Delaying == [p \in Translation \X (1 .. MaxUnits) |-> EmitDelay(p[1], p[2])]
Waited(t, units) == Accumulated(Delaying, t, DelaysOf(units))

\* Slip: the time is rounded anew for every wait.
OnWrite_Anew(t, cmd) ==
  LET delay == (t.wait * 41943) \div 441
      loaded == Emit(Emit(Waited(t, (delay + 31) \div 64), \h3E, 4), cmd.val, 0)
  IN  [Emit(Emit(loaded, \hE0, 0), 16 + cmd.reg, 0) EXCEPT !.wait = 0]

\* A write comes after what is left to wait, to the nearest unit.
OnWrite(t, cmd) ==
  LET delay == (t.wait * 41943) \div 441 - t.clocks
      loaded == Emit(Emit(Waited(t, (delay + 31) \div 64), \h3E, 4), cmd.val, 0)
  IN  Emit(Emit(loaded, \hE0, 0), 16 + cmd.reg, 0)

\* The loop over the commands.
Translate ==
  /\ parsed < Len(song)
  /\ LET cmd == song[parsed + 1]
     IN  trans' = IF cmd.op = \hB3 THEN OnWrite(trans, cmd)
                  ELSE [trans EXCEPT !.wait = @ + Samples(cmd)]
  /\ parsed' = parsed + 1
  /\ UNCHANGED <<cpuVars, song, machineVars>>

-----------------------------------------------------------------------------
\* The routines in the lower bank of the ROM:
Seq2Fun(addr, bytes) == [x \in addr .. addr + Len(bytes) - 1 |-> bytes[x - addr + 1]]

\* the delay, called with its number of rounds after the call;
DelayRoutine ==
  Seq2Fun(8, <<\hE1, \h2A, \h5F, \h2A, \h57, \hE5>>                \* HL, DE
             \o <<\h7A, \hB3, \hC8, \h1B, \h23, \h23, \h23>>     \* 64 cycles
             \o <<\hC3, 14, 0>>)

\* the trap at the end of the code, and interrupts;
Trap == 56
TrapRoutine == Seq2Fun(Trap, <<\hF3, \h76, \hC3, Trap, 0>>)

\* and the loop that calls one bank after the other, its number at 0xff80.
VgmInitAddr == 1088
BankLoop ==
  Seq2Fun(VgmInitAddr, <<\hF3, \h3E, 1>>
             \o <<\hE0, 128, \h21, 0, 32, \h77>>       \* the bank
             \o <<\hCD, 0, 64>> \o <<\hF0, 128, \h3C>>
             \o <<\hC3, Low(VgmInitAddr + 3), High(VgmInitAddr + 3)>>)

Lower(addr) ==
  CASE addr \in DOMAIN DelayRoutine -> DelayRoutine[addr]
    [] addr \in DOMAIN TrapRoutine -> TrapRoutine[addr]
    [] addr \in DOMAIN BankLoop -> BankLoop[addr]
    [] OTHER -> 0

\* The upper bank is at 0x4000.
Upper(addr) ==
  LET ofs == (bank - 1) * BankSize + (addr - 16384)
  IN  IF ofs < Len(trans.code) THEN trans.code[ofs + 1] ELSE 0

\* Nothing is mapped after the upper bank: none_get.
Read(addr) ==
  CASE addr < 16384 -> Lower(addr)
    [] addr \in 16384 .. 16384 + BankSize - 1 -> Upper(addr)
    [] addr \in 16384 + BankSize .. 40959 -> 255
    [] OTHER -> At(addr)

\* gbs_rom_put
SelectBank(val) == bank' = IF val = 0 THEN 1 ELSE val

IsSound(ofs) == ofs \in 16 .. 63
Sound(ofs, val) == [reg |-> ofs - 16, val |-> val]

\* The end of the recording, and gbs_init; gbs_init again when it has been played.
Play ==
  /\ LET s == Started(VgmStack, VgmInitAddr, 0)
     IN  pc' = s.pc /\ sp' = s.sp /\ a' = s.a /\ ram' = s.ram
  /\ f' = {} /\ de' = 0 /\ hl' = 0
  /\ ime' = FALSE /\ halted' = FALSE /\ clock' = 0 /\ requested' = {}
  /\ written' = <<>> /\ delays' = 0
  /\ UNCHANGED <<song, bank>>
EndTranslation ==
  /\ parsed = Len(song)
  /\ trans' = Emit(trans, \hFF, 1)
  /\ parsed' = parsed + 1
  /\ Play
Again == halted /\ Play /\ UNCHANGED <<parsed, trans>>

\* One instruction.
Step ==
  /\ parsed > Len(song)
  /\ Execute(Read(pc), Read(pc + 1), Read(pc + 1) + 256 * Read(pc + 2), Read(hl))
  /\ IF Read(pc) = \h77 /\ hl \in 8192 .. 16383 THEN SelectBank(a) ELSE UNCHANGED bank
  /\ written' = IF Read(pc) = \hE0 /\ IsSound(Read(pc + 1))
                THEN Append(written, Sound(Read(pc + 1), a)) ELSE written
  /\ delays' = IF Read(pc) = \hCF THEN delays + 1 ELSE delays
  /\ UNCHANGED <<song, parsed, trans>>

VgmInit ==
  /\ song \in Recordings
  /\ parsed = 0
  /\ trans = [code |-> <<>>, codelen |-> BankSize, wait |-> 0, clocks |-> 0]
  /\ pc = 0 /\ sp = 0 /\ a = 0 /\ f = {} /\ de = 0 /\ hl = 0 /\ ram = <<>>
  /\ ime = FALSE /\ halted = FALSE /\ clock = 0 /\ requested = {}
  /\ bank = 1 /\ written = <<>> /\ delays = 0

VgmNext == Translate \/ EndTranslation \/ Step \/ Again
VgmSpec == VgmInit /\ [][VgmNext]_vgmVars

-----------------------------------------------------------------------------
IsWrite(cmd) == cmd.op = \hB3

\* The writes of a recording, each with the samples before it.
Score == [writes: Seq([reg: 0 .. 47, val: Byte, at: Nat]), samples: Nat]
Noting ==
  [p \in Score \X Command |->
     LET score == p[1]
         cmd == p[2]
         write == [reg |-> cmd.reg, val |-> cmd.val, at |-> score.samples]
     IN  IF IsWrite(cmd) THEN [score EXCEPT !.writes = Append(@, write)]
         ELSE [score EXCEPT !.samples = @ + Samples(cmd)]]
ScoreOf(cmds) == Accumulated(Noting, [writes |-> <<>>, samples |-> 0], cmds)

\* The loop over the banks counts them in a byte.
FitsInBanks == trans.codelen <= 255 * BankSize

\* The CPU does the writes of the recording, all of them and in their order,
\* however they are spread over the banks, and comes to the trap only then.  (A
\* program that runs off the end of a bank comes to the trap, too.)
WritesInOrder ==
  FitsInBanks =>
    LET writes == ScoreOf(song).writes
    IN  /\ Len(written) <= Len(writes)
        /\ \A i \in DOMAIN written :
             written[i] = [reg |-> writes[i].reg, val |-> writes[i].val]
        /\ pc = Trap => Len(written) = Len(writes)

\* However long the recording, every write comes when it is due, to the nearest
\* of the delay's units, but for the time the replayer itself takes: 20 cycles for
\* each write, 32 for each delay, 104 for each new bank and 68 at the beginning.
WritesOnTime ==
  [][ Len(written') > Len(written) /\ FitsInBanks =>
        LET due == (ScoreOf(song).writes[Len(written')].at * 41943) \div 441
            own == 20 * Len(written') + 32 * delays + 104 * (bank - 1) + 68
        IN  clock' - own \in due - 32 .. due + 31 ]_vgmVars
=============================================================================
