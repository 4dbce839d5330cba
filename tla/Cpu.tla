---------------------------------- MODULE Cpu ----------------------------------
(***************************************************************************)
(* The instructions of gbcpu.c that move the program counter and the stack,*)
(* those that switch interrupts, and the loads that the code made by gbs.c *)
(* uses, each with the cycles it takes; gbcpu_step and gbcpu_intr.         *)
(*                                                                         *)
(* Registers are words and wrap.  What an instruction is and what it finds *)
(* in its operand is up to the module that knows the program: Routines,    *)
(* for any program of a GBS file, and Vgm, for the one made of a VGM file. *)
(***************************************************************************)
EXTENDS Alu, Sequences

VARIABLES
  pc, sp, de, hl,   \* regs.rn; A and F are those of Alu
  ram,              \* memory from 0x8000 on, as far as it was written
  ime, halted,
  clock,            \* sum_cycles, or Untimed
  requested         \* IF, of the interrupts that gbs_init enables in IE

data == <<a, f, de, hl>>
cpuVars == <<pc, sp, data, ram, ime, halted, clock, requested>>

\* gbs_init's breakpoint, the address that the outermost routine returns to.
HaltAtPc == 65535

Irq == {"vblank", "timer"}
Vector(irq) == IF irq = "vblank" THEN 64 ELSE 80

-----------------------------------------------------------------------------
Word(x) == x % 65536
Low(x) == x % 256
High(x) == x \div 256
Signed(x) == IF x > 127 THEN x - 256 ELSE x

At(addr) == IF addr \in DOMAIN ram THEN ram[addr] ELSE 0
With(mem, addr, val) ==
  [x \in DOMAIN mem \cup {addr} |-> IF x = addr THEN val ELSE mem[x]]
Without(mem, addrs) == [x \in DOMAIN mem \ addrs |-> mem[x]]

\* mem_put.  The ROM is below 0x8000.
Store(addr, val) ==
  ram' = IF addr < 32768 THEN ram ELSE With(ram, addr, val)

\* What instructions add to sum_cycles, of a program whose time matters.
Untimed == -1
Takes(time) == clock' = IF clock = Untimed THEN clock ELSE clock + time

\* The address after an instruction of n bytes.
After(n) == Word(pc + n)

\* push, and pop in two parts.  What has been popped is forgotten: none of the
\* programs looks below the stack pointer.
Push(val) ==
  LET at == Word(sp - 2)
  IN  sp' = at /\ ram' = With(With(ram, at, Low(val)), Word(at + 1), High(val))
Top == At(sp) + 256 * At(Word(sp + 1))
Drop == sp' = Word(sp + 2) /\ ram' = Without(ram, {sp, Word(sp + 1)})

\* Slip: the CPU waits with interrupts as the routine has left them.
Goes_KeepIme(to, on, stops) ==
  pc' = to /\ halted' = (stops \/ to = HaltAtPc) /\ ime' = on

\* The end of gbcpu_step: at the breakpoint the CPU waits for an interrupt.
Goes(to, on, stops) ==
  pc' = to /\ halted' = (stops \/ to = HaltAtPc) /\ ime' = (on \/ to = HaltAtPc)

\* An instruction of n bytes that the next one follows.
Passes(n, time) == Goes(After(n), ime, FALSE) /\ Takes(time)
KeepStack == UNCHANGED <<sp, ram>>

\* Jumps, to an address that an instruction names.
Jump(to, time) == Goes(to, ime, FALSE) /\ Takes(time) /\ KeepStack /\ UNCHANGED data
Untaken(n, time) == Passes(n, time) /\ KeepStack /\ UNCHANGED data
Jp(to) == Jump(to, 16)
JpHl == Jump(hl, 4)
JpCond(cond, to) == IF Taken(cond, f) THEN Jump(to, 16) ELSE Untaken(3, 12)
JrCond(cond, ofs) ==
  IF Taken(cond, f) THEN Jump(Word(After(2) + Signed(ofs)), 12) ELSE Untaken(2, 8)
\* op_jr: a jump to itself with interrupts off stops the CPU.
Jr(ofs) ==
  /\ Goes(Word(After(2) + Signed(ofs)), ime, Signed(ofs) = -2 /\ ~ime)
  /\ Takes(12) /\ KeepStack /\ UNCHANGED data

\* Slip: the address of the instruction itself is pushed.
Call_Again(to) ==
  Push(pc) /\ Goes(to, ime, FALSE) /\ Takes(24) /\ UNCHANGED data

\* Calls and returns
Call(to) == Push(After(3)) /\ Goes(to, ime, FALSE) /\ Takes(24) /\ UNCHANGED data
CallCond(cond, to) == IF Taken(cond, f) THEN Call(to) ELSE Untaken(3, 12)
Rst(to) == Push(After(1)) /\ Goes(to, ime, FALSE) /\ Takes(16) /\ UNCHANGED data
Return(on, time) == Drop /\ Goes(Top, on, FALSE) /\ Takes(time) /\ UNCHANGED data
Ret == Return(ime, 16)
Reti == Return(TRUE, 16)
RetCond(cond) == IF Taken(cond, f) THEN Return(ime, 20) ELSE Untaken(1, 8)

\* push and pop of DE or HL
PushReg(reg) == Push(reg) /\ Passes(1, 16) /\ UNCHANGED data
PopDe == Drop /\ Passes(1, 12) /\ de' = Top /\ UNCHANGED <<a, f, hl>>
PopHl == Drop /\ Passes(1, 12) /\ hl' = Top /\ UNCHANGED <<a, f, de>>

\* Interrupts, and waiting for one
Nop == Untaken(1, 4)
Halt == Goes(After(1), ime, TRUE) /\ Takes(4) /\ KeepStack /\ UNCHANGED data
Di == Goes(After(1), FALSE, FALSE) /\ Takes(4) /\ KeepStack /\ UNCHANGED data
Ei == Goes(After(1), TRUE, FALSE) /\ Takes(4) /\ KeepStack /\ UNCHANGED data

\* Loads
LdSpHl == sp' = hl /\ Passes(1, 8) /\ UNCHANGED <<data, ram>>
LdHl(val) == hl' = val /\ Passes(3, 12) /\ KeepStack /\ UNCHANGED <<a, f, de>>
LdH(val) == hl' = 256 * val + Low(hl) /\ Passes(2, 8) /\ KeepStack /\ UNCHANGED <<a, f, de>>
LdA(val) == a' = val /\ Passes(2, 8) /\ KeepStack /\ UNCHANGED <<f, de, hl>>
LdAtHl(val, n) == Store(hl, val) /\ Passes(n, 4 + 4 * n) /\ UNCHANGED <<sp, data>>
LdAHlInc(found) ==
  a' = found /\ hl' = Word(hl + 1) /\ Passes(1, 8) /\ KeepStack /\ UNCHANGED <<f, de>>
LdE == de' = 256 * High(de) + a /\ Passes(1, 4) /\ KeepStack /\ UNCHANGED <<a, f, hl>>
LdD == de' = 256 * a + Low(de) /\ Passes(1, 4) /\ KeepStack /\ UNCHANGED <<a, f, hl>>
LdAD == a' = High(de) /\ Passes(1, 4) /\ KeepStack /\ UNCHANGED <<f, de, hl>>
LdhPut(ofs) == Store(65280 + ofs, a) /\ Passes(2, 12) /\ UNCHANGED <<sp, data>>
LdhGet(ofs) ==
  a' = At(65280 + ofs) /\ Passes(2, 12) /\ KeepStack /\ UNCHANGED <<f, de, hl>>

\* Arithmetic that the code of gbs.c uses
IncHl == hl' = Word(hl + 1) /\ Passes(1, 8) /\ KeepStack /\ UNCHANGED <<a, f, de>>
DecDe == de' = Word(de - 1) /\ Passes(1, 8) /\ KeepStack /\ UNCHANGED <<a, f, hl>>
IncA == Inc /\ Passes(1, 4) /\ KeepStack /\ UNCHANGED <<de, hl>>
OrE == OrWith(Low(de)) /\ Passes(1, 4) /\ KeepStack /\ UNCHANGED <<de, hl>>

-----------------------------------------------------------------------------
\* ops, the upper quarter and what else is used, by what an instruction finds:
\* the byte and the word after it, and the byte at HL.
CondOf(op) == <<"NZ", "Z", "NC", "C">>[1 + ((op \div 8) % 4)]
JrConds == {32, 40, 48, 56}
RetConds == {192, 200, 208, 216}
JpConds == {194, 202, 210, 218}
CallConds == {196, 204, 212, 220}
Rsts == {op \in 192 .. 255 : op % 8 = 7}

ControlFlow(op, imm8, imm16) ==
  \/ op = \hC3 /\ Jp(imm16)
  \/ op = \hE9 /\ JpHl
  \/ op \in JpConds /\ JpCond(CondOf(op), imm16)
  \/ op = \h18 /\ Jr(imm8)
  \/ op \in JrConds /\ JrCond(CondOf(op), imm8)
  \/ op = \hCD /\ Call(imm16)
  \/ op \in CallConds /\ CallCond(CondOf(op), imm16)
  \/ op \in Rsts /\ Rst(op - 199)
  \/ op = \hC9 /\ Ret
  \/ op = \hD9 /\ Reti
  \/ op \in RetConds /\ RetCond(CondOf(op))
  \/ op \in {\h00, \h10} /\ Nop
  \/ op = \h76 /\ Halt
  \/ op = \hF3 /\ Di
  \/ op = \hFB /\ Ei

Loads(op, imm8, imm16, found) ==
  \/ op = \hD5 /\ PushReg(de)
  \/ op = \hE5 /\ PushReg(hl)
  \/ op = \hD1 /\ PopDe
  \/ op = \hE1 /\ PopHl
  \/ op = \hF9 /\ LdSpHl
  \/ op = \h21 /\ LdHl(imm16)
  \/ op = \h26 /\ LdH(imm8)
  \/ op = \h3E /\ LdA(imm8)
  \/ op = \h36 /\ LdAtHl(imm8, 2)
  \/ op = \h77 /\ LdAtHl(a, 1)
  \/ op = \h2A /\ LdAHlInc(found)
  \/ op = \h5F /\ LdE
  \/ op = \h57 /\ LdD
  \/ op = \h7A /\ LdAD
  \/ op = \hE0 /\ LdhPut(imm8)
  \/ op = \hF0 /\ LdhGet(imm8)
  \/ op = \h23 /\ IncHl
  \/ op = \h1B /\ DecDe
  \/ op = \h3C /\ IncA
  \/ op = \hB3 /\ OrE

\* gbcpu_step, after gbhw_check_if has found no interrupt to take.  A request
\* ends the halt even with interrupts off.
Ready == ~(ime /\ requested # {}) /\ (~halted \/ requested # {})
Execute(op, imm8, imm16, found) ==
  /\ Ready
  /\ ControlFlow(op, imm8, imm16) \/ Loads(op, imm8, imm16, found)
  /\ UNCHANGED requested

\* Slip: interrupts stay on in the handler.
Interrupt_KeepIme ==
  /\ ime /\ requested # {}
  /\ LET irq == IF "vblank" \in requested THEN "vblank" ELSE "timer"
     IN  requested' = requested \ {irq} /\ pc' = Vector(irq)
  /\ Push(pc)
  /\ halted' = FALSE /\ ime' = TRUE
  /\ UNCHANGED clock
  /\ UNCHANGED data

\* gbhw_check_if and gbcpu_intr.  Of no time: gbcpu_step sets cycles anew.
Interrupt ==
  /\ ime /\ requested # {}
  /\ LET irq == IF "vblank" \in requested THEN "vblank" ELSE "timer"
     IN  requested' = requested \ {irq} /\ pc' = Vector(irq)
  /\ Push(pc)
  /\ halted' = FALSE /\ ime' = FALSE
  /\ UNCHANGED clock
  /\ UNCHANGED data

\* gbhw_step's counters, see HwStep.
Request(irq) ==
  /\ irq \notin requested
  /\ requested' = requested \cup {irq}
  /\ UNCHANGED <<pc, sp, data, ram, ime, halted, clock>>

\* gbs_init: a breakpoint to return to, and the registers of the subsong.
Started(stack, init, subsong) ==
  [pc |-> init, sp |-> Word(stack - 2), a |-> subsong,
   ram |-> With(With([x \in {} |-> 0], Word(stack - 2), Low(HaltAtPc)),
                Word(stack - 1), High(HaltAtPc))]
=============================================================================
