------------------------------- MODULE HwStep --------------------------------
(***************************************************************************)
(* gbhw_step: the emulated time.  The CPU runs, one instruction after the  *)
(* other, until a timer or the vertical blank is due or a hardware register*)
(* is written; only then the counters are brought up to date and interrupts*)
(* are requested, which the CPU takes before its next instruction.         *)
(*                                                                         *)
(* The program the CPU runs is any program: each instruction takes some    *)
(* time and may change the interrupt state or write a register.            *)
(***************************************************************************)
EXTENDS Integers

CONSTANTS
  LineClocks,   \* clocks per line, 456
  Lines,        \* lines per frame, 154
  VblankLines,  \* lines of the vertical blank, 10
  TimerTcs,     \* values of timertc_from_tac
  TimaPeriod,   \* values of TIMA, 256
  Tmas,         \* what the program writes to TMA and TIMA
  Budget,       \* time_to_work in cycles
  StepCycles,   \* cycles of an instruction
  HaltCycles,   \* what gbcpu_step returns while halted, 16
  CanStop       \* whether the program has opcodes that gbcpu.c does not know

VblankTc == Lines * LineClocks
VblankClocks == VblankLines * LineClocks
Irq == {"vblank", "timer"}

ASSUME ClockAssumption ==
  /\ LineClocks \in Nat \ {0} /\ Lines \in Nat \ {0} /\ VblankLines \in 1 .. Lines - 1
  /\ Budget \in Nat \ {0} /\ HaltCycles \in Nat \ {0}
  /\ StepCycles \subseteq Nat \ {0} /\ StepCycles # {}
  /\ \A n \in StepCycles \cup {HaltCycles} : n <= VblankTc
ASSUME TimerAssumption ==
  /\ TimerTcs \subseteq Nat \ {0} /\ TimerTcs # {}
  /\ TimaPeriod \in Nat \ {0} /\ Tmas \subseteq 0 .. TimaPeriod - 1
  /\ CanStop \in BOOLEAN

VARIABLES
  vblankctr,
  timerctr, timertc,
  tac_on,            \* bit 2 of TAC
  tima, tma,
  requested,         \* IF
  enabled,           \* IE
  ime, halted, stopped,
  pc,                \* "outer" and "inner": the loops of gbhw_step; "done"
  total,             \* cycles_total, or -1 as returned by a CPU that is stuck
  cycles, maxcycles,
  io_written

timerVars == <<timerctr, timertc, tac_on, tima, tma>>
cpuVars == <<ime, halted, stopped>>
hwVars == <<vblankctr, timerVars, requested, enabled, cpuVars,
          pc, total, cycles, maxcycles, io_written>>

-----------------------------------------------------------------------------
Least(a, ctr) == IF ctr > 0 /\ ctr < a THEN ctr ELSE a

\* Slip: the CPU runs until an interrupt is due, however much was asked for.
OuterLoop_NoBudget ==
  /\ pc = "outer"
  /\ IF total >= Budget
     THEN pc' = "done" /\ UNCHANGED <<cycles, maxcycles, io_written>>
     ELSE /\ pc' = "inner"
          /\ maxcycles' = Least(vblankctr, timerctr)
          /\ cycles' = 0
          /\ io_written' = FALSE
  /\ UNCHANGED <<vblankctr, timerVars, requested, enabled, cpuVars, total>>

\* The head of the outer loop: how long the CPU may run.
OuterLoop ==
  /\ pc = "outer"
  /\ IF total >= Budget
     THEN pc' = "done" /\ UNCHANGED <<cycles, maxcycles, io_written>>
     ELSE /\ pc' = "inner"
          /\ maxcycles' = Least(Least(Budget - total, vblankctr), timerctr)
          /\ cycles' = 0
          /\ io_written' = FALSE
  /\ UNCHANGED <<vblankctr, timerVars, requested, enabled, cpuVars, total>>

\* gbhw_check_if: an enabled request ends halt; the one of highest priority is
\* taken if interrupts are on.
Pending == requested \cap enabled
Taken == IF ~ime THEN {}
         ELSE IF "vblank" \in Pending THEN {"vblank"} ELSE Pending

\* Slip: the counter of the period before is kept.
WriteTac_KeepCounter(on, tc) ==
  /\ tac_on' = on /\ timertc' = tc
  /\ UNCHANGED <<timerctr, tima, tma, enabled>>
  /\ requested' = requested \ Taken

\* What an instruction may do, with interrupts on or off as check_if left them.
\* A write to a register of the timer, to IF, IE or any other register:
WriteTac(on, tc) ==
  /\ tac_on' = on /\ timertc' = tc
  /\ timerctr' = IF timerctr > tc THEN 0 ELSE timerctr
  /\ UNCHANGED <<tima, tma, enabled>>
  /\ requested' = requested \ Taken
WriteTima(v) ==
  /\ tima' = v
  /\ UNCHANGED <<timerctr, timertc, tac_on, tma, enabled>>
  /\ requested' = requested \ Taken
WriteTma(v) ==
  /\ tma' = v
  /\ UNCHANGED <<timerctr, timertc, tac_on, tima, enabled>>
  /\ requested' = requested \ Taken
WriteOther == requested' = requested \ Taken /\ UNCHANGED <<timerVars, enabled>>
WriteIf(set) == requested' = set /\ UNCHANGED <<timerVars, enabled>>
WriteIe(set) ==
  /\ enabled' = set
  /\ requested' = requested \ Taken
  /\ UNCHANGED timerVars

WriteIo ==
  /\ io_written' = TRUE
  /\ \/ \E on \in BOOLEAN, tc \in TimerTcs : WriteTac(on, tc)
     \/ \E v \in Tmas : WriteTima(v) \/ WriteTma(v)
     \/ \E set \in SUBSET Irq : WriteIf(set) \/ WriteIe(set)
     \/ WriteOther

NoIo ==
  /\ requested' = requested \ Taken
  /\ UNCHANGED <<timerVars, enabled, io_written>>

\* The CPU after an instruction: one that goes on (ei, di and reti change ime),
\* halt or an endless loop with interrupts off, the return to halt_at_pc, an
\* unknown opcode.
Cpu(ime0) ==
  \/ ime' \in BOOLEAN /\ halted' = FALSE /\ UNCHANGED stopped
  \/ ime' = ime0 /\ halted' = TRUE /\ UNCHANGED stopped
  \/ ime' = TRUE /\ halted' = TRUE /\ UNCHANGED stopped
  \/ CanStop /\ ime' = ime0 /\ halted' = FALSE /\ stopped' = TRUE

\* gbhw_check_if and then one instruction of a CPU that is not halted.  When it
\* ends halted with all interrupts off, gbhw_step returns at once.
RunCpu ==
  /\ pc = "inner" /\ cycles < maxcycles /\ ~io_written
  /\ ~halted \/ Pending # {}
  /\ \/ Cpu(ime /\ Taken = {}) /\ NoIo
     \/ ime' = (ime /\ Taken = {}) /\ halted' = FALSE /\ UNCHANGED stopped /\ WriteIo
  /\ \E n \in StepCycles :
       IF halted' /\ ~ime' /\ enabled' = {}
       THEN pc' = "done" /\ total' = -1 /\ UNCHANGED cycles
       ELSE pc' = "inner" /\ cycles' = cycles + n /\ UNCHANGED total
  /\ UNCHANGED <<vblankctr, maxcycles>>

\* The CPU stays halted.
HaltCpu ==
  /\ pc = "inner" /\ cycles < maxcycles /\ ~io_written
  /\ halted /\ Pending = {}
  /\ IF stopped \/ (~ime /\ enabled = {})
     THEN pc' = "done" /\ total' = -1 /\ UNCHANGED cycles
     ELSE pc' = "inner" /\ cycles' = cycles + HaltCycles /\ UNCHANGED total
  /\ UNCHANGED <<vblankctr, timerVars, requested, enabled, cpuVars,
                 maxcycles, io_written>>

\* Slip: the period starts anew, and what the CPU ran over is lost.
Vblank_Anew(spent) == vblankctr' = IF spent <= 0 THEN VblankTc ELSE spent

\* The tail of the outer loop: the vertical blank is requested when it is due.
Vblank(spent) == vblankctr' = IF spent <= 0 THEN spent + VblankTc ELSE spent

\* The timer ticks as often as it takes to bring the counter above 0, and each
\* tick counts TIMA up, or reloads it and requests an interrupt.
Ticks(spent) == IF spent > 0 THEN 0 ELSE (-spent) \div timertc + 1
Tima[n \in Nat] ==
  IF n = 0 THEN tima
  ELSE IF Tima[n - 1] = TimaPeriod - 1 THEN tma ELSE Tima[n - 1] + 1
Timer ==
  IF ~tac_on THEN UNCHANGED <<timerctr, tima>>
  ELSE LET spent == IF timerctr > 0 THEN timerctr - cycles ELSE timerctr
       IN  /\ timerctr' = spent + timertc * Ticks(spent)
           /\ tima' = Tima[Ticks(spent)]
TimerRequest ==
  /\ tac_on
  /\ \E n \in 1 .. Ticks(IF timerctr > 0 THEN timerctr - cycles ELSE timerctr) :
       Tima[n - 1] = TimaPeriod - 1

\* Slip: what was elapsed is counted only when nothing was written.
Account_NotWritten ==
  /\ pc = "inner" /\ (cycles >= maxcycles \/ io_written)
  /\ Vblank(vblankctr - cycles)
  /\ Timer
  /\ requested' = requested \cup (IF vblankctr - cycles <= 0 THEN {"vblank"} ELSE {})
                            \cup (IF TimerRequest THEN {"timer"} ELSE {})
  /\ total' = IF io_written THEN total ELSE total + cycles
  /\ pc' = "outer"
  /\ UNCHANGED <<timertc, tac_on, tma, enabled, cpuVars, cycles, maxcycles, io_written>>

\* Slip: the vertical blank is requested only when the counter is below 0.
Account_Below ==
  /\ pc = "inner" /\ (cycles >= maxcycles \/ io_written)
  /\ Vblank(vblankctr - cycles)
  /\ Timer
  /\ requested' = requested \cup (IF vblankctr - cycles < 0 THEN {"vblank"} ELSE {})
                            \cup (IF TimerRequest THEN {"timer"} ELSE {})
  /\ total' = total + cycles
  /\ pc' = "outer"
  /\ UNCHANGED <<timertc, tac_on, tma, enabled, cpuVars, cycles, maxcycles, io_written>>

Account ==
  /\ pc = "inner" /\ (cycles >= maxcycles \/ io_written)
  /\ Vblank(vblankctr - cycles)
  /\ Timer
  /\ requested' = requested \cup (IF vblankctr - cycles <= 0 THEN {"vblank"} ELSE {})
                            \cup (IF TimerRequest THEN {"timer"} ELSE {})
  /\ total' = total + cycles
  /\ pc' = "outer"
  /\ UNCHANGED <<timertc, tac_on, tma, enabled, cpuVars, cycles, maxcycles, io_written>>

\* gbs_step calls gbhw_step again.
Call ==
  /\ pc = "done"
  /\ pc' = "outer"
  /\ total' = 0
  /\ UNCHANGED <<vblankctr, timerVars, requested, enabled, cpuVars,
                 cycles, maxcycles, io_written>>

\* gbs_init: gbhw_init, then TMA and TAC as the file has them, and IE.
Start(on, tc, modulo) ==
  /\ vblankctr' = VblankTc
  /\ timerctr' = 0 /\ timertc' = tc /\ tac_on' = on
  /\ tima' = 0 /\ tma' = modulo
  /\ requested' = {} /\ enabled' = Irq
  /\ ime' = FALSE /\ halted' = FALSE /\ stopped' = FALSE
  /\ pc' = "outer" /\ total' = 0 /\ cycles' = 0 /\ maxcycles' = 0
  /\ io_written' = TRUE
HwSubsong ==
  /\ pc = "done"
  /\ \E on \in BOOLEAN, tc \in TimerTcs, modulo \in Tmas : Start(on, tc, modulo)

HwInit ==
  /\ vblankctr = VblankTc
  /\ timerctr = 0 /\ timertc \in TimerTcs /\ tac_on \in BOOLEAN
  /\ tima = 0 /\ tma \in Tmas
  /\ requested = {} /\ enabled = Irq
  /\ ime = FALSE /\ halted = FALSE /\ stopped = FALSE
  /\ pc = "outer" /\ total = 0 /\ cycles = 0 /\ maxcycles = 0
  /\ io_written = TRUE

Work == OuterLoop \/ RunCpu \/ HaltCpu \/ Account
HwNext == Work \/ Call \/ HwSubsong
HwSpec == HwInit /\ [][HwNext]_hwVars

-----------------------------------------------------------------------------
HwTypeOK ==
  /\ vblankctr \in Int
  /\ timerctr \in Nat /\ timertc \in TimerTcs /\ tac_on \in BOOLEAN
  /\ tima \in 0 .. TimaPeriod - 1 /\ tma \in Tmas
  /\ requested \subseteq Irq /\ enabled \subseteq Irq
  /\ {ime, halted, stopped, io_written} \subseteq BOOLEAN
  /\ pc \in {"outer", "inner", "done"}
  /\ total \in Nat \cup {-1} /\ cycles \in Nat /\ maxcycles \in Nat

\* Whenever the CPU may run, both counters lie in their period: no vertical
\* blank is overdue, and the timer, if on, is still to tick, whatever TAC was
\* set to in the meantime and by how much the last instruction was too long.
NoneOverdue ==
  /\ vblankctr \in 1 .. VblankTc
  /\ timerctr \in 0 .. timertc
  /\ pc = "outer" /\ total > 0 /\ tac_on => timerctr > 0

\* And TIMA has been reloaded wherever it would have left its range.
CountersInPeriod == NoneOverdue /\ tima \in 0 .. TimaPeriod - 1

\* gbhw_step's "@return elapsed cpu cycles": what was asked for and less than
\* one instruction more.
StepIsExact ==
  /\ pc = "done" /\ total # -1 => total >= Budget
  /\ \E n \in StepCycles \cup {HaltCycles} :
       pc = "inner" => total + cycles < Budget + n

\* "Locked in halt state": once gbhw_step has returned -1, no interrupt can
\* come that ends the halt, so every later call returns -1 too.
Stuck == halted /\ Pending = {} /\ (stopped \/ (~ime /\ enabled = {}))
LockupIsFinal == total = -1 => Stuck

\* gbhw_step comes to an end, whatever the program does.
StepEnds == pc = "outer" ~> pc = "done"

\* A halted CPU goes on if an enabled interrupt has a source that runs.
WakesUp ==
  \/ []<>(~halted \/ stopped \/ "vblank" \notin enabled)
          /\ []<>(~halted \/ stopped \/ "timer" \notin enabled \/ ~tac_on)
  \/ []<><<RunCpu>>_hwVars
=============================================================================
