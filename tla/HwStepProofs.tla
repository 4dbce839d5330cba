----------------------------- MODULE HwStepProofs -----------------------------
(***************************************************************************)
(* Proofs about HwStep for frames, timers and instructions of any length,  *)
(* any budget and any program.                                             *)
(***************************************************************************)
EXTENDS MCHwStep, Recursion

-----------------------------------------------------------------------------
LEMMA VblankTcPositive == VblankTc \in Nat \ {0}
BY ClockAssumption DEF VblankTc

LEMMA LeastBounds ==
  ASSUME NEW n \in Nat, NEW ctr \in Nat
  PROVE  Least(n, ctr) \in Nat /\ Least(n, ctr) <= n /\ (ctr > 0 => Least(n, ctr) <= ctr)
BY DEF Least

\* Division by its characteristic inequalities.
LEMMA WholeTicks ==
  ASSUME NEW n \in Nat, NEW d \in Nat \ {0}
  PROVE  /\ n \div d \in Nat
         /\ d * (n \div d) <= n
         /\ n < d * (n \div d) + d
OBVIOUS

\* The ticks bring a counter that is overdue into the next period.
LEMMA TicksSuffice ==
  ASSUME NEW spent \in Int, timertc \in Nat \ {0}, spent <= timertc
  PROVE  /\ Ticks(spent) \in Nat
         /\ spent + timertc * Ticks(spent) \in 1 .. timertc
<1>1. CASE spent > 0
  <2>1. Ticks(spent) = 0
    BY <1>1 DEF Ticks
  <2>2. timertc * 0 = 0
    OBVIOUS
  <2> QED  BY <1>1, <2>1, <2>2
<1>2. CASE ~(spent > 0)
  <2> DEFINE q == (-spent) \div timertc
  <2>1. -spent \in Nat
    BY <1>2
  <2>2. q \in Nat /\ timertc * q <= -spent /\ -spent < timertc * q + timertc
    BY <2>1, WholeTicks
  <2>3. Ticks(spent) = q + 1
    BY <1>2 DEF Ticks
  <2> HIDE DEF q
  <2>4. timertc * (q + 1) = timertc * q + timertc /\ timertc * q \in Int
    BY <2>2
  <2> QED  BY <2>2, <2>3, <2>4
<1> QED  BY <1>1, <1>2

-----------------------------------------------------------------------------
\* The CPU runs at most for what is left of the budget and of the frame, and for
\* less than one instruction longer.
Running ==
  /\ total \in Nat
  /\ total < Budget
  /\ maxcycles <= Budget - total
  /\ maxcycles <= vblankctr
  /\ \E n \in StepCycles \cup {HaltCycles} : cycles < maxcycles + n

Inv ==
  /\ NoneOverdue
  /\ timertc \in TimerTcs
  /\ cycles \in Nat /\ maxcycles \in Nat
  /\ pc \in {"outer", "inner", "done"}
  /\ total \in Nat \cup {-1}
  /\ total = -1 => pc = "done" /\ Stuck
  /\ pc = "done" /\ total # -1 => total >= Budget
  /\ pc = "inner" => Running

\* Instructions take some time, and less than a frame.
LEMMA StepTime ==
  ASSUME NEW n \in StepCycles \cup {HaltCycles}
  PROVE  n \in Nat \ {0} /\ n <= VblankTc
BY ClockAssumption

LEMMA TimerTc == Inv => timertc \in Nat \ {0}
BY TimerAssumption DEF Inv

LEMMA InitInv == HwInit => Inv
<1> SUFFICES ASSUME HwInit PROVE Inv
  OBVIOUS
<1>1. timertc \in Nat \ {0}
  BY TimerAssumption DEF HwInit
<1> QED  BY <1>1, VblankTcPositive DEF HwInit, Inv, NoneOverdue

LEMMA OuterLoopInv == Inv /\ OuterLoop => Inv'
<1> SUFFICES ASSUME Inv, OuterLoop PROVE Inv'
  OBVIOUS
<1> USE DEF OuterLoop, timerVars, cpuVars
<1>1. timertc \in Nat \ {0} /\ Budget \in Nat \ {0} /\ VblankTc \in Nat
  BY TimerTc, ClockAssumption, VblankTcPositive
<1>2. total \in Nat
  BY DEF Inv
<1>3. NoneOverdue'
  BY <1>1, <1>2 DEF Inv, NoneOverdue
<1>4. CASE total >= Budget
  BY <1>2, <1>3, <1>4 DEF Inv
<1>5. CASE total < Budget
  <2>1. vblankctr \in Nat \ {0} /\ timerctr \in Nat
    BY <1>1 DEF Inv, NoneOverdue
  <2> DEFINE left == Least(Budget - total, vblankctr)
  <2>2. left \in Nat /\ left <= Budget - total /\ left <= vblankctr
    BY <1>1, <1>2, <1>5, <2>1, LeastBounds
  <2>3. Least(left, timerctr) \in Nat /\ Least(left, timerctr) <= left
    BY <2>1, <2>2, LeastBounds
  <2>4. pc' = "inner" /\ cycles' = 0 /\ maxcycles' = Least(left, timerctr)
    BY <1>1, <1>2, <1>5
  <2> HIDE DEF left
  <2>5. HaltCycles \in Nat \ {0}
    BY ClockAssumption
  <2>6. \E n \in StepCycles \cup {HaltCycles} : cycles' < maxcycles' + n
    BY <2>3, <2>4, <2>5
  <2>7. Running'
    BY <1>1, <1>2, <1>5, <2>1, <2>2, <2>3, <2>4, <2>6 DEF Running
  <2> QED  BY <1>2, <1>3, <2>3, <2>4, <2>7 DEF Inv
<1> QED  BY <1>1, <1>2, <1>4, <1>5

\* What an instruction writes leaves the timer in its period.
LEMMA WriteKeepsPeriod ==
  Inv /\ (WriteIo \/ NoIo) => timertc' \in TimerTcs /\ timerctr' \in 0 .. timertc'
<1> SUFFICES ASSUME Inv, WriteIo \/ NoIo
             PROVE  timertc' \in TimerTcs /\ timerctr' \in 0 .. timertc'
  OBVIOUS
<1>1. timertc \in TimerTcs /\ timerctr \in 0 .. timertc
  BY DEF Inv, NoneOverdue
<1>2. ASSUME NEW on \in BOOLEAN, NEW tc \in TimerTcs, WriteTac(on, tc)
      PROVE  timertc' \in TimerTcs /\ timerctr' \in 0 .. timertc'
  <2>1. timertc \in Nat /\ tc \in Nat
    BY <1>1, TimerAssumption
  <2> QED  BY <1>1, <1>2, <2>1 DEF WriteTac
<1>3. ASSUME UNCHANGED <<timerctr, timertc>>
      PROVE  timertc' \in TimerTcs /\ timerctr' \in 0 .. timertc'
  BY <1>1, <1>3
<1> QED
  BY <1>2, <1>3 DEF WriteIo, NoIo, WriteTima, WriteTma, WriteIf, WriteIe, WriteOther, timerVars

\* The inner loop spends time, or finds the CPU stuck.
LEMMA SpendInv ==
  ASSUME Inv, pc = "inner", cycles < maxcycles,
         UNCHANGED <<vblankctr, maxcycles>>,
         timertc' \in TimerTcs /\ timerctr' \in 0 .. timertc',
         \/ pc' = "done" /\ total' = -1 /\ UNCHANGED cycles /\ Stuck'
         \/ /\ pc' = "inner" /\ UNCHANGED total
            /\ \E n \in StepCycles \cup {HaltCycles} : cycles' = cycles + n
  PROVE  Inv'
<1>1. Running /\ cycles \in Nat /\ maxcycles \in Nat
  BY DEF Inv
<1>2. NoneOverdue'
  BY DEF Inv, NoneOverdue
<1>3. CASE pc' = "done" /\ total' = -1 /\ UNCHANGED cycles /\ Stuck'
  BY <1>1, <1>2, <1>3 DEF Inv
<1>4. CASE pc' = "inner" /\ UNCHANGED total
           /\ \E n \in StepCycles \cup {HaltCycles} : cycles' = cycles + n
  <2>1. PICK n \in StepCycles \cup {HaltCycles} : cycles' = cycles + n
    BY <1>4
  <2>2. n \in Nat \ {0}
    BY StepTime
  <2>3. cycles' \in Nat /\ cycles' < maxcycles' + n
    BY <1>1, <2>1, <2>2
  <2>4. Running'
    BY <1>1, <1>4, <2>3 DEF Running
  <2> QED  BY <1>1, <1>2, <1>4, <2>3, <2>4 DEF Inv, Running
<1> QED  BY <1>3, <1>4

LEMMA RunCpuInv == Inv /\ RunCpu => Inv'
<1> SUFFICES ASSUME Inv, RunCpu PROVE Inv'
  OBVIOUS
<1>1. timertc' \in TimerTcs /\ timerctr' \in 0 .. timertc'
  BY WriteKeepsPeriod DEF RunCpu
<1>2. PICK n \in StepCycles :
        IF halted' /\ ~ime' /\ enabled' = {}
        THEN pc' = "done" /\ total' = -1 /\ UNCHANGED cycles
        ELSE pc' = "inner" /\ cycles' = cycles + n /\ UNCHANGED total
  BY DEF RunCpu
<1>3. \/ pc' = "done" /\ total' = -1 /\ UNCHANGED cycles /\ Stuck'
      \/ /\ pc' = "inner" /\ UNCHANGED total
         /\ \E m \in StepCycles \cup {HaltCycles} : cycles' = cycles + m
  <2>1. CASE halted' /\ ~ime' /\ enabled' = {}
    BY <1>2, <2>1 DEF Stuck, Pending
  <2>2. CASE ~(halted' /\ ~ime' /\ enabled' = {})
    BY <1>2, <2>2
  <2> QED  BY <2>1, <2>2
<1>4. pc = "inner" /\ cycles < maxcycles /\ UNCHANGED <<vblankctr, maxcycles>>
  BY DEF RunCpu
<1> QED  BY <1>1, <1>3, <1>4, SpendInv

LEMMA HaltCpuInv == Inv /\ HaltCpu => Inv'
<1> SUFFICES ASSUME Inv, HaltCpu PROVE Inv'
  OBVIOUS
<1>1. timertc' \in TimerTcs /\ timerctr' \in 0 .. timertc'
  BY DEF Inv, NoneOverdue, HaltCpu, timerVars
<1>2. \/ pc' = "done" /\ total' = -1 /\ UNCHANGED cycles /\ Stuck'
      \/ /\ pc' = "inner" /\ UNCHANGED total
         /\ \E m \in StepCycles \cup {HaltCycles} : cycles' = cycles + m
  <2>1. CASE stopped \/ (~ime /\ enabled = {})
    BY <2>1 DEF HaltCpu, Stuck, Pending, cpuVars
  <2>2. CASE ~(stopped \/ (~ime /\ enabled = {}))
    BY <2>2 DEF HaltCpu
  <2> QED  BY <2>1, <2>2
<1>3. pc = "inner" /\ cycles < maxcycles /\ UNCHANGED <<vblankctr, maxcycles>>
  BY DEF HaltCpu
<1> QED  BY <1>1, <1>2, <1>3, SpendInv

LEMMA AccountInv == Inv /\ Account => Inv'
<1> SUFFICES ASSUME Inv, Account PROVE Inv'
  OBVIOUS
<1>1. timertc \in Nat \ {0} /\ VblankTc \in Nat \ {0}
  BY TimerTc, VblankTcPositive
<1>2. Running /\ cycles \in Nat /\ maxcycles \in Nat /\ vblankctr \in 1 .. VblankTc
  BY DEF Inv, Account, NoneOverdue
<1>3. PICK n \in StepCycles \cup {HaltCycles} : cycles < maxcycles + n
  BY <1>2 DEF Running
<1>4. n \in Nat \ {0} /\ n <= VblankTc
  BY StepTime
<1>5. vblankctr' \in 1 .. VblankTc
  <2>1. maxcycles <= vblankctr
    BY <1>2 DEF Running
  <2>2. vblankctr - cycles \in Int /\ vblankctr - cycles > -VblankTc
    BY <1>1, <1>2, <1>3, <1>4, <2>1
  <2>3. Vblank(vblankctr - cycles)
    BY DEF Account
  <2> QED  BY <1>1, <1>2, <2>2, <2>3 DEF Vblank
<1>6. timerctr' \in 0 .. timertc /\ (tac_on => timerctr' \in 1 .. timertc)
  <2>1. timerctr \in 0 .. timertc
    BY DEF Inv, NoneOverdue
  <2>2. CASE ~tac_on
    BY <2>1, <2>2 DEF Account, Timer
  <2>3. CASE tac_on
    <3> DEFINE spent == IF timerctr > 0 THEN timerctr - cycles ELSE timerctr
    <3>1. spent \in Int /\ spent <= timertc
      BY <1>1, <1>2, <2>1
    <3>2. timerctr' = spent + timertc * Ticks(spent)
      BY <2>3 DEF Account, Timer
    <3> HIDE DEF spent
    <3>3. timerctr' \in 1 .. timertc
      BY <1>1, <3>1, <3>2, TicksSuffice
    <3> QED  BY <1>1, <3>3
  <2> QED  BY <2>2, <2>3
<1>7. pc' = "outer" /\ total' = total + cycles /\ UNCHANGED <<timertc, tac_on, cycles, maxcycles>>
  BY DEF Account
<1>8. NoneOverdue'
  BY <1>1, <1>5, <1>6, <1>7 DEF NoneOverdue
<1>9. total' \in Nat
  BY <1>2, <1>7 DEF Running
<1> QED  BY <1>2, <1>7, <1>8, <1>9 DEF Inv

LEMMA CallInv == Inv /\ Call => Inv'
<1> SUFFICES ASSUME Inv, Call PROVE Inv'
  OBVIOUS
<1>1. NoneOverdue'
  BY DEF Inv, NoneOverdue, Call, timerVars
<1> QED  BY <1>1 DEF Inv, Call, timerVars

LEMMA NextSubsongInv == Inv /\ HwSubsong => Inv'
<1> SUFFICES ASSUME Inv, HwSubsong PROVE Inv'
  OBVIOUS
<1>1. PICK on \in BOOLEAN, tc \in TimerTcs, modulo \in Tmas : Start(on, tc, modulo)
  BY DEF HwSubsong
<1>2. tc \in Nat \ {0}
  BY TimerAssumption
<1>3. NoneOverdue'
  BY <1>1, <1>2, VblankTcPositive DEF Start, NoneOverdue
<1> QED  BY <1>1, <1>3 DEF Start, Inv

LEMMA NextInv == Inv /\ [HwNext]_hwVars => Inv'
<1> SUFFICES ASSUME Inv, [HwNext]_hwVars PROVE Inv'
  OBVIOUS
<1>1. CASE UNCHANGED hwVars
  BY <1>1 DEF hwVars, timerVars, cpuVars, Inv, NoneOverdue, Stuck, Pending, Running
<1> QED
  BY <1>1, OuterLoopInv, RunCpuInv, HaltCpuInv, AccountInv, CallInv, NextSubsongInv
     DEF HwNext, Work

THEOREM StepInvariant == HwSpec => []Inv
BY InitInv, NextInv, PTL DEF HwSpec

-----------------------------------------------------------------------------
\* gbhw_step brings the counters of the vertical blank and of the timer up to
\* date before the CPU goes on, for every program and every length of timers.
THEOREM NothingOverdue == HwSpec => []NoneOverdue
BY StepInvariant, PTL DEF Inv

\* gbhw_step returns what gbs_step has asked for and less than an instruction more.
THEOREM StepReturnsExact == HwSpec => []StepIsExact
<1>1. Inv => StepIsExact
  <2> SUFFICES ASSUME Inv PROVE StepIsExact
    OBVIOUS
  <2>1. Budget \in Nat /\ HaltCycles \in Nat
    BY ClockAssumption
  <2>2. CASE pc = "inner"
    <3>1. Running /\ cycles \in Nat /\ maxcycles \in Nat
      BY <2>2 DEF Inv
    <3>2. PICK n \in StepCycles \cup {HaltCycles} : cycles < maxcycles + n
      BY <3>1 DEF Running
    <3>3. n \in Nat
      BY StepTime
    <3>4. total + cycles < Budget + n
      BY <2>1, <3>1, <3>2, <3>3 DEF Running
    <3> QED  BY <2>2, <3>4 DEF StepIsExact
  <2>3. CASE pc # "inner"
    BY <2>3 DEF Inv, StepIsExact
  <2> QED  BY <2>2, <2>3
<1> QED  BY <1>1, StepInvariant, PTL

\* Once gbhw_step has reported a lock-up, no interrupt can end it.
THEOREM LockupStays == HwSpec => []LockupIsFinal
<1>1. Inv => LockupIsFinal
  BY DEF Inv, LockupIsFinal
<1> QED  BY <1>1, StepInvariant, PTL
-----------------------------------------------------------------------------
(***************************************************************************)
(* TIMA, which counts ticks by a recursive function.                       *)
(***************************************************************************)
TimaRange == 0 .. TimaPeriod - 1

LEMMA TimaExists ==
  ASSUME NEW first \in TimaRange, NEW modulo \in TimaRange
  PROVE  \E f : f = [n \in Nat |->
                       IF n = 0 THEN first
                       ELSE IF f[n - 1] = TimaPeriod - 1 THEN modulo ELSE f[n - 1] + 1]
<1> DEFINE step == [x \in Nat \X TimaRange |->
                      IF x[2] = TimaPeriod - 1 THEN modulo ELSE x[2] + 1]
<1>1. \A x \in Nat \X TimaRange :
        (IF x[2] = TimaPeriod - 1 THEN modulo ELSE x[2] + 1) \in TimaRange
  BY TimerAssumption DEF TimaRange
<1>2. step \in [Nat \X TimaRange -> TimaRange]
  BY <1>1
<1>3. \A n \in Nat, t \in TimaRange :
        step[<<n, t>>] = IF t = TimaPeriod - 1 THEN modulo ELSE t + 1
  OBVIOUS
<1> HIDE DEF step
<1>4. PICK f : Recurs(f, TimaRange, first, step)
  BY <1>2, PrimitiveRecursion
<1>5. ASSUME NEW n \in Nat, n # 0
      PROVE  f[n] = IF f[n - 1] = TimaPeriod - 1 THEN modulo ELSE f[n - 1] + 1
  <2>1. n - 1 \in Nat /\ n - 1 + 1 = n
    BY <1>5
  <2>2. f[n - 1] \in TimaRange /\ f[n] = step[<<n - 1, f[n - 1]>>]
    BY <1>4, <2>1 DEF Recurs
  <2> QED  BY <1>3, <2>1, <2>2
<1>6. f = [n \in Nat |->
             IF n = 0 THEN first
             ELSE IF f[n - 1] = TimaPeriod - 1 THEN modulo ELSE f[n - 1] + 1]
  BY <1>4, <1>5 DEF Recurs
<1> QED  BY <1>6

\* However often the timer ticks at once, TIMA stays in its range.
LEMMA TimaInRange ==
  ASSUME tima \in TimaRange, tma \in TimaRange
  PROVE  \A n \in Nat : Tima[n] \in TimaRange
<1>1. Tima = [n \in Nat |->
                IF n = 0 THEN tima
                ELSE IF Tima[n - 1] = TimaPeriod - 1 THEN tma ELSE Tima[n - 1] + 1]
  BY TimaExists DEF Tima
<1> HIDE DEF Tima
<1> DEFINE T == {n \in Nat : Tima[n] \in TimaRange}
<1>2. 0 \in T
  BY <1>1
<1>3. ASSUME NEW n \in Nat, n \in T PROVE n + 1 \in T
  <2>1. Tima[n + 1] = IF Tima[n] = TimaPeriod - 1 THEN tma ELSE Tima[n] + 1
    BY <1>1
  <2>2. Tima[n + 1] \in TimaRange
    BY <1>3, <2>1, TimerAssumption DEF TimaRange
  <2> QED  BY <2>2
<1>4. \A n \in Nat : n \in T
  <2> HIDE DEF T
  <2> QED  BY <1>2, <1>3, Induction
<1> QED  BY <1>4

TimaInv == tima \in TimaRange /\ tma \in Tmas

LEMMA TimaKept == Inv /\ TimaInv /\ [HwNext]_hwVars => TimaInv'
<1> SUFFICES ASSUME Inv, TimaInv, [HwNext]_hwVars PROVE TimaInv'
  OBVIOUS
<1>1. Tmas \subseteq TimaRange /\ 0 \in TimaRange
  BY TimerAssumption DEF TimaRange
<1>2. CASE UNCHANGED <<tima, tma>>
  BY <1>2 DEF TimaInv
<1>3. CASE RunCpu
  BY <1>1, <1>3
  DEF TimaInv, RunCpu, WriteIo, NoIo, WriteTac, WriteTima, WriteTma, WriteIf, WriteIe,
      WriteOther, timerVars
<1>4. CASE Account
  <2>1. timertc \in Nat \ {0} /\ cycles \in Nat
    BY TimerTc DEF Inv
  <2> DEFINE spent == IF timerctr > 0 THEN timerctr - cycles ELSE timerctr
  <2>2. spent \in Int /\ spent <= timertc
    BY <2>1 DEF Inv, NoneOverdue
  <2>3. tma' = tma /\ (tima' = tima \/ tima' = Tima[Ticks(spent)])
    BY <1>4 DEF Account, Timer
  <2> HIDE DEF spent
  <2>4. Tima[Ticks(spent)] \in TimaRange
    <3> HIDE DEF Tima
    <3> QED  BY <1>1, <2>1, <2>2, TicksSuffice, TimaInRange DEF TimaInv
  <2> QED  BY <2>3, <2>4 DEF TimaInv
<1>5. CASE HwSubsong
  BY <1>1, <1>5 DEF TimaInv, HwSubsong, Start
<1>6. CASE OuterLoop \/ HaltCpu \/ Call \/ UNCHANGED hwVars
  BY <1>2, <1>6 DEF OuterLoop, HaltCpu, Call, hwVars, timerVars
<1> QED  BY <1>3, <1>4, <1>5, <1>6 DEF HwNext, Work

\* gbhw_step: whatever the program writes to TAC, TIMA and TMA, and however long an
\* instruction overruns, every counter is back in its period before the CPU goes on.
THEOREM CountersStayInPeriod == HwSpec => []CountersInPeriod
<1>1. HwInit => TimaInv
  BY TimerAssumption DEF HwInit, TimaInv, TimaRange
<1>2. Inv /\ TimaInv => CountersInPeriod
  BY DEF Inv, TimaInv, TimaRange, CountersInPeriod
<1> QED  BY <1>1, <1>2, StepInvariant, TimaKept, PTL DEF HwSpec

-----------------------------------------------------------------------------
(***************************************************************************)
(* The time since the beginning of the frame.                              *)
(***************************************************************************)
\* Only what a CPU that is stuck had run before it got stuck is not counted; it
\* does not run again before the next subsong.
Lost ==
  /\ Stuck
  /\ pc = "inner" => cycles = 0 /\ maxcycles > 0 /\ ~io_written

FrameInv ==
  \/ Lost
  \/ /\ total # -1
     /\ frame = VblankTc - vblankctr + (IF pc = "inner" THEN cycles ELSE 0)

LEMMA LostStays == Inv /\ Lost /\ (Work \/ Call) => Lost'
<1> SUFFICES ASSUME Inv, Lost, Work \/ Call PROVE Lost'
  OBVIOUS
<1>1. CASE OuterLoop
  <2>1. Stuck'
    BY <1>1 DEF OuterLoop, Lost, Stuck, Pending, cpuVars
  <2>2. CASE total >= Budget
    BY <1>1, <2>1, <2>2 DEF OuterLoop, Lost
  <2>3. CASE ~(total >= Budget)
    <3>1. total \in Nat /\ Budget \in Nat /\ timerctr \in Nat
          /\ vblankctr \in Nat \ {0}
      <4>1. total \in Nat
        BY <1>1 DEF Inv, OuterLoop
      <4>2. timertc \in Nat /\ VblankTc \in Nat
        BY TimerTc, VblankTcPositive
      <4> QED  BY <4>1, <4>2, ClockAssumption DEF Inv, NoneOverdue
    <3>2. Least(Least(Budget - total, vblankctr), timerctr) > 0
      BY <2>3, <3>1 DEF Least
    <3> QED  BY <1>1, <2>1, <2>3, <3>2 DEF OuterLoop, Lost
  <2> QED  BY <2>2, <2>3
<1>2. CASE RunCpu
  BY <1>2 DEF RunCpu, Lost, Stuck
<1>3. CASE HaltCpu
  BY <1>3 DEF HaltCpu, Lost, Stuck, Pending, cpuVars
<1>4. CASE Account
  BY <1>4 DEF Account, Lost, Inv
<1>5. CASE Call
  BY <1>5 DEF Call, Lost, Stuck, Pending, cpuVars
<1> QED  BY <1>1, <1>2, <1>3, <1>4, <1>5 DEF Work

\* A step of the CPU: the time it takes is counted, or the CPU is stuck.
LEMMA RunCounts ==
  ASSUME Inv, RunCpu \/ HaltCpu
  PROVE  /\ vblankctr' = vblankctr /\ pc = "inner" /\ cycles' \in Int
         /\ Lost' \/ (pc' = "inner" /\ total' = total /\ total # -1)
<1>1. cycles \in Nat /\ pc = "inner" /\ total # -1
  BY DEF Inv, RunCpu, HaltCpu
<1>2. CASE HaltCpu
  BY <1>1, <1>2, ClockAssumption DEF HaltCpu, Lost, Stuck, Pending, cpuVars
<1>3. CASE RunCpu
  <2>1. PICK n \in StepCycles :
          IF halted' /\ ~ime' /\ enabled' = {}
          THEN pc' = "done" /\ total' = -1 /\ UNCHANGED cycles
          ELSE pc' = "inner" /\ cycles' = cycles + n /\ UNCHANGED total
    BY <1>3 DEF RunCpu
  <2>2. n \in Nat
    BY ClockAssumption
  <2>3. CASE halted' /\ ~ime' /\ enabled' = {}
    BY <1>1, <1>3, <2>1, <2>3 DEF RunCpu, Lost, Stuck, Pending
  <2>4. CASE ~(halted' /\ ~ime' /\ enabled' = {})
    BY <1>1, <1>3, <2>1, <2>2, <2>4 DEF RunCpu
  <2> QED  BY <2>3, <2>4
<1> QED  BY <1>2, <1>3

LEMMA FrameKept ==
  Inv /\ Inv' /\ FrameInv /\ [MCHwNext]_allHwVars => FrameInv'
<1> SUFFICES ASSUME Inv, Inv', FrameInv, [MCHwNext]_allHwVars PROVE FrameInv'
  OBVIOUS
<1>1. VblankTc \in Nat /\ vblankctr \in Int /\ cycles \in Int
  BY VblankTcPositive DEF Inv, NoneOverdue
<1>2. CASE UNCHANGED allHwVars
  BY <1>2 DEF allHwVars, hwVars, cpuVars, FrameInv, Lost, Stuck, Pending
<1>3. CASE HwSubsong /\ frame' = 0
  <2>1. vblankctr' = VblankTc /\ pc' = "outer" /\ total' = 0
    BY <1>3 DEF HwSubsong, Start
  <2> QED  BY <1>1, <1>3, <2>1 DEF FrameInv
<1>4. CASE /\ Work \/ Call
           /\ frame' = frame + Spent
                - IF Account /\ vblankctr' > vblankctr - cycles THEN VblankTc ELSE 0
  <2>1. CASE Lost
    BY <1>4, <2>1, LostStays DEF FrameInv
  <2> SUFFICES ASSUME ~Lost PROVE FrameInv'
    BY <2>1
  <2>2. /\ total # -1
        /\ frame = VblankTc - vblankctr + (IF pc = "inner" THEN cycles ELSE 0)
    BY DEF FrameInv
  <2>3. frame \in Int
    BY <1>1, <2>2
  <2>4. CASE OuterLoop
    <3>1. ~Account /\ Spent = 0 /\ pc = "outer" /\ vblankctr' = vblankctr
          /\ total' = total /\ (pc' = "inner" => cycles' = 0)
      BY <2>4 DEF OuterLoop, Account, Spent
    <3> QED  BY <1>1, <1>4, <2>2, <2>3, <3>1 DEF FrameInv
  <2>5. CASE RunCpu \/ HaltCpu
    <3>1. CASE Lost'
      BY <3>1 DEF FrameInv
    <3>2. CASE pc' = "inner" /\ total' = total
      <4>1. ~Account /\ Spent = cycles' - cycles /\ pc = "inner"
            /\ vblankctr' = vblankctr /\ cycles' \in Int
        BY <2>5, <3>2, RunCounts DEF Account, Spent
      <4> DEFINE c == cycles'
      <4>2. c \in Int /\ frame' = frame + (c - cycles) - 0
        BY <1>4, <4>1
      <4> HIDE DEF c
      <4>3. frame + (c - cycles) - 0 = VblankTc - vblankctr + c
        BY <1>1, <2>2, <2>3, <4>1, <4>2
      <4> QED  BY <2>2, <3>2, <4>1, <4>2, <4>3 DEF FrameInv, c
    <3> QED  BY <2>5, <3>1, <3>2, RunCounts
  <2>6. CASE Account
    <3> DEFINE left == vblankctr - cycles
    <3>1. /\ pc = "inner" /\ pc' = "outer" /\ Spent = 0 /\ left \in Int
          /\ vblankctr' = IF left <= 0 THEN left + VblankTc ELSE left
      BY <1>1, <2>6 DEF Account, Spent, Vblank
    <3>2. frame = VblankTc - left
      BY <1>1, <2>2, <3>1
    <3>3. total' # -1
      BY <3>1 DEF Inv
    <3>4. frame' = frame + 0 - IF vblankctr' > left THEN VblankTc ELSE 0
      BY <1>4, <2>6, <3>1
    <3> HIDE DEF left
    <3>5. frame' = VblankTc - vblankctr'
      <4>1. CASE left <= 0
        BY <1>1, <3>1, <3>2, <3>4, <4>1, VblankTcPositive
      <4>2. CASE ~(left <= 0)
        BY <1>1, <3>1, <3>2, <3>4, <4>2
      <4> QED  BY <4>1, <4>2
    <3> QED  BY <1>1, <3>1, <3>3, <3>5 DEF FrameInv
  <2>7. CASE Call
    <3>1. ~Account /\ Spent = 0 /\ pc = "done" /\ pc' = "outer"
          /\ vblankctr' = vblankctr /\ total' = 0
      BY <2>7 DEF Call, Account, Spent
    <3> QED  BY <1>1, <1>4, <2>2, <2>3, <3>1 DEF FrameInv
  <2> QED  BY <1>4, <2>4, <2>5, <2>6, <2>7 DEF Work
<1> QED  BY <1>2, <1>3, <1>4 DEF MCHwNext

\* gbhw_step loses no cycle between two vertical blanks and counts none twice,
\* for frames, instructions and timers of any length, as long as the CPU is not
\* stuck.
THEOREM FramesInTime == MCHwSpec => []FramesKeepTime
<1>1. MCHwInit => Inv /\ FrameInv
  <2>1. ASSUME MCHwInit PROVE FrameInv
    BY <2>1, VblankTcPositive DEF MCHwInit, HwInit, FrameInv
  <2> QED  BY <2>1, InitInv DEF MCHwInit
<1>2. Inv /\ [MCHwNext]_allHwVars => Inv'
  <2>1. MCHwNext => HwNext
    BY DEF MCHwNext, HwNext
  <2>2. UNCHANGED allHwVars => UNCHANGED hwVars
    BY DEF allHwVars
  <2> QED  BY <2>1, <2>2, NextInv
<1>3. Inv /\ FrameInv => FramesKeepTime
  <2> SUFFICES ASSUME Inv, FrameInv, pc # "inner", ~Stuck
               PROVE  frame = VblankTc - vblankctr
    BY DEF FramesKeepTime
  <2>1. VblankTc \in Nat /\ vblankctr \in Int
    BY VblankTcPositive DEF Inv, NoneOverdue
  <2> QED  BY <2>1 DEF FrameInv, Lost
<1> QED  BY <1>1, <1>2, <1>3, FrameKept, PTL DEF MCHwSpec
=============================================================================
