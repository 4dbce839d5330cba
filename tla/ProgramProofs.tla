---------------------------- MODULE ProgramProofs ----------------------------
(***************************************************************************)
(* Proofs about the parts of module MCProgram.  The player, for any number *)
(* of subsongs, any timeouts and any length of a step, as long as the CPU  *)
(* does not lock up: what gbs_init leaves behind of one subsong does no    *)
(* harm to the next.  The configuration, for any files whose lines say     *)
(* what they mean.  The terminal, for any signals.                         *)
(***************************************************************************)
EXTENDS MCProgram, Recursion

-----------------------------------------------------------------------------
LEMMA DivBounds ==
  ASSUME NEW a \in Nat, NEW b \in Nat \ {0}
  PROVE  a \div b \in Nat /\ b * (a \div b) <= a /\ a < b * (a \div b) + b
OBVIOUS

LEMMA MulMono ==
  ASSUME NEW b \in Nat, NEW x \in Int, NEW y \in Int, x <= y
  PROVE  b * x <= b * y
OBVIOUS

\* Full seconds do not get fewer.
LEMMA DivMono ==
  ASSUME NEW a \in Nat, NEW z \in Nat, a <= z, NEW b \in Nat \ {0}
  PROVE  a \div b <= z \div b
<1> DEFINE d == a \div b
           e == z \div b
<1>1. d \in Nat /\ e \in Nat /\ b * d <= a /\ z < b * e + b
  BY DivBounds
<1> HIDE DEF d, e
<1>2. SUFFICES ASSUME e + 1 <= d PROVE FALSE
  BY <1>1 DEF d, e
<1>3. b * (e + 1) <= b * d
  BY <1>1, <1>2, MulMono
<1>4. b * (e + 1) = b * e + b /\ b * d \in Int /\ b * e \in Int
  BY <1>1
<1> QED  BY <1>1, <1>3, <1>4

\* A number of full seconds takes that long.
LEMMA FullSeconds ==
  ASSUME NEW a \in Nat, NEW b \in Nat \ {0}, NEW q \in Nat, a \div b >= q
  PROVE  a >= q * b
<1>1. a \div b \in Nat /\ b * (a \div b) <= a
  BY DivBounds
<1>2. b * q <= b * (a \div b)
  BY <1>1, MulMono
<1>3. b * q = q * b /\ b * q \in Int /\ b * (a \div b) \in Int
  BY <1>1
<1> QED  BY <1>1, <1>2, <1>3

LEMMA NotLater ==
  ASSUME NEW a \in Nat
  PROVE  0 - a <= 0
OBVIOUS

LEMMA DivNegative ==
  ASSUME NEW a \in Int, NEW b \in Nat \ {0}, a \div b >= 1
  PROVE  a \in Nat
OBVIOUS

-----------------------------------------------------------------------------
\* A step's time.  While a subsong plays, a fade belongs to it; and where it has
\* been silent for quiet, the silence that gbs_step measures is no longer.  A
\* start of a silence that is left over from the subsong before counts from the
\* future until the first step has been made.
Times == ticks \in Nat /\ silence_start \in Nat /\ quiet \in Nat /\ hush \in BOOLEAN
Unlocked == locked_up = FALSE
Measured ==
  /\ silence_start # 0 => silence_start >= StepTicks
  /\ silence_timeout = 0 => silence_start = 0
  /\ pc = "playing" /\ silence_start # 0 => ticks - silence_start <= quiet
  /\ pc = "playing" /\ silence_start # 0 /\ ~hush => ticks = 0
Inv == Times /\ Unlocked /\ Measured /\ FadesOnlyLate

\* What a step of gbs_step amounts to.
LEMMA StepCases ==
  ASSUME CanLockUp = FALSE, Inv, GbsStep
  PROVE  LET now == ticks + StepTicks
         IN  /\ pc = "playing" /\ now \in Nat /\ now > 0
             /\ silence_start' = SilenceStart(now, silent') /\ silent' \in BOOLEAN
             /\ \/ /\ QuietOut(now, SilenceStart(now, silent')) \/ TimeOut(now)
                   /\ GbsInit(now, fading, FALSE)
                \/ /\ ticks' = now /\ fading' = (fading \/ Fade(now))
                   /\ locked_up' = FALSE /\ pc' = pc
<1>1. ticks \in Nat /\ locked_up = FALSE /\ StepTicks \in Nat \ {0}
  BY TimeAssumption DEF Inv, Times, Unlocked
<1> DEFINE now == ticks + StepTicks
<1>2. Elapsed(FALSE) = now /\ now \in Nat /\ now > 0
  BY <1>1 DEF Elapsed
<1>3. PICK stuck \in {FALSE}, silence \in BOOLEAN :
        LET n == Elapsed(stuck)
            since == SilenceStart(n, silence)
        IN  /\ silent' = silence
            /\ silence_start' = since
            /\ IF QuietOut(n, since) \/ TimeOut(n)
               THEN SongEnds /\ GbsInit(n, fading, stuck)
               ELSE /\ ticks' = n
                    /\ fading' = (fading \/ Fade(n))
                    /\ locked_up' = stuck
                    /\ UNCHANGED orderVars
  BY <1>1 DEF GbsStep
<1>4. pc = "playing"
  BY DEF GbsStep
<1> HIDE DEF now
<1> QED  BY <1>2, <1>3, <1>4 DEF orderVars, now

\* The times of the beginning.
LEMMA InitInv == MCInit => Inv
<1> SUFFICES ASSUME MCInit PROVE Inv
  OBVIOUS
<1>1. /\ ticks = 0 /\ silence_start = 0 /\ quiet = 0 /\ hush = FALSE
      /\ locked_up = FALSE /\ fading = FALSE
  BY DEF MCInit, Init
<1> QED  BY <1>1 DEF Inv, Times, Unlocked, Measured, FadesOnlyLate

\* What begins or ends no subsong changes none of the times; at the beginning
\* of one there is no silence to forget.
LEMMA IdleInv ==
  ASSUME Inv, UNCHANGED <<ticks, silence_start, fading, locked_up>>,
         pc' = pc \/ pc' = "exit",
         UNCHANGED <<quiet, hush>> \/ (ticks' = 0 /\ quiet' = 0 /\ hush' = FALSE)
  PROVE  Inv'
<1>1. Times' /\ Unlocked' /\ FadesOnlyLate'
  BY DEF Inv, Times, Unlocked, FadesOnlyLate, Seconds
<1>2. Measured'
  BY TimeAssumption DEF Inv, Times, Measured
<1> QED  BY <1>1, <1>2 DEF Inv

\* gbs_init, or what comes on the way to it.
LEMMA ChooseInv ==
  ASSUME Inv, Choose, Listen
  PROVE  Inv'
<1>1. CASE pc' = "playing"
  <2>1. ticks' = 0 /\ fading' = FALSE /\ locked_up' = FALSE /\ silence_start' = silence_start
    BY <1>1 DEF Choose, GbsInit
  <2>2. ~(ticks' > ticks)
    BY <2>1 DEF Inv, Times
  <2>3. quiet' = 0 /\ hush' = FALSE
    BY <1>1, <2>1, <2>2 DEF Listen
  <2>4. Times' /\ Unlocked' /\ FadesOnlyLate'
    BY <2>1, <2>3 DEF Inv, Times, Unlocked, FadesOnlyLate
  <2>5. Measured'
    BY <2>1, <2>3, TimeAssumption DEF Inv, Times, Measured
  <2> QED  BY <2>4, <2>5 DEF Inv
<1>2. CASE pc' # "playing"
  <2>1. UNCHANGED <<ticks, fading, locked_up, silence_start, quiet, hush>>
    BY <1>2 DEF Choose, GbsInit, Listen
  <2> QED  BY <1>2, <2>1 DEF Inv, Times, Unlocked, Measured, FadesOnlyLate
<1> QED  BY <1>1, <1>2

\* gbs_step.
LEMMA GbsStepInv ==
  ASSUME CanLockUp = FALSE, Inv, GbsStep, Listen
  PROVE  Inv'
<1> DEFINE now == ticks + StepTicks
<1>1. /\ pc = "playing" /\ now \in Nat /\ now > 0 /\ silent' \in BOOLEAN
      /\ silence_start' = SilenceStart(now, silent')
  BY StepCases
<1>2. ticks \in Nat /\ silence_start \in Nat /\ quiet \in Nat /\ hush \in BOOLEAN
      /\ StepTicks \in Nat \ {0} /\ Second \in Nat \ {0}
      /\ subsong_timeout \in Nat /\ fadeout \in Nat /\ gap \in Nat
  BY TimeAssumption DEF Inv, Times
<1>3. /\ silence_start' \in Nat
      /\ silence_start' # 0 => silence_start' >= StepTicks
      /\ silence_timeout = 0 => silence_start' = 0
  BY <1>1, <1>2 DEF SilenceStart, Inv, Measured
<1>4. CASE GbsInit(now, fading, FALSE) /\ pc' = "playing"
  <2>1. ticks' = 0 /\ fading' = FALSE /\ locked_up' = FALSE
    BY <1>4 DEF GbsInit
  <2>2. quiet' = 0 /\ hush' = FALSE
    <3>1. ~(ticks' > ticks)
      BY <1>2, <2>1
    <3> QED  BY <1>4, <2>1, <3>1 DEF Listen
  <2>3. Times' /\ Unlocked' /\ FadesOnlyLate'
    BY <1>3, <2>1, <2>2 DEF Times, Unlocked, FadesOnlyLate
  <2>4. Measured'
    <3>0. silence_start' \in Nat /\ ticks' = 0 /\ quiet' = 0
      BY <1>3, <2>1, <2>2
    <3>1. 0 - silence_start' <= 0
      BY <3>0, NotLater
    <3>2. ticks' - silence_start' <= quiet'
      BY <3>0, <3>1
    <3> QED  BY <1>3, <2>1, <3>2 DEF Measured
  <2> QED  BY <2>3, <2>4 DEF Inv
<1>5. CASE GbsInit(now, fading, FALSE) /\ pc' # "playing"
  <2>1. ticks' = now /\ locked_up' = FALSE
    BY <1>5 DEF GbsInit
  <2>2. UNCHANGED <<quiet, hush>>
    BY <1>5 DEF Listen
  <2> QED  BY <1>1, <1>2, <1>3, <1>5, <2>1, <2>2 DEF Inv, Times, Unlocked, Measured, FadesOnlyLate
<1>6. CASE /\ ticks' = now /\ fading' = (fading \/ Fade(now))
           /\ locked_up' = FALSE /\ pc' = pc
  <2>1. ticks' > ticks /\ ticks' \in Nat
    BY <1>2, <1>6
  <2>2. hush' = silent' /\ quiet' = IF hush /\ silent' THEN quiet + StepTicks ELSE 0
    BY <1>1, <1>6, <2>1 DEF Listen
  <2>3. Measured'
    <3>1. CASE silence_timeout = 0 \/ ~silent'
      BY <1>1, <1>2, <1>3, <3>1 DEF SilenceStart, Measured
    <3>2. CASE silence_timeout # 0 /\ silent' /\ silence_start = 0
      <4>1. silence_start' = now
        BY <1>1, <3>2 DEF SilenceStart
      <4> QED  BY <1>2, <1>3, <1>6, <2>2, <3>2, <4>1 DEF Measured
    <3>3. CASE silence_timeout # 0 /\ silent' /\ silence_start # 0
      <4>1. silence_start' = silence_start
        BY <1>1, <3>3 DEF SilenceStart
      <4>2. ticks - silence_start <= quiet /\ silence_start >= StepTicks /\ (~hush => ticks = 0)
        BY <1>1, <3>3 DEF Inv, Measured
      <4>3. now - silence_start <= quiet'
        BY <1>2, <2>2, <3>3, <4>2
      <4> QED  BY <1>3, <1>6, <2>2, <3>3, <4>1, <4>3 DEF Measured
    <3> QED  BY <1>1, <3>1, <3>2, <3>3
  <2>4. FadesOnlyLate'
    <3> SUFFICES ASSUME fading'
                 PROVE  subsong_timeout # 0 /\ Seconds(now) >= subsong_timeout - fadeout - gap
      BY <1>1, <1>6 DEF FadesOnlyLate, Seconds
    <3>1. Seconds(now) = now \div Second /\ Seconds(ticks) = ticks \div Second
          /\ now \div Second \in Nat /\ ticks \div Second \in Nat
      BY <1>1, <1>2, DivBounds DEF Seconds
    <3>2. CASE fading
      <4>1. subsong_timeout # 0 /\ Seconds(ticks) >= subsong_timeout - fadeout - gap
        BY <1>1, <3>2 DEF Inv, FadesOnlyLate
      <4>2. ticks \div Second <= now \div Second
        BY <1>1, <1>2, DivMono
      <4> QED  BY <1>2, <3>1, <4>1, <4>2
    <3>3. CASE Fade(now)
      <4>1. subsong_timeout # 0
        BY <3>3 DEF Fade, Timed
      <4>2. Seconds(now) >= subsong_timeout - fadeout - gap
            \/ Seconds(now) >= subsong_timeout - gap
        BY <3>3 DEF Fade
      <4> QED  BY <1>2, <3>1, <4>1, <4>2
    <3> QED  BY <1>6, <3>2, <3>3
  <2>5. Times' /\ Unlocked'
    BY <1>2, <1>3, <1>6, <2>1, <2>2, <1>1 DEF Times, Unlocked
  <2> QED  BY <2>3, <2>4, <2>5 DEF Inv
<1> QED  BY <1>4, <1>5, <1>6, StepCases

LEMMA NextInv == CanLockUp = FALSE /\ Inv /\ [Next /\ Listen]_allVars => Inv'
<1> SUFFICES ASSUME CanLockUp = FALSE, Inv, [Next /\ Listen]_allVars PROVE Inv'
  OBVIOUS
<1>1. CASE GbsStep /\ Listen
  BY <1>1, GbsStepInv
<1>2. CASE Choose /\ Listen
  BY <1>2, ChooseInv
<1>3. CASE (Command \/ TogglePause) /\ Listen
  <2>1. /\ UNCHANGED <<ticks, silence_start, fading, locked_up>>
        /\ pc' = pc \/ pc' = "exit"
    BY <1>3 DEF Command, TogglePause, KeyLoop, KeyQuit, orderVars
  <2>2. ~(ticks' > ticks)
    BY <2>1 DEF Inv, Times
  <2>3. UNCHANGED <<quiet, hush>> \/ (ticks' = 0 /\ quiet' = 0 /\ hush' = FALSE)
    <3>1. CASE pc' = "playing" /\ ticks' = 0
      BY <1>3, <2>2, <3>1 DEF Listen
    <3>2. CASE ~(pc' = "playing" /\ ticks' = 0)
      BY <1>3, <2>2, <3>2 DEF Listen
    <3> QED  BY <3>1, <3>2
  <2> QED  BY <2>1, <2>3, IdleInv
<1>4. CASE UNCHANGED allVars
  <2>1. UNCHANGED <<ticks, silence_start, fading, locked_up, quiet, hush, pc>>
    BY <1>4 DEF allVars, vars, orderVars
  <2> QED  BY <2>1 DEF Inv, Times, Unlocked, Measured, FadesOnlyLate
<1> QED  BY <1>1, <1>2, <1>3, <1>4 DEF Next

LEMMA AlwaysInv ==
  ASSUME CanLockUp = FALSE
  PROVE  MCSpec => []Inv
<1>1. Inv /\ [Next /\ Listen]_allVars => Inv'
  BY NextInv
<1> QED  BY <1>1, InitInv, PTL DEF MCSpec

\* No fade is left over from the subsong before, however that one was left:
\* while a subsong plays, a fade has begun in its last seconds.
THEOREM NoFadeLeftOver ==
  ASSUME CanLockUp = FALSE
  PROVE  MCSpec => []FadesOnlyLate
<1>1. Inv => FadesOnlyLate
  BY DEF Inv
<1> QED  BY <1>1, AlwaysInv, PTL

\* The player leaves a subsong by itself after the subsong timeout, or after the
\* silence timeout spent in this subsong without a break.  gbs_init keeps the
\* start of a silence of the subsong before, but it lies ahead of the new time.
THEOREM NoEarlySkip ==
  ASSUME CanLockUp = FALSE
  PROVE  MCSpec => NeverSkipsEarly
<1> DEFINE Skips == GbsStep /\ (ticks' = 0 \/ pc' # "playing")
           Due == \/ /\ subsong_timeout # 0 /\ loop_mode # "SINGLE"
                     /\ ticks + StepTicks >= subsong_timeout * Second
                  \/ /\ silence_timeout # 0 /\ silent'
                     /\ quiet + StepTicks >= silence_timeout * Second
<1>1. Inv /\ Skips => Due
  <2> SUFFICES ASSUME Inv, Skips PROVE Due
    OBVIOUS
  <2> DEFINE now == ticks + StepTicks
             since == SilenceStart(now, silent')
  <2>1. /\ pc = "playing" /\ now \in Nat /\ now > 0 /\ silent' \in BOOLEAN
        /\ QuietOut(now, since) \/ TimeOut(now)
    <3>1. /\ pc = "playing" /\ now \in Nat /\ now > 0 /\ silent' \in BOOLEAN
          /\ \/ QuietOut(now, since) \/ TimeOut(now)
             \/ ticks' = now /\ pc' = pc
      BY StepCases
    <3>2. ~(ticks' = now /\ pc' = pc)
      <4> HIDE DEF now
      <4> QED  BY <3>1
    <3> QED  BY <3>1, <3>2
  <2>2. /\ ticks \in Nat /\ silence_start \in Nat /\ quiet \in Nat
        /\ StepTicks \in Nat \ {0} /\ Second \in Nat \ {0}
        /\ subsong_timeout \in Nat /\ silence_timeout \in Nat
    BY TimeAssumption DEF Inv, Times
  <2>3. CASE TimeOut(now)
    <3>1. subsong_timeout # 0 /\ loop_mode # "SINGLE" /\ now \div Second >= subsong_timeout
      BY <2>1, <2>3 DEF TimeOut, Timed, Seconds
    <3> QED  BY <2>1, <2>2, <3>1, FullSeconds
  <2>4. CASE QuietOut(now, since)
    <3>1. since # 0 /\ (now - since) \div Second >= silence_timeout
      BY <2>4 DEF QuietOut
    <3>2. silence_timeout # 0 /\ silent' /\ since \in {silence_start, now}
      <4>1. silence_timeout = 0 => silence_start = 0
        BY DEF Inv, Measured
      <4> HIDE DEF now
      <4> QED  BY <2>1, <3>1, <4>1 DEF SilenceStart
    <3>3. now - since \in Int /\ now - since <= quiet + StepTicks
      <4>1. CASE since = now
        <5>1. now - now = 0 /\ 0 <= quiet + StepTicks
          BY <2>1, <2>2
        <5> QED  BY <4>1, <5>1
      <4>2. CASE since = silence_start /\ since # now
        <5>1. ticks - silence_start <= quiet
          BY <2>1, <3>1, <4>2 DEF Inv, Measured
        <5>2. now - silence_start \in Int /\ now - silence_start <= quiet + StepTicks
          BY <2>2, <5>1
        <5> QED  BY <4>2, <5>2
      <4> QED  BY <3>2, <4>1, <4>2
    <3>4. now - since \in Nat
      <4>1. silence_timeout >= 1
        BY <2>2, <3>2
      <4> HIDE DEF now, since
      <4>2. (now - since) \div Second \in Int
        BY <2>2, <3>3
      <4>3. (now - since) \div Second >= 1
        BY <2>2, <3>1, <4>1, <4>2
      <4> QED  BY <2>2, <3>3, <4>3, DivNegative
    <3>5. now - since >= silence_timeout * Second
      <4> HIDE DEF now, since
      <4> QED  BY <2>2, <3>1, <3>4, FullSeconds
    <3>6. silence_timeout * Second \in Nat
      BY <2>2
    <3>7. quiet + StepTicks >= silence_timeout * Second
      <4> DEFINE needed == silence_timeout * Second
                 counted == quiet + StepTicks
                 gone == now - since
      <4>1. needed \in Int /\ counted \in Int /\ gone \in Int
            /\ gone <= counted /\ gone >= needed
        BY <2>2, <3>3, <3>5, <3>6
      <4> HIDE DEF needed, counted, gone
      <4>2. counted >= needed
        BY <4>1
      <4> QED  BY <4>2 DEF counted, needed
    <3> QED  BY <3>2, <3>7
  <2> QED  BY <2>1, <2>3, <2>4
<1> QED  BY <1>1, AlwaysInv, PTL DEF NeverSkipsEarly, MCSpec

-----------------------------------------------------------------------------
(***************************************************************************)
(* The terminal: the stack of main, setup_terminal and the handlers.       *)
(***************************************************************************)
Inside == {"setup", "save", "raw", "nonblock", "terminit", "restore"}
Frame == [pc : Inside \cup {"main", "loop"}, signal : {"none", "TERM", "CONT"}]

LEMMA PushIsSeq ==
  ASSUME NEW e \in Frame, NEW s \in Seq(Frame)
  PROVE  /\ <<e>> \o s \in Seq(Frame) /\ Len(<<e>> \o s) = Len(s) + 1
         /\ (<<e>> \o s)[1] = e
         /\ \A i \in 1 .. Len(s) : (<<e>> \o s)[i + 1] = s[i]
OBVIOUS

LEMMA PopIsSeq ==
  ASSUME NEW s \in Seq(Frame), Len(s) >= 2
  PROVE  /\ Tail(s) \in Seq(Frame) /\ Len(Tail(s)) = Len(s) - 1
         /\ \A i \in 1 .. Len(s) - 1 : Tail(s)[i] = s[i + 1]
OBVIOUS

LEMMA GoToIsSeq ==
  ASSUME NEW s \in Seq(Frame), Len(s) >= 1, NEW p \in Inside \cup {"main", "loop"},
         NEW t, t = [s EXCEPT ![1].pc = p]
  PROVE  /\ t \in Seq(Frame) /\ Len(t) = Len(s)
         /\ t[1].pc = p /\ t[1].signal = s[1].signal
         /\ \A i \in 2 .. Len(s) : t[i] = s[i]
<1> DEFINE e == [s[1] EXCEPT !.pc = p]
<1>1. s[1] \in Frame
  OBVIOUS
<1>2. e \in Frame /\ e.pc = p /\ e.signal = s[1].signal
  BY <1>1 DEF Frame
<1>3. t = [s EXCEPT ![1] = e]
  OBVIOUS
<1> HIDE DEF e
<1> QED  BY <1>2, <1>3

\* main is at the bottom; a handler or setup_terminal on top of it, and who waits
\* for SIGCONT is one that handles it.
Stacked ==
  /\ calls \in Seq(Frame) /\ Len(calls) >= 1
  /\ \A i \in 1 .. Len(calls) - 1 : calls[i].pc \in Inside
  /\ calls[Len(calls)].pc \in {"main", "loop", "restore"}
  /\ calls[Len(calls)].signal = "none"

HasCont(s) == \E i \in 1 .. Len(s) : s[i].signal = "CONT"
Ahead(s, pcs) == \E i \in 1 .. Len(s) : s[i].pc \in pcs

\* What is not set yet will be, by a call that is active or a signal that waits.
WillBeSet ==
  /\ pending => HasCont(calls)
  /\ tty /\ life = "running" =>
       \/ raw \/ pending \/ Ahead(calls, {"main", "setup", "save", "raw"})
  /\ tty => nonblock \/ Ahead(calls, {"main", "setup", "save", "raw", "nonblock"})

\* Without a terminal setup_terminal ends early and nothing is set.
LeftAlone ==
  ~tty => /\ ~raw /\ ~nonblock /\ ~terminit
          /\ ~Ahead(calls, {"raw", "nonblock", "terminit"})

TerminalInv == Stacked /\ WillBeSet /\ LeftAlone

LEMMA OneOrMore ==
  ASSUME NEW n \in Nat, n >= 1
  PROVE  n = 1 \/ n >= 2
OBVIOUS

LEMMA Below ==
  ASSUME Stacked, calls[1].pc \in Inside \ {"restore"}
  PROVE  Len(calls) >= 2
<1>1. calls[1].pc \notin {"main", "loop", "restore"}
  BY DEF Inside
<1>2. Len(calls) # 1
  BY <1>1 DEF Stacked
<1>3. Len(calls) \in Nat /\ Len(calls) >= 1
  BY DEF Stacked
<1> QED  BY <1>2, <1>3, OneOrMore

\* The innermost call goes on.
LEMMA Move ==
  ASSUME Stacked, NEW p \in Inside, GoTo(p), calls[1].pc \in Inside \ {"restore"}
  PROVE  /\ Stacked'
         /\ \A pcs : Ahead(calls, pcs) /\ (calls[1].pc \in pcs => p \in pcs) =>
                       Ahead(calls', pcs)
         /\ HasCont(calls) => HasCont(calls')
         /\ \A pcs : p \in pcs => Ahead(calls', pcs)
         /\ \A pcs : Ahead(calls', pcs) => Ahead(calls, pcs) \/ p \in pcs
<1>1. Len(calls) >= 2 /\ calls \in Seq(Frame)
  BY Below DEF Stacked
<1>2. /\ calls' \in Seq(Frame) /\ Len(calls') = Len(calls)
      /\ calls'[1].pc = p /\ calls'[1].signal = calls[1].signal
      /\ \A i \in 2 .. Len(calls) : calls'[i] = calls[i]
  BY <1>1, GoToIsSeq, SMTT(30) DEF GoTo
<1>3. Stacked'
  BY <1>1, <1>2 DEF Stacked
<1>4. ASSUME NEW pcs, Ahead(calls, pcs), calls[1].pc \in pcs => p \in pcs
      PROVE  Ahead(calls', pcs)
  BY <1>1, <1>2, <1>4 DEF Ahead
<1>5. HasCont(calls) => HasCont(calls')
  BY <1>1, <1>2 DEF HasCont
<1>6. \A pcs : p \in pcs => Ahead(calls', pcs)
  BY <1>1, <1>2 DEF Ahead
<1>7. \A pcs : Ahead(calls', pcs) => Ahead(calls, pcs) \/ p \in pcs
  BY <1>1, <1>2 DEF Ahead
<1> QED  BY <1>3, <1>4, <1>5, <1>6, <1>7

\* The innermost call returns.
LEMMA Pop ==
  ASSUME Stacked, calls' = Tail(calls), calls[1].pc \in Inside \ {"restore"}
  PROVE  /\ Stacked'
         /\ \A pcs : Ahead(calls, pcs) /\ calls[1].pc \notin pcs => Ahead(calls', pcs)
         /\ HasCont(calls) /\ calls[1].signal # "CONT" => HasCont(calls')
         /\ \A pcs : Ahead(calls', pcs) => Ahead(calls, pcs)
<1>1. Len(calls) >= 2 /\ calls \in Seq(Frame)
  BY Below DEF Stacked
<1>2. /\ calls' \in Seq(Frame) /\ Len(calls') = Len(calls) - 1
      /\ \A i \in 1 .. Len(calls) - 1 : calls'[i] = calls[i + 1]
  BY <1>1, PopIsSeq
<1>3. Stacked'
  BY <1>1, <1>2 DEF Stacked
<1>4. \A i \in 2 .. Len(calls) :
        i - 1 \in 1 .. Len(calls') /\ calls'[i - 1] = calls[i]
  BY <1>1, <1>2
<1>5. ASSUME NEW pcs, Ahead(calls, pcs), calls[1].pc \notin pcs
      PROVE  Ahead(calls', pcs)
  <2>1. PICK i \in 1 .. Len(calls) : calls[i].pc \in pcs
    BY <1>5 DEF Ahead
  <2>2. i \in 2 .. Len(calls)
    BY <1>1, <1>5, <2>1
  <2> QED  BY <1>4, <2>1, <2>2 DEF Ahead
<1>6. ASSUME HasCont(calls), calls[1].signal # "CONT" PROVE HasCont(calls')
  <2>1. PICK i \in 1 .. Len(calls) : calls[i].signal = "CONT"
    BY <1>6 DEF HasCont
  <2>2. i \in 2 .. Len(calls)
    BY <1>1, <1>6, <2>1
  <2> QED  BY <1>4, <2>1, <2>2 DEF HasCont
<1>7. \A pcs : Ahead(calls', pcs) => Ahead(calls, pcs)
  <2>1. \A i \in 1 .. Len(calls) - 1 : i + 1 \in 1 .. Len(calls)
    BY <1>1
  <2> QED  BY <1>1, <1>2, <2>1 DEF Ahead
<1> QED  BY <1>3, <1>5, <1>6, <1>7

\* A handler is called.
LEMMA Push ==
  ASSUME Stacked, NEW p \in Inside, NEW signal \in {"TERM", "CONT"}, Enter(p, signal)
  PROVE  /\ Stacked'
         /\ \A pcs : Ahead(calls, pcs) \/ p \in pcs => Ahead(calls', pcs)
         /\ HasCont(calls) \/ signal = "CONT" => HasCont(calls')
         /\ \A pcs : Ahead(calls', pcs) => Ahead(calls, pcs) \/ p \in pcs
<1> DEFINE e == [pc |-> p, signal |-> signal]
<1>1. Len(calls) >= 1 /\ calls \in Seq(Frame) /\ e \in Frame
  BY DEF Stacked, Frame
<1>2. e.pc = p /\ e.signal = signal /\ calls' = <<e>> \o calls
  BY DEF Enter
<1> HIDE DEF e
<1>3. /\ calls' \in Seq(Frame) /\ Len(calls') = Len(calls) + 1 /\ calls'[1] = e
      /\ \A i \in 1 .. Len(calls) : calls'[i + 1] = calls[i]
  BY <1>1, <1>2, PushIsSeq
<1>4. Stacked'
  <2>1. calls'[Len(calls')] = calls[Len(calls)]
    BY <1>1, <1>3
  <2>2. ASSUME NEW i \in 1 .. Len(calls') - 1 PROVE calls'[i].pc \in Inside
    <3>1. CASE i = 1
      BY <1>2, <1>3, <3>1
    <3>2. CASE i # 1
      <4>1. i - 1 \in 1 .. Len(calls) - 1 /\ calls'[i] = calls[i - 1]
        BY <1>1, <1>3, <3>2
      <4> QED  BY <4>1 DEF Stacked
    <3> QED  BY <3>1, <3>2
  <2> QED  BY <1>1, <1>3, <2>1, <2>2 DEF Stacked
<1>5. \A i \in 1 .. Len(calls) : i + 1 \in 1 .. Len(calls') /\ 1 \in 1 .. Len(calls')
  BY <1>1, <1>3
<1>6. 1 \in 1 .. Len(calls')
  BY <1>1, <1>3
<1>7. \A pcs : Ahead(calls, pcs) \/ p \in pcs => Ahead(calls', pcs)
  BY <1>2, <1>3, <1>5, <1>6 DEF Ahead
<1>8. HasCont(calls) \/ signal = "CONT" => HasCont(calls')
  BY <1>2, <1>3, <1>5, <1>6 DEF HasCont
<1>9. \A i \in 1 .. Len(calls') :
        i = 1 \/ (i - 1 \in 1 .. Len(calls) /\ calls'[i] = calls[i - 1])
  BY <1>1, <1>3
<1>10. \A pcs : Ahead(calls', pcs) => Ahead(calls, pcs) \/ p \in pcs
  BY <1>2, <1>3, <1>9 DEF Ahead
<1> QED  BY <1>4, <1>7, <1>8, <1>10

-----------------------------------------------------------------------------
\* A call returns: its caller goes on, or a signal that waits is handled.
LEMMA ReturnKeeps ==
  ASSUME TerminalInv, Return, tty' = tty, UNCHANGED <<raw, nonblock, life>>,
         calls[1].pc = "terminit" \/ (calls[1].pc = "save" /\ ~tty),
         ~tty => ~terminit'
  PROVE  TerminalInv'
<1>1. calls[1].pc \in Inside \ {"restore"}
  BY DEF Inside
<1>2. CASE calls[1].signal = "CONT" /\ pending
  <2>1. GoTo("setup") /\ pending' = FALSE
    BY <1>2 DEF Return, GoTo
  <2> QED  BY <1>1, <2>1, Move DEF TerminalInv, WillBeSet, LeftAlone, Inside
<1>3. CASE ~(calls[1].signal = "CONT" /\ pending)
  <2>1. calls' = Tail(calls) /\ (pending' <=> pending)
    BY <1>3, Zenon DEF Return
  <2> QED  BY <1>1, <1>3, <2>1, Pop DEF TerminalInv, WillBeSet, LeftAlone
<1> QED  BY <1>2, <1>3

\* setup_terminal, up to its end if there is no terminal.
LEMMA SetupKeeps ==
  ASSUME TerminalInv, tty' = tty,
         SetupHandlers \/ SaveMode \/ SetRaw \/ SetNonblock \/ SetTerminit
  PROVE  TerminalInv'
<1> USE DEF TerminalInv
<1>1. CASE SetupHandlers
  <2>1. GoTo("save") /\ calls[1].pc = "setup"
        /\ UNCHANGED <<raw, nonblock, terminit, life, pending>>
    BY <1>1 DEF SetupHandlers, At, modeVars
  <2> QED  BY <2>1, Move DEF WillBeSet, LeftAlone, Inside
<1>2. CASE SaveMode /\ tty
  <2>1. GoTo("raw") /\ calls[1].pc = "save" /\ UNCHANGED <<raw, nonblock, life, pending>>
    BY <1>2 DEF SaveMode, At
  <2> QED  BY <1>2, <2>1, Move DEF WillBeSet, LeftAlone, Inside
<1>3. CASE SaveMode /\ ~tty
  <2>1. Return /\ calls[1].pc = "save" /\ UNCHANGED <<raw, nonblock, terminit, life>>
    BY <1>3 DEF SaveMode, At
  <2> QED  BY <1>3, <2>1, ReturnKeeps DEF LeftAlone
<1>4. tty \/ calls[1].pc \notin {"raw", "nonblock", "terminit"}
  BY DEF LeftAlone, Stacked, Ahead
<1>5. CASE SetRaw
  <2>1. GoTo("nonblock") /\ calls[1].pc = "raw" /\ raw' = TRUE
        /\ UNCHANGED <<nonblock, life, pending>>
    BY <1>5 DEF SetRaw, At
  <2> QED  BY <1>4, <2>1, Move DEF WillBeSet, LeftAlone, Inside
<1>6. CASE SetNonblock
  <2>1. GoTo("terminit") /\ calls[1].pc = "nonblock" /\ nonblock' = TRUE
        /\ UNCHANGED <<raw, life, pending>>
    BY <1>6 DEF SetNonblock, At
  <2> QED  BY <1>4, <2>1, Move DEF WillBeSet, LeftAlone, Inside
<1>7. CASE SetTerminit
  <2>1. Return /\ calls[1].pc = "terminit" /\ UNCHANGED <<raw, nonblock, life>>
    BY <1>7 DEF SetTerminit, At
  <2> QED  BY <1>4, <2>1, ReturnKeeps
<1> QED  BY <1>1, <1>2, <1>3, <1>5, <1>6, <1>7

\* main goes on, a player exits, and signals come between any two steps.
LEMMA OthersKeep ==
  ASSUME TerminalInv, tty' = tty,
         Restore \/ Main \/ Quit \/ SkipFails \/ Term \/ Stop \/ ShellSets \/ Cont
  PROVE  TerminalInv'
<1> USE DEF TerminalInv
<1>1. CASE Restore \/ SkipFails
  BY <1>1 DEF Restore, SkipFails, Stacked, WillBeSet, LeftAlone, modeVars
<1>2. CASE Stop \/ ShellSets
  BY <1>2 DEF Stop, ShellSets, Stacked, WillBeSet, LeftAlone, modeVars
<1>3. CASE Main
  <2> DEFINE up == [pc |-> "setup", signal |-> "none"]
             down == [pc |-> "loop", signal |-> "none"]
  <2>1. /\ up \in Frame /\ up.pc = "setup" /\ up.signal = "none"
        /\ down \in Frame /\ down.pc = "loop" /\ down.signal = "none"
    BY DEF Frame, Inside
  <2>2. calls' = <<up, down>> /\ UNCHANGED <<raw, nonblock, terminit, life, pending>>
    BY <1>3 DEF Main, modeVars
  <2> HIDE DEF up, down
  <2>3. /\ calls' \in Seq(Frame) /\ Len(calls') = 2
        /\ calls'[1] = up /\ calls'[2] = down
    BY <2>1, <2>2
  <2>4. Stacked'
    BY <2>1, <2>3 DEF Stacked, Inside
  <2>5. \A pcs : "setup" \in pcs => Ahead(calls', pcs)
    BY <2>1, <2>3 DEF Ahead
  <2>6. ~HasCont(calls)
    <3>1. Len(calls) = 1 /\ calls[1].signal = "none"
      <4>1. calls[1].pc = "main"
        BY <1>3 DEF Main, At
      <4>2. ~(Len(calls) >= 2)
        BY <4>1 DEF Stacked, Inside
      <4>3. Len(calls) \in Nat /\ Len(calls) >= 1
        BY DEF Stacked
      <4>4. Len(calls) = 1
        BY <4>2, <4>3, OneOrMore
      <4> QED  BY <4>4 DEF Stacked
    <3> QED  BY <3>1 DEF HasCont
  <2>7. ~Ahead(calls', {"raw", "nonblock", "terminit"})
    BY <2>1, <2>3 DEF Ahead
  <2> QED  BY <2>2, <2>4, <2>5, <2>6, <2>7 DEF WillBeSet, LeftAlone
<1>4. CASE Quit
  <2>1. calls[1].pc = "loop" /\ GoTo("restore")
        /\ UNCHANGED <<raw, nonblock, terminit, life, pending>>
    BY <1>4 DEF Quit, At, modeVars
  <2>2. /\ calls \in Seq(Frame) /\ Len(calls) = 1
    <3>1. ~(Len(calls) >= 2)
      BY <2>1 DEF Stacked, Inside
    <3>2. Len(calls) \in Nat /\ Len(calls) >= 1
      BY DEF Stacked
    <3>3. Len(calls) = 1
      BY <3>1, <3>2, OneOrMore
    <3> QED  BY <3>3 DEF Stacked
  <2>3. /\ calls' \in Seq(Frame) /\ Len(calls') = Len(calls)
        /\ calls'[1].pc = "restore" /\ calls'[1].signal = calls[1].signal
    <3>1. "restore" \in Inside \cup {"main", "loop"} /\ Len(calls) >= 1
      BY <2>2 DEF Inside
    <3>2. PICK p \in Inside \cup {"main", "loop"} : p = "restore"
      BY <3>1
    <3>3. calls' = [calls EXCEPT ![1].pc = p]
      BY <2>1, <3>2 DEF GoTo
    <3>4. /\ calls' \in Seq(Frame) /\ Len(calls') = Len(calls)
          /\ calls'[1].pc = p /\ calls'[1].signal = calls[1].signal
      BY <2>2, <3>1, <3>3, GoToIsSeq, SMTT(30)
    <3> QED  BY <3>2, <3>4
  <2>4. Stacked'
    BY <2>2, <2>3 DEF Stacked
  <2>5. /\ ~Ahead(calls, {"main", "setup", "save", "raw"}) 
        /\ ~Ahead(calls, {"main", "setup", "save", "raw", "nonblock"})
        /\ ~HasCont(calls)
    BY <2>1, <2>2 DEF Ahead, HasCont, Stacked
  <2>6. ~Ahead(calls', {"raw", "nonblock", "terminit"})
    BY <2>2, <2>3 DEF Ahead
  <2> QED  BY <2>1, <2>4, <2>5, <2>6 DEF WillBeSet, LeftAlone
<1>5. CASE Term
  <2>1. Enter("restore", "TERM") /\ UNCHANGED <<raw, nonblock, terminit, life, pending>>
    BY <1>5 DEF Term, modeVars
  <2> QED  BY <2>1, Push DEF WillBeSet, LeftAlone, Inside
<1>6. CASE Cont
  <2>1. life' = "running" /\ UNCHANGED <<raw, nonblock, terminit>>
    BY <1>6 DEF Cont, modeVars
  <2>2. CASE Handled("CONT") /\ pending' = TRUE /\ UNCHANGED calls
    BY <2>1, <2>2 DEF Stacked, WillBeSet, LeftAlone, Handled, HasCont
  <2>3. CASE Enter("setup", "CONT") /\ UNCHANGED pending
    BY <2>1, <2>3, Push DEF WillBeSet, LeftAlone, Inside
  <2> QED  BY <1>6, <2>2, <2>3 DEF Cont
<1> QED  BY <1>1, <1>2, <1>3, <1>4, <1>5, <1>6

LEMMA TerminalStarts == TerminalInit => TerminalInv
<1> SUFFICES ASSUME TerminalInit PROVE TerminalInv
  OBVIOUS
<1> DEFINE e == [pc |-> "main", signal |-> "none"]
<1>1. e \in Frame /\ e.pc = "main" /\ e.signal = "none" /\ calls = <<e>>
  BY DEF TerminalInit, Frame
<1> HIDE DEF e
<1>2. calls \in Seq(Frame) /\ Len(calls) = 1 /\ calls[1] = e
  BY <1>1
<1>3. Stacked /\ \A pcs : Ahead(calls, pcs) <=> "main" \in pcs
  BY <1>1, <1>2 DEF Stacked, Ahead
<1> QED  BY <1>3 DEF TerminalInit, TerminalInv, WillBeSet, LeftAlone

\* setup_terminal and the handlers: whatever signals come, however often and at
\* whichever step of one another, the main loop only runs with the terminal in raw
\* mode and without waiting for keys, also after the shell has had the terminal;
\* and a standard input that is no terminal, for which tcgetattr fails, is never
\* touched, so that the main loop then waits for its keys.
THEOREM KeysAlwaysArrive == TerminalSpec => []KeysArrive
<1>1. TerminalInv /\ [TerminalNext]_terminalVars => TerminalInv'
  <2>1. TerminalInv /\ UNCHANGED terminalVars => TerminalInv'
    BY DEF terminalVars, modeVars, TerminalInv, Stacked, WillBeSet, LeftAlone
  <2> QED  BY <2>1, SetupKeeps, OthersKeep DEF TerminalNext, TerminalStep
<1>2. TerminalInv => KeysArrive
  <2> SUFFICES ASSUME TerminalInv, life = "running", calls[1].pc = "loop"
               PROVE  IF tty THEN raw /\ nonblock ELSE ~raw /\ ~nonblock /\ ~terminit
    BY DEF KeysArrive, At
  <2>1. ~(Len(calls) >= 2)
    BY DEF TerminalInv, Stacked, Inside
  <2>2. Len(calls) \in Nat /\ Len(calls) >= 1
    BY DEF TerminalInv, Stacked
  <2>3. Len(calls) = 1
    BY <2>1, <2>2, OneOrMore
  <2>4. calls[1].signal = "none"
    BY <2>3 DEF TerminalInv, Stacked
  <2> QED  BY <2>3, <2>4 DEF TerminalInv, WillBeSet, LeftAlone, Ahead, HasCont
<1> QED  BY <1>1, <1>2, TerminalStarts, PTL DEF TerminalSpec

-----------------------------------------------------------------------------
(***************************************************************************)
(* The configuration: what the parser finds in a text.                     *)
(***************************************************************************)
\* The first of some places up to n, or the one behind
FirstOf(m, T, n) ==
  /\ m \in 1 .. n + 1 /\ (m <= n => m \in T) /\ (T = {} => m = n + 1)
  /\ \A x \in T : m <= x
  /\ \A x \in T : (\A y \in T : x <= y) => m = x

LEMMA MinIs ==
  ASSUME NEW n \in Nat, NEW T \in SUBSET (1 .. n)
  PROVE  FirstOf(Min(T \cup {n + 1}), T, n)
<1> DEFINE S == T \cup {n + 1}
           m == Min(S)
<1>1. S \in SUBSET Nat /\ S # {}
  OBVIOUS
<1>2. PICK x \in S : \A y \in S : x <= y
  BY <1>1, Smallest
<1>3. m \in S /\ \A y \in S : m <= y
  <2> HIDE DEF S
  <2> QED  BY <1>2 DEF Min, S
<1> HIDE DEF m
<1>4. m \in 1 .. n + 1 /\ (m <= n => m \in T) /\ (T = {} => m = n + 1)
  BY <1>3
<1>5. ASSUME NEW i \in T, \A y \in T : i <= y PROVE m = i
  <2>1. i \in 1 .. n /\ m <= i
    BY <1>3
  <2>2. m \in T
    BY <1>4, <2>1
  <2> QED  BY <1>4, <1>5, <2>1, <2>2
<1> QED  BY <1>3, <1>4, <1>5 DEF FirstOf, m

\* The rest of a text
Rest(t, i) == SubSeq(t, i, Len(t))
LEMMA RestIs ==
  ASSUME NEW t \in Seq(Token), NEW i \in 1 .. Len(t) + 1
  PROVE  /\ Rest(t, i) \in Seq(Token) /\ Len(Rest(t, i)) = Len(t) + 1 - i
         /\ \A j \in 1 .. Len(Rest(t, i)) : Rest(t, i)[j] = t[i + j - 1]
         /\ Rest(t, i) = <<>> <=> i = Len(t) + 1
         /\ i <= Len(t) => Head(Rest(t, i)) = t[i] /\ Tail(Rest(t, i)) = Rest(t, i + 1)
<1>1. /\ Rest(t, i) \in Seq(Token) /\ Len(Rest(t, i)) = Len(t) + 1 - i
      /\ \A j \in 1 .. Len(Rest(t, i)) : Rest(t, i)[j] = t[i + j - 1]
  BY DEF Rest
<1>2. Rest(t, i) = <<>> <=> i = Len(t) + 1
  BY <1>1
<1>3. ASSUME i <= Len(t)
      PROVE  Head(Rest(t, i)) = t[i] /\ Tail(Rest(t, i)) = Rest(t, i + 1)
  BY <1>3 DEF Rest
<1> QED  BY <1>1, <1>2, <1>3

LEMMA FindIs ==
  ASSUME NEW t \in Seq(Token), NEW set, NEW i \in Nat, 1 <= i
  PROVE  /\ Find(t, set, i) \in 1 .. Len(t) + 1
         /\ Find(t, set, i) <= Len(t) => i <= Find(t, set, i) /\ t[Find(t, set, i)] \in set
         /\ i <= Len(t) + 1 => i <= Find(t, set, i)
         /\ i > Len(t) => Find(t, set, i) = Len(t) + 1
         /\ i <= Len(t) /\ t[i] \in set => Find(t, set, i) = i
         /\ i <= Len(t) /\ t[i] \notin set => Find(t, set, i) = Find(t, set, i + 1)
<1> DEFINE n == Len(t)
           T == {j \in i .. n : t[j] \in set}
           m == Find(t, set, i)
<1>1. n \in Nat /\ T \in SUBSET (1 .. n) /\ m = Min(T \cup {n + 1})
  BY DEF Find
<1>2. /\ m \in 1 .. n + 1 /\ (m <= n => m \in T) /\ (T = {} => m = n + 1)
      /\ \A x \in T : (\A y \in T : x <= y) => m = x
  <2>1. FirstOf(Min(T \cup {n + 1}), T, n)
    BY <1>1, MinIs
  <2> HIDE DEF T, m, n
  <2> QED  BY <1>1, <2>1 DEF FirstOf
<1>3. ASSUME i <= n, t[i] \notin set PROVE T = {j \in i + 1 .. n : t[j] \in set}
  BY <1>1, <1>3
<1>4. ASSUME i <= n, t[i] \notin set PROVE Find(t, set, i) = Find(t, set, i + 1)
  BY <1>3, <1>4 DEF Find
<1>5. ASSUME i <= n, t[i] \in set PROVE m = i
  <2>1. i \in T /\ \A y \in T : i <= y
    BY <1>5
  <2> HIDE DEF T, m
  <2> QED  BY <1>2, <2>1
<1> HIDE DEF m
<1> QED  BY <1>1, <1>2, <1>4, <1>5 DEF m

\* From and Before, of the rest of a text
LEMMA PartsIs ==
  ASSUME NEW t \in Seq(Token), NEW i \in 1 .. Len(t) + 1, NEW x \in 1 .. Len(t) + 2 - i
  PROVE  /\ SubSeq(Rest(t, i), x, Len(Rest(t, i))) = Rest(t, i + x - 1)
         /\ SubSeq(Rest(t, i), 1, x - 1) = SubSeq(t, i, i + x - 2)
<1> DEFINE s == Rest(t, i)
           n == Len(s)
           u == SubSeq(s, x, n)
           w == Rest(t, i + x - 1)
           p == SubSeq(s, 1, x - 1)
           q == SubSeq(t, i, i + x - 2)
<1>1. /\ s \in Seq(Token) /\ n = Len(t) + 1 - i /\ \A j \in 1 .. n : s[j] = t[i + j - 1]
  BY RestIs
<1>2. /\ w \in Seq(Token) /\ Len(w) = n + 1 - x /\ \A j \in 1 .. Len(w) : w[j] = t[i + x - 1 + j - 1]
  BY <1>1, RestIs
<1> HIDE DEF s, w, n
<1>3. u \in Seq(Token) /\ Len(u) = n + 1 - x /\ \A j \in 1 .. Len(u) : u[j] = s[x + j - 1]
  BY <1>1 DEF n
<1>4. p \in Seq(Token) /\ Len(p) = x - 1 /\ \A j \in 1 .. Len(p) : p[j] = s[j]
  BY <1>1 DEF n
<1>5. q \in Seq(Token) /\ Len(q) = x - 1 /\ \A j \in 1 .. Len(q) : q[j] = t[i + j - 1]
  <2>1. i >= 1 /\ i + x - 2 <= Len(t) /\ i + x - 2 \in Int /\ x - 1 \in Nat /\ (i + x - 2) - i + 1 = x - 1
    BY <1>1
  <2>2. /\ i + x - 2 < i => q = <<>>
        /\ i + x - 2 >= i => q \in Seq(Token) /\ Len(q) = (i + x - 2) - i + 1
    BY <2>1
  <2>3. q \in Seq(Token) /\ Len(q) = x - 1
    BY <2>1, <2>2
  <2>4. \A j \in 1 .. x - 1 : q[j] = t[i + j - 1]
    BY <2>1
  <2> QED  BY <2>3, <2>4
<1> HIDE DEF u, p, q
<1>6. u = w
  <2>1. \A j \in 1 .. Len(u) : u[j] = w[j]
    BY <1>1, <1>2, <1>3
  <2> QED  BY <1>2, <1>3, <2>1
<1>7. p = q
  <2>1. \A j \in 1 .. Len(p) : j \in 1 .. n /\ j \in 1 .. Len(q)
    BY <1>1, <1>4, <1>5
  <2>2. \A j \in 1 .. Len(p) : p[j] = q[j]
    BY <1>1, <1>4, <1>5, <2>1
  <2> QED  BY <1>4, <1>5, <2>2
<1> QED  BY <1>6, <1>7 DEF u, w, p, q, s, n

LEMMA PlaceIs ==
  ASSUME NEW t \in Seq(Token), NEW set
  PROVE  FirstOf(Place(t, set), {j \in 1 .. Len(t) : t[j] \in set}, Len(t))
<1> DEFINE T == {j \in 1 .. Len(t) : t[j] \in set}
<1>1. Len(t) \in Nat /\ T \in SUBSET (1 .. Len(t)) /\ Place(t, set) = Min(T \cup {Len(t) + 1})
  BY DEF Place
<1> HIDE DEF T
<1>2. FirstOf(Min(T \cup {Len(t) + 1}), T, Len(t))
  BY <1>1, MinIs
<1> QED  BY <1>1, <1>2 DEF T

LEMMA FromIs ==
  ASSUME NEW t \in Seq(Token), NEW i \in 1 .. Len(t) + 1, NEW set
  PROVE  /\ From(Rest(t, i), set) = Rest(t, Find(t, set, i))
         /\ Before(Rest(t, i), set) = SubSeq(t, i, Find(t, set, i) - 1)
<1> DEFINE s == Rest(t, i)
           T == {j \in i .. Len(t) : t[j] \in set}
           first == Find(t, set, i)
           V == {j \in 1 .. Len(s) : s[j] \in set}
           m == Place(s, set)
<1>1. /\ s \in Seq(Token) /\ Len(s) = Len(t) + 1 - i /\ Len(s) \in Nat
      /\ \A j \in 1 .. Len(s) : s[j] = t[i + j - 1]
  BY RestIs
<1>2. FirstOf(m, V, Len(s))
  BY <1>1, PlaceIs
<1>3. FirstOf(first, T, Len(t))
  <2>1. Len(t) \in Nat /\ T \in SUBSET (1 .. Len(t)) /\ first = Min(T \cup {Len(t) + 1})
    BY DEF Find
  <2> HIDE DEF T, first
  <2>2. FirstOf(Min(T \cup {Len(t) + 1}), T, Len(t))
    BY <2>1, MinIs
  <2> QED  BY <2>1, <2>2
<1>4. \A j \in 1 .. Len(s) : j \in V <=> i + j - 1 \in T
  BY <1>1
<1>5. \A x \in T : x \in i .. Len(t) /\ x - i + 1 \in V
  <2>1. \A x \in T : x \in i .. Len(t)
    OBVIOUS
  <2>2. \A x \in T : x - i + 1 \in 1 .. Len(s) /\ i + (x - i + 1) - 1 = x
    BY <1>1, <2>1
  <2> HIDE DEF T, V, s
  <2> QED  BY <1>4, <2>1, <2>2
<1>6. \A j \in V : j \in 1 .. Len(s)
  OBVIOUS
<1> HIDE DEF first, m, T, V, s
<1>7. m = first - i + 1
  <2>1. CASE first <= Len(t)
    <3>1. first \in T /\ \A x \in T : first <= x
      BY <1>3, <2>1 DEF FirstOf
    <3>2. first \in i .. Len(t) /\ first - i + 1 \in V
      BY <1>5, <3>1
    <3>3. \A y \in V : first - i + 1 <= y
      <4> SUFFICES ASSUME NEW y \in V PROVE first - i + 1 <= y
        OBVIOUS
      <4>1. y \in 1 .. Len(s) /\ i + y - 1 \in T
        BY <1>4, <1>6
      <4> QED  BY <3>1, <3>2, <4>1
    <3> QED  BY <1>2, <3>2, <3>3 DEF FirstOf
  <2>2. CASE ~ (first <= Len(t))
    <3>1. first = Len(t) + 1
      BY <1>3, <2>2 DEF FirstOf
    <3>2. T = {}
      <4> SUFFICES ASSUME NEW x \in T PROVE FALSE
        OBVIOUS
      <4>1. x \in i .. Len(t) /\ first <= x
        BY <1>3, <1>5 DEF FirstOf
      <4> QED  BY <3>1, <4>1
    <3>3. V = {}
      BY <1>4, <1>6, <3>2
    <3>4. m = Len(s) + 1
      BY <1>2, <3>3 DEF FirstOf
    <3> QED  BY <1>1, <3>1, <3>4
  <2> QED  BY <2>1, <2>2
<1>8. m \in 1 .. Len(t) + 2 - i /\ i + m - 1 = first /\ i + m - 2 = first - 1
  <2>1. first \in 1 .. Len(t) + 1 /\ m \in 1 .. Len(s) + 1
    BY <1>2, <1>3 DEF FirstOf
  <2> QED  BY <1>1, <1>7, <2>1
<1>9. /\ SubSeq(s, m, Len(s)) = Rest(t, first)
      /\ SubSeq(s, 1, m - 1) = SubSeq(t, i, first - 1)
  BY <1>8, PartsIs DEF s
<1> QED  BY <1>9 DEF From, Before, m, first, s

\* A token in front, which is not looked for
LEMMA FromBehind ==
  ASSUME NEW w \in Seq(Token), NEW set, NEW x \in Token \ set
  PROVE  From(<<x>> \o w, set) = From(w, set)
<1> DEFINE s == <<x>> \o w
<1>1. s \in Seq(Token) /\ Len(s) = Len(w) + 1 /\ s[1] = x /\ \A j \in 1 .. Len(w) : s[j + 1] = w[j]
  OBVIOUS
<1>2. Rest(s, 2) = w
  BY <1>1 DEF Rest
<1> HIDE DEF s
<1>3. From(s, set) = Rest(s, Find(s, set, 1)) /\ From(w, set) = Rest(s, Find(s, set, 2))
  <2>1. Rest(s, 1) = s
    BY <1>1 DEF Rest
  <2>2. 1 \in 1 .. Len(s) + 1 /\ 2 \in 1 .. Len(s) + 1
    BY <1>1
  <2> QED  BY <1>1, <1>2, <2>1, <2>2, FromIs
<1>4. Find(s, set, 1) = Find(s, set, 2)
  <2>1. 1 <= Len(s) /\ s[1] \notin set /\ 1 + 1 = 2
    BY <1>1
  <2> QED  BY <1>1, <2>1, FindIs
<1> QED  BY <1>3, <1>4 DEF s

\* nextchar
LEMMA CutIs ==
  ASSUME NEW x \in Token
  PROVE  /\ x \in Spaces \cup Stray \cup {"s"} => Cut(x) = <<>>
         /\ Cut(x) = <<>> \/ Cut(x) = <<"2">> \/ Cut(x) = <<"rest">>
BY DEF Cut, Spaces, Stray, Words, Keywords

LEMMA SkipIs ==
  ASSUME NEW t \in Seq(Token), NEW i \in 1 .. Len(t) + 1
  PROVE  /\ i = Len(t) + 1 => Skip1(Rest(t, i)) = <<>>
         /\ i <= Len(t) => Skip1(Rest(t, i)) = Cut(t[i]) \o Rest(t, i + 1)
         /\ i <= Len(t) /\ Cut(t[i]) = <<>> => Skip1(Rest(t, i)) = Rest(t, i + 1)
<1>1. CASE i = Len(t) + 1
  BY <1>1, RestIs DEF Skip1
<1>2. CASE i <= Len(t)
  <2>1. Rest(t, i) # <<>> /\ Head(Rest(t, i)) = t[i] /\ Tail(Rest(t, i)) = Rest(t, i + 1)
    BY <1>2, RestIs
  <2>2. Skip1(Rest(t, i)) = Cut(t[i]) \o Rest(t, i + 1)
    BY <2>1 DEF Skip1
  <2>3. Rest(t, i + 1) \in Seq(Token)
    BY <1>2, RestIs
  <2>4. <<>> \o Rest(t, i + 1) = Rest(t, i + 1)
    BY <2>3
  <2>5. Cut(t[i]) = <<>> => Skip1(Rest(t, i)) = Rest(t, i + 1)
    BY <2>2, <2>4
  <2>6. i # Len(t) + 1
    BY <1>2
  <2> QED  BY <2>2, <2>5, <2>6
<1> QED  BY <1>1, <1>2

-----------------------------------------------------------------------------
\* What settings and sources make of a configuration
LEMMA SetIs ==
  ASSUME NEW z \in Settings, NEW e \in Setting
  PROVE  Set(z, e[1], e[2]) \in Settings
<1>1. CASE e \in {"loop", "fadeout"} \X Numbers
  <2>1. Amount(e[2]) \in Nat
    BY DEF Amount
  <2>2. "none" \in Keywords /\ "range" \in Keywords
    BY DEF Keywords
  <2>3. CASE e[1] = "loop"
    <3>1. Set(z, e[1], e[2]) =
            [z EXCEPT !.loop_mode = IF Amount(e[2]) = 0 THEN "none" ELSE "range"]
      BY <2>3 DEF Set
    <3>2. (IF Amount(e[2]) = 0 THEN "none" ELSE "range") \in Keywords
      BY <2>2
    <3> HIDE DEF Keywords
    <3> QED  BY <3>1, <3>2 DEF Settings
  <2>4. CASE e[1] = "fadeout"
    <3>1. Set(z, e[1], e[2]) = [z EXCEPT !.fadeout = Amount(e[2])]
      BY <2>4 DEF Set
    <3> QED  BY <2>1, <3>1 DEF Settings
  <2> QED  BY <1>1, <2>3, <2>4
<1>2. CASE e \in {"loop_mode"} \X Words
  BY <1>2 DEF Set, Settings
<1>3. CASE e \in {"output_filename"} \X Seq(Token)
  <2>1. Set(z, e[1], e[2]) = [z EXCEPT !.output_filename = e[2]] /\ e[2] \in Seq(Token)
    BY <1>3 DEF Set
  <2> QED  BY <2>1 DEF Settings
<1>4. CASE e \in (Words \ Known) \X {""}
  <2>1. e[1] \notin Known
    BY <1>4
  <2> QED  BY <2>1 DEF Set, Known
<1>5. CASE e = Nothing
  BY <1>5 DEF Set, Nothing
<1> QED  BY <1>1, <1>2, <1>3, <1>4, <1>5 DEF Setting

LEMMA SourceHasSettings ==
  ASSUME NEW source \in Source
  PROVE  source.sets \in Seq(Setting)
BY DEF Source, FileSource, OptionSource

LEMMA MakingType ==
  /\ Making \in [Settings \X Setting -> Settings]
  /\ \A z \in Settings, e \in Setting : Making[<<z, e>>] = Set(z, e[1], e[2])
<1>1. \A p \in Settings \X Setting : Set(p[1], p[2][1], p[2][2]) \in Settings
  BY SetIs
<1> QED  BY <1>1 DEF Making

LEMMA AccumulatedType ==
  ASSUME NEW S, NEW E, NEW base \in S, NEW step \in [S \X E -> S], NEW w \in Seq(E)
  PROVE  Accumulated(step, base, w) \in S
<1>1. PICK f : Through(f, step, base, w) /\ Accumulated(step, base, w) = f[Len(w)]
  <2>1. Reached(step, base, w)
    BY AccumulatedThrough
  <2> QED  BY <2>1 DEF Reached
<1>2. Len(w) <= Len(w) /\ Len(w) \in 0 .. Len(w) /\ \A i \in 1 .. Len(w) : w[i] = w[i]
  OBVIOUS
<1>3. \A i \in 0 .. Len(w) : f[i] \in S
  BY <1>1, <1>2, ThroughPrefix
<1> QED  BY <1>1, <1>2, <1>3

LEMMA ReadingType ==
  /\ ReadingOf \in [Settings \X Source -> Settings]
  /\ \A z \in Settings, y \in Source : ReadingOf[<<z, y>>] = Accumulated(Making, z, y.sets)
<1>1. \A p \in Settings \X Source : Accumulated(Making, p[1], p[2].sets) \in Settings
  BY MakingType, SourceHasSettings, AccumulatedType
<1> QED  BY <1>1 DEF ReadingOf

LEMMA DefaultsType == Defaults \in Settings
BY DEF Defaults, Settings, Keywords

\* The settings that the first n make
First(step, z, w, n) == Accumulated(step, z, SubSeq(w, 1, n))

FirstGoes(S, step, z, w, n) ==
  /\ First(step, z, w, n) \in S
  /\ n = 0 => First(step, z, w, n) = z
  /\ n = Len(w) => First(step, z, w, n) = Accumulated(step, z, w)
  /\ n < Len(w) => First(step, z, w, n + 1) = step[<<First(step, z, w, n), w[n + 1]>>]

LEMMA FirstIs ==
  ASSUME NEW S, NEW E, NEW z \in S, NEW step \in [S \X E -> S],
         NEW w \in Seq(E), NEW n \in 0 .. Len(w)
  PROVE  FirstGoes(S, step, z, w, n)
<1> DEFINE v == SubSeq(w, 1, n)
<1>1. v \in Seq(E) /\ Len(v) = n /\ \A i \in 1 .. n : v[i] = w[i]
  OBVIOUS
<1>2. n = 0 => v = <<>>
  OBVIOUS
<1>3. n = Len(w) => v = w
  OBVIOUS
<1>4. ASSUME n < Len(w) PROVE w[n + 1] \in E /\ SubSeq(w, 1, n + 1) = Append(v, w[n + 1])
  BY <1>4
<1> HIDE DEF v
<1>5. Accumulated(step, z, v) \in S
  BY <1>1, AccumulatedType
<1>6. Accumulated(step, z, <<>>) = z
  BY AccumulatedEmpty
<1>7. ASSUME n < Len(w)
      PROVE  Accumulated(step, z, SubSeq(w, 1, n + 1)) = step[<<Accumulated(step, z, v), w[n + 1]>>]
  <2>1. OneMore(step, z, v, w[n + 1])
    BY <1>1, <1>4, <1>7, AccumulatedAppend
  <2> QED  BY <1>4, <1>7, <2>1 DEF OneMore
<1> QED  BY <1>2, <1>3, <1>5, <1>6, <1>7 DEF First, v, FirstGoes

LEMMA FirstSettings ==
  ASSUME NEW z \in Settings, NEW sets \in Seq(Setting), NEW n \in 0 .. Len(sets)
  PROVE  FirstGoes(Settings, Making, z, sets, n)
<1>1. Making \in [Settings \X Setting -> Settings]
  BY MakingType
<1> QED  BY <1>1, FirstIs

LEMMA FirstSources ==
  ASSUME NEW all \in Seq(Source), NEW n \in 0 .. Len(all)
  PROVE  FirstGoes(Settings, ReadingOf, Defaults, all, n)
<1>1. ReadingOf \in [Settings \X Source -> Settings] /\ Defaults \in Settings
  BY ReadingType, DefaultsType
<1> QED  BY <1>1, FirstIs

-----------------------------------------------------------------------------
(***************************************************************************)
(* The parser is always on its way to a token that it expects: a setting's *)
(* name, its equals sign or its value.                                     *)
(***************************************************************************)
Goal(t, place, s) ==
  CASE s = 1 -> place [] s = 2 -> EqualsOf(t, place) [] OTHER -> ValueOf(t, place)

Expecting(t, place, s) ==
  \E i \in 1 .. Len(t) + 1 :
     /\ text = Rest(t, i)
     /\ \/ state = s /\ i = Goal(t, place, s)
        \/ state = 0 /\ nextstate = s /\ AfterSpaces(t, i) = Goal(t, place, s)

\* n of a file's settings have been made, and perhaps the next has begun, which is
\* right so far.
Right(t, place, s) == ~NoName(t, place) /\ (s = 3 => ~NoEquals(t, place))
Made(file, n) ==
  \/ Expecting(file.text, file.places[n + 1], 1)
  \/ /\ n < Len(file.sets) /\ option = file.text[file.places[n + 1]]
     /\ \E s \in {2, 3} : /\ Expecting(file.text, file.places[n + 1], s)
                          /\ Right(file.text, file.places[n + 1], s)

Within(file, z) ==
  \E n \in 0 .. Len(file.sets) : cfg = First(Making, z, file.sets, n) /\ Made(file, n)

UpTo(m) == First(ReadingOf, Defaults, given, m)
ReadSo(m) ==
  /\ sources = SubSeq(given, m + 1, Len(given))
  /\ \/ text = <<>> /\ cfg = UpTo(m)
     \/ m > 0 /\ given[m] \in FileSource /\ Within(given[m], UpTo(m - 1))

WellGiven == given \in Seq(Source) /\ \A i \in 1 .. Len(given) : WellFormed(given[i])
ConfigInv == WellGiven /\ \E m \in 0 .. Len(given) : ReadSo(m)

LEMMA SettingIs ==
  ASSUME NEW e \in Setting, e # Nothing
  PROVE  /\ e[1] \in Words
         /\ e[1] \in {"loop", "fadeout"} => e[2] \in Numbers
         /\ e[1] = "loop_mode" => e[2] \in Words
BY DEF Setting, Known, Words

LEMMA GoalsAre ==
  ASSUME NEW t \in Seq(Token), NEW place \in Nat
  PROVE  /\ EqualsOf(t, place) \in 1 .. Len(t) + 1 /\ ValueOf(t, place) \in 1 .. Len(t) + 1
         /\ AfterSetting(t, place) \in 1 .. Len(t) + 1
         /\ EqualsOf(t, place) <= Len(t) => place <= Len(t)
         /\ ValueOf(t, place) <= Len(t) =>
              EqualsOf(t, place) <= Len(t) /\ t[ValueOf(t, place)] \in Token \ Spaces
<1> DEFINE e == EqualsOf(t, place)
           v == ValueOf(t, place)
           set1 == Token \ Spaces
<1>1. /\ e \in 1 .. Len(t) + 1 /\ (place + 1 > Len(t) => e = Len(t) + 1)
      /\ v \in 1 .. Len(t) + 1 /\ (e + 1 > Len(t) => v = Len(t) + 1)
      /\ v <= Len(t) => t[v] \in set1
  <2>1. place + 1 \in Nat /\ 1 <= place + 1 /\ e = Find(t, set1, place + 1)
    BY DEF EqualsOf, AfterSpaces
  <2> HIDE DEF e, set1
  <2>2. e \in 1 .. Len(t) + 1 /\ (place + 1 > Len(t) => e = Len(t) + 1)
    BY <2>1, FindIs
  <2>3. e + 1 \in Nat /\ 1 <= e + 1 /\ v = Find(t, set1, e + 1)
    BY <2>2 DEF ValueOf, AfterSpaces, e, set1
  <2> HIDE DEF v
  <2>4. /\ v \in 1 .. Len(t) + 1 /\ (e + 1 > Len(t) => v = Len(t) + 1)
        /\ v <= Len(t) => t[v] \in set1
    BY <2>3, FindIs
  <2> QED  BY <2>2, <2>4
<1>2. AfterSetting(t, place) \in 1 .. Len(t) + 1
  <2>1. LineEnd(t, v) \in 1 .. Len(t) + 1
    <3>1. v \in Nat /\ 1 <= v
      BY <1>1
    <3> HIDE DEF v
    <3> QED  BY <3>1, FindIs DEF LineEnd
  <2> DEFINE from == IF NoName(t, place) THEN place + 1
                     ELSE IF NoEquals(t, place) THEN e + 1
                     ELSE IF t[place] \in {"loop", "fadeout", "loop_mode"} THEN v + 2
                     ELSE LineEnd(t, v) + 1
  <2>2. from \in Nat /\ 1 <= from
    BY <1>1, <2>1
  <2>3. AfterSetting(t, place) = Find(t, set1, from)
    BY DEF AfterSetting, AfterSpaces
  <2> HIDE DEF from, set1
  <2> QED  BY <2>2, <2>3, FindIs
<1> HIDE DEF e, v
<1> QED  BY <1>1, <1>2 DEF e, v

\* How far the places of a setting are right, and that nothing is set where not
LEMMA SaysIs ==
  ASSUME NEW t \in Seq(Token), NEW place \in 1 .. Len(t) + 1, NEW set \in Setting,
         Says(t, place, set)
  PROVE  /\ place <= Len(t) /\ t[place] \in Token
         /\ NoName(t, place) => set = Nothing
         /\ ~NoName(t, place) => t[place] \in Words /\ EqualsOf(t, place) <= Len(t)
         /\ ~NoName(t, place) /\ NoEquals(t, place) => set = Nothing
         /\ Right(t, place, 3) =>
              /\ t[EqualsOf(t, place)] = "=" /\ ValueOf(t, place) <= Len(t)
              /\ IF set = Nothing THEN NoNumber(t, place)
                 ELSE IsSetting(t, place, set) /\ set[1] = t[place]
<1>1. /\ EqualsOf(t, place) \in 1 .. Len(t) + 1
      /\ EqualsOf(t, place) <= Len(t) => place <= Len(t)
      /\ ValueOf(t, place) <= Len(t) => EqualsOf(t, place) <= Len(t)
  <2>1. place \in Nat
    OBVIOUS
  <2> QED  BY <2>1, GoalsAre
<1>2. \A x \in Words : x \notin Stray
  BY DEF Words, Keywords, Stray
<1>3. CASE set # Nothing
  <2>1. /\ ValueOf(t, place) <= Len(t) /\ t[EqualsOf(t, place)] = "="
        /\ set[1] = t[place] /\ IsSetting(t, place, set)
    BY <1>3 DEF Says, IsSetting
  <2>2. t[place] \in Words
    BY <1>3, <2>1, SettingIs
  <2>3. ~NoName(t, place) /\ ~NoEquals(t, place)
    BY <1>2, <2>1, <2>2 DEF NoName, NoEquals
  <2> QED  BY <1>1, <1>3, <2>1, <2>2, <2>3
<1>4. CASE set = Nothing
  <2>1. NoName(t, place) \/ NoEquals(t, place) \/ NoNumber(t, place)
    BY <1>4 DEF Says
  <2>2. NoName(t, place) => place <= Len(t)
    BY DEF NoName
  <2>3. NoEquals(t, place) => EqualsOf(t, place) <= Len(t) /\ t[place] \in Words
    BY DEF NoEquals
  <2>4. NoNumber(t, place) => /\ ValueOf(t, place) <= Len(t) /\ t[EqualsOf(t, place)] = "="
                              /\ t[place] \in Words
    BY DEF NoNumber, Words
  <2> QED  BY <1>1, <1>4, <2>1, <2>2, <2>3, <2>4 DEF Right
<1> QED  BY <1>3, <1>4

LEMMA PlacesAre ==
  ASSUME NEW file \in FileSource, WellFormed(file), NEW n \in 0 .. Len(file.sets)
  PROVE  LET t == file.text
             place == file.places[n + 1]
         IN  /\ t \in Seq(Token) /\ file.sets \in Seq(Setting)
             /\ place \in 1 .. Len(t) + 1
             /\ n = 0 => place = AfterSpaces(t, 1)
             /\ n = Len(file.sets) => place = Len(t) + 1
             /\ n < Len(file.sets) =>
                  /\ file.sets[n + 1] \in Setting /\ Says(t, place, file.sets[n + 1])
                  /\ file.places[n + 2] = AfterSetting(t, place)
<1> DEFINE t == file.text
           sets == file.sets
           places == file.places
           all == Len(sets)
<1>1. /\ t \in Seq(Token) /\ sets \in Seq(Setting) /\ places \in Seq(Nat) /\ all \in Nat
      /\ Len(places) = all + 1 /\ places[1] = AfterSpaces(t, 1) /\ places[all + 1] = Len(t) + 1
      /\ \A i \in 1 .. all : /\ Says(t, places[i], sets[i])
                             /\ places[i + 1] = AfterSetting(t, places[i])
  BY DEF FileSource, WellFormed, SaysItsSettings
<1>2. \A i \in 1 .. all + 1 : places[i] \in Nat
  BY <1>1
<1> HIDE DEF t, sets, places, all
<1>3. n + 1 \in 1 .. all + 1 /\ n \in Nat
  BY <1>1 DEF all, sets
<1>4. places[1] \in 1 .. Len(t) + 1
  BY <1>1, FindIs DEF AfterSpaces
<1>5. places[n + 1] \in 1 .. Len(t) + 1
  <2>1. CASE n = 0
    BY <1>4, <2>1
  <2>2. CASE n # 0
    <3>1. n \in 1 .. all /\ places[n] \in Nat
      BY <1>1, <1>2, <1>3, <2>2
    <3> QED  BY <1>1, <3>1, GoalsAre
  <2> QED  BY <2>1, <2>2
<1>6. ASSUME n < all
      PROVE  /\ sets[n + 1] \in Setting /\ Says(t, places[n + 1], sets[n + 1])
             /\ places[n + 2] = AfterSetting(t, places[n + 1])
  <2>1. n + 1 \in 1 .. all /\ (n + 1) + 1 = n + 2
    BY <1>1, <1>3, <1>6
  <2>2. sets[n + 1] \in Setting
    BY <1>1, <2>1 DEF all
  <2>3. places[n + 2] = AfterSetting(t, places[n + 1])
    <3>1. places[(n + 1) + 1] = AfterSetting(t, places[n + 1])
      BY <1>1, <2>1
    <3> QED  BY <2>1, <3>1
  <2> QED  BY <1>1, <2>1, <2>2, <2>3
<1>7. n = 0 => places[n + 1] = AfterSpaces(t, 1)
  BY <1>1
<1>8. n = all => places[n + 1] = Len(t) + 1
  BY <1>1
<1> QED  BY <1>1, <1>5, <1>6, <1>7, <1>8 DEF t, sets, places, all

\* At the end of a file all its settings have been made.
LEMMA ReadEnd ==
  ASSUME NEW file \in FileSource, WellFormed(file), NEW n \in 0 .. Len(file.sets),
         Made(file, n), text = <<>>
  PROVE  n = Len(file.sets)
<1> DEFINE t == file.text
           p == file.places[n + 1]
<1>1. /\ t \in Seq(Token) /\ p \in 1 .. Len(t) + 1 /\ Len(file.sets) \in Nat
      /\ n < Len(file.sets) => /\ file.sets[n + 1] \in Setting
                               /\ Says(t, p, file.sets[n + 1])
  <2>1. file.sets \in Seq(Setting)
    BY DEF FileSource
  <2> QED  BY <2>1, PlacesAre
<1>2. PICK s \in 1 .. 3 : Expecting(t, p, s) /\ (s # 1 => Right(t, p, s))
  BY DEF Made
<1> HIDE DEF t, p
<1>3. Goal(t, p, s) = Len(t) + 1
  <2>1. PICK i \in 1 .. Len(t) + 1 :
          /\ text = Rest(t, i)
          /\ i = Goal(t, p, s) \/ AfterSpaces(t, i) = Goal(t, p, s)
    BY <1>2 DEF Expecting
  <2>2. i = Len(t) + 1
    BY <1>1, <2>1, RestIs
  <2>3. AfterSpaces(t, i) = Len(t) + 1
    BY <1>1, <2>2, FindIs DEF AfterSpaces
  <2> QED  BY <2>1, <2>2, <2>3
<1>4. ASSUME n < Len(file.sets) PROVE FALSE
  <2>1. /\ p <= Len(t)
        /\ ~NoName(t, p) => EqualsOf(t, p) <= Len(t)
        /\ Right(t, p, 3) => ValueOf(t, p) <= Len(t)
    BY <1>1, <1>4, SaysIs
  <2>2. Goal(t, p, s) <= Len(t)
    BY <1>2, <2>1 DEF Goal, Right
  <2> QED  BY <1>1, <1>3, <2>2
<1> QED  BY <1>1, <1>4

LEMMA SkipsSpaces ==
  ASSUME NEW t \in Seq(Token), NEW place \in 1 .. Len(t) + 1, NEW s \in 1 .. 3,
         Expecting(t, place, s), SkipSpaces
  PROVE  Expecting(t, place, s)'
<1>1. PICK i \in 1 .. Len(t) + 1 :
        text = Rest(t, i) /\ nextstate = s /\ AfterSpaces(t, i) = Goal(t, place, s)
  BY DEF Expecting, SkipSpaces
<1> DEFINE j == AfterSpaces(t, i)
<1>2. j \in 1 .. Len(t) + 1
  BY FindIs DEF AfterSpaces
<1>3. text' = Rest(t, j)
  BY <1>1, FromIs DEF SkipSpaces, AfterSpaces
<1>4. state' = s
  BY <1>1 DEF SkipSpaces
<1> HIDE DEF j
<1>5. j = Goal(t, place, s)
  BY <1>1 DEF j
<1> QED  BY <1>2, <1>3, <1>4, <1>5 DEF Expecting

\* A character of the text is looked at: at the place that is expected.
LEMMA LooksAt ==
  ASSUME NEW t \in Seq(Token), NEW place \in 1 .. Len(t) + 1, NEW s \in 1 .. 3,
         Expecting(t, place, s), state # 0, text # <<>>
  PROVE  LET i == Goal(t, place, s)
         IN  /\ state = s /\ i \in 1 .. Len(t) /\ text = Rest(t, i)
             /\ c = t[i] /\ Tail(text) = Rest(t, i + 1)
<1>1. PICK i \in 1 .. Len(t) + 1 : text = Rest(t, i) /\ state = s /\ i = Goal(t, place, s)
  BY DEF Expecting
<1>2. i <= Len(t) /\ Head(text) = t[i] /\ Tail(text) = Rest(t, i + 1)
  BY <1>1, RestIs
<1> QED  BY <1>1, <1>2 DEF c

LEMMA Arrives ==
  ASSUME NEW t \in Seq(Token), NEW place, NEW s \in 1 .. 3, NEW i \in 1 .. Len(t) + 1,
         text' = Rest(t, i), Then(s), AfterSpaces(t, i) = Goal(t, place, s)
  PROVE  Expecting(t, place, s)'
BY DEF Expecting, Then

\* What is behind a number or a word is skipped if it is a space or a unit.
LEMMA SkipsUnit ==
  ASSUME NEW t \in Seq(Token), NEW v \in 1 .. Len(t),
         v < Len(t) => t[v + 1] \in Spaces \cup {"s"}
  PROVE  \E j \in 1 .. Len(t) + 1 :
            /\ Skip1(Rest(t, v + 1)) = Rest(t, j)
            /\ AfterSpaces(t, j) = AfterSpaces(t, v + 2)
<1>1. CASE v < Len(t)
  <2>1. t[v + 1] \in Token /\ v + 1 \in 1 .. Len(t) + 1 /\ v + 1 <= Len(t) /\ v + 2 \in 1 .. Len(t) + 1
        /\ (v + 1) + 1 = v + 2
    BY <1>1
  <2>2. Cut(t[v + 1]) = <<>>
    BY <1>1, <2>1, CutIs
  <2>3. Skip1(Rest(t, v + 1)) = Rest(t, v + 2)
    <3>1. Skip1(Rest(t, v + 1)) = Rest(t, (v + 1) + 1)
      BY <2>1, <2>2, SkipIs
    <3> QED  BY <2>1, <3>1
  <2> QED  BY <2>1, <2>3
<1>2. CASE v = Len(t)
  <2>1. v + 1 = Len(t) + 1 /\ v + 1 \in 1 .. Len(t) + 1
    BY <1>2
  <2>2. Skip1(Rest(t, v + 1)) = <<>> /\ Rest(t, v + 1) = <<>>
    BY <2>1, SkipIs, RestIs
  <2>3. v + 2 \in Nat /\ 1 <= v + 2 /\ v + 2 > Len(t) /\ v + 1 \in Nat /\ 1 <= v + 1 /\ v + 1 > Len(t)
    BY <1>2
  <2>4. AfterSpaces(t, v + 1) = Len(t) + 1 /\ AfterSpaces(t, v + 2) = Len(t) + 1
    BY <2>3, FindIs DEF AfterSpaces
  <2> QED  BY <2>1, <2>2, <2>4
<1> QED  BY <1>1, <1>2

\* A line is skipped with its end.
LEMMA SkipsLine ==
  ASSUME NEW t \in Seq(Token), NEW v \in 1 .. Len(t)
  PROVE  \E j \in 1 .. Len(t) + 1 :
            /\ Skip1(Rest(t, LineEnd(t, v))) = Rest(t, j)
            /\ AfterSpaces(t, j) = AfterSpaces(t, LineEnd(t, v) + 1)
<1> DEFINE e == LineEnd(t, v)
<1>1. e \in 1 .. Len(t) + 1 /\ (e <= Len(t) => t[e] \in {"\n"})
  <2>1. v \in Nat /\ 1 <= v
    OBVIOUS
  <2> QED  BY <2>1, FindIs DEF LineEnd
<1> HIDE DEF e
<1>2. CASE e <= Len(t)
  <2>1. t[e] \in Token /\ t[e] \in Spaces /\ e + 1 \in 1 .. Len(t) + 1
    <3>1. e \in 1 .. Len(t) /\ e + 1 \in 1 .. Len(t) + 1
      BY <1>1, <1>2
    <3>2. t[e] \in Token
      BY <3>1
    <3>3. t[e] \in Spaces
      BY <1>1, <1>2 DEF Spaces
    <3> QED  BY <3>1, <3>2, <3>3
  <2>2. Cut(t[e]) = <<>>
    BY <2>1, CutIs
  <2>3. Skip1(Rest(t, e)) = Rest(t, e + 1)
    BY <1>1, <1>2, <2>2, SkipIs
  <2> QED  BY <2>1, <2>3 DEF e
<1>3. CASE e = Len(t) + 1
  <2>1. Skip1(Rest(t, e)) = <<>> /\ Rest(t, e) = <<>>
    BY <1>1, <1>3, SkipIs, RestIs
  <2>2. e \in Nat /\ 1 <= e /\ e > Len(t) /\ e + 1 \in Nat /\ 1 <= e + 1 /\ e + 1 > Len(t)
    BY <1>1, <1>3
  <2>3. AfterSpaces(t, e) = Len(t) + 1 /\ AfterSpaces(t, e + 1) = Len(t) + 1
    BY <2>2, FindIs DEF AfterSpaces
  <2> QED  BY <1>1, <2>1, <2>3 DEF e
<1> QED  BY <1>1, <1>2, <1>3

\* The line of an option that the parser does not know
LEMMA SkipsRest ==
  ASSUME NEW t \in Seq(Token), NEW v \in 1 .. Len(t), t[v] \in Token \ Spaces
  PROVE  From(Skip1(Rest(t, v)), {"\n"}) = Rest(t, LineEnd(t, v))
<1> DEFINE w == Rest(t, v + 1)
<1>1. v + 1 \in 1 .. Len(t) + 1 /\ v \in 1 .. Len(t) + 1 /\ v <= Len(t) /\ v \in Nat /\ 1 <= v
  OBVIOUS
<1>2. w \in Seq(Token) /\ From(w, {"\n"}) = Rest(t, LineEnd(t, v + 1))
  BY <1>1, RestIs, FromIs DEF LineEnd
<1>3. LineEnd(t, v) = LineEnd(t, v + 1)
  <2>1. t[v] \notin {"\n"}
    BY DEF Spaces
  <2> QED  BY <1>1, <2>1, FindIs DEF LineEnd
<1>4. Skip1(Rest(t, v)) = Cut(t[v]) \o w
  BY <1>1, SkipIs
<1> HIDE DEF w
<1>5. <<>> \o w = w
  BY <1>2
<1>6. From(<<"2">> \o w, {"\n"}) = From(w, {"\n"})
  <2>1. "2" \in Token \ {"\n"}
    BY DEF Token, Numbers
  <2> QED  BY <1>2, <2>1, FromBehind
<1>7. From(<<"rest">> \o w, {"\n"}) = From(w, {"\n"})
  <2>1. "rest" \in Token \ {"\n"}
    BY DEF Token, Words
  <2> QED  BY <1>2, <2>1, FromBehind
<1>8. Cut(t[v]) = <<>> \/ Cut(t[v]) = <<"2">> \/ Cut(t[v]) = <<"rest">>
  BY CutIs
<1> QED  BY <1>2, <1>3, <1>4, <1>5, <1>6, <1>7, <1>8

\* A value is read as the setting says, and what follows it is the next setting.
LEMMA ReadsValue ==
  ASSUME NEW t \in Seq(Token), NEW place \in 1 .. Len(t) + 1, NEW set \in Setting,
         IsSetting(t, place, set), set # Nothing, Right(t, place, 3),
         option = set[1], Expecting(t, place, 3), text # <<>>, ReadValue
  PROVE  /\ cfg' = Set(cfg, set[1], set[2]) /\ Then(1)
         /\ \E j \in 1 .. Len(t) + 1 :
               text' = Rest(t, j) /\ AfterSpaces(t, j) = AfterSetting(t, place)
<1> DEFINE v == ValueOf(t, place)
<1>1. v \in 1 .. Len(t) /\ text = Rest(t, v) /\ c = t[v] /\ Tail(text) = Rest(t, v + 1)
  <2>1. state # 0 /\ Goal(t, place, 3) = v /\ 3 \in 1 .. 3
    BY DEF ReadValue, Goal
  <2> HIDE DEF v
  <2> QED  BY <2>1, LooksAt
<1>2. t[v] \in Token \ Spaces /\ v \in 1 .. Len(t) + 1 /\ v <= Len(t)
  <2>1. place \in Nat
    OBVIOUS
  <2> QED  BY <1>1, <2>1, GoalsAre
<1>3. /\ set[1] = t[place]
      /\ set[1] \in {"loop", "fadeout", "loop_mode"} =>
           set[2] = t[v] /\ (v < Len(t) => t[v + 1] \in Spaces \cup {"s"})
      /\ set[1] = "output_filename" => set[2] = SubSeq(t, v, LineEnd(t, v) - 1)
  BY DEF IsSetting, Ends
<1>4. AfterSetting(t, place) =
        AfterSpaces(t, IF set[1] \in {"loop", "fadeout", "loop_mode"} THEN v + 2
                       ELSE LineEnd(t, v) + 1)
  BY <1>3 DEF AfterSetting, Right
<1> HIDE DEF v
<1>5. Then(1)
  BY DEF ReadValue
<1>6. CASE set[1] \in {"loop", "fadeout", "loop_mode"}
  <2>1. cfg' = Set(cfg, set[1], set[2]) /\ text' = Skip1(Rest(t, v + 1))
    <3>1. CASE set[1] \in {"loop", "fadeout"}
      <4>1. set[2] \in Numbers /\ c = set[2]
        BY <1>1, <1>3, <3>1, SettingIs
      <4>2. ReadNumber
        BY <3>1 DEF ReadValue, ReadKeyword, ReadLine, ReadUnknown
      <4> QED  BY <1>1, <4>1, <4>2 DEF ReadNumber
    <3>2. CASE set[1] = "loop_mode"
      <4>1. set[2] \in Words /\ c = set[2]
        BY <1>1, <1>3, <3>2, SettingIs
      <4>2. ReadKeyword
        BY <3>2 DEF ReadValue, ReadNumber, ReadLine, ReadUnknown
      <4> QED  BY <1>1, <3>2, <4>1, <4>2 DEF ReadKeyword
    <3> QED  BY <1>6, <3>1, <3>2
  <2>2. \E j \in 1 .. Len(t) + 1 :
           text' = Rest(t, j) /\ AfterSpaces(t, j) = AfterSetting(t, place)
    BY <1>1, <1>3, <1>4, <1>6, <2>1, SkipsUnit
  <2> QED  BY <1>5, <2>1, <2>2
<1>7. CASE set[1] = "output_filename"
  <2>1. ReadLine
    BY <1>7 DEF ReadValue, ReadNumber, ReadKeyword, ReadUnknown
  <2>2. /\ From(text, {"\n"}) = Rest(t, LineEnd(t, v))
        /\ Before(text, {"\n"}) = set[2]
    BY <1>1, <1>2, <1>3, <1>7, FromIs DEF LineEnd
  <2>3. cfg' = Set(cfg, set[1], set[2]) /\ text' = Skip1(Rest(t, LineEnd(t, v)))
    BY <1>7, <2>1, <2>2 DEF ReadLine
  <2>4. AfterSetting(t, place) = AfterSpaces(t, LineEnd(t, v) + 1)
    BY <1>4, <1>7
  <2> QED  BY <1>1, <1>5, <2>3, <2>4, SkipsLine
<1>8. CASE set[1] \notin {"loop", "fadeout", "loop_mode", "output_filename"}
  <2>1. ReadUnknown
    BY <1>8 DEF ReadValue, ReadNumber, ReadKeyword, ReadLine
  <2>2. text' = Skip1(Rest(t, LineEnd(t, v)))
    BY <1>1, <1>2, <2>1, SkipsRest DEF ReadUnknown
  <2>3. cfg' = Set(cfg, set[1], set[2])
    BY <1>8, <2>1 DEF ReadUnknown, Set
  <2>4. AfterSetting(t, place) = AfterSpaces(t, LineEnd(t, v) + 1)
    BY <1>4, <1>8
  <2> QED  BY <1>1, <1>5, <2>2, <2>3, <2>4, SkipsLine
<1> QED  BY <1>6, <1>7, <1>8

\* A number that is none is reported, and what follows it is the next setting.
LEMMA ReadsNoNumber ==
  ASSUME NEW t \in Seq(Token), NEW place \in 1 .. Len(t) + 1,
         NoNumber(t, place), Right(t, place, 3), option = t[place],
         Expecting(t, place, 3), text # <<>>, ReadValue
  PROVE  /\ cfg' = cfg /\ Then(1)
         /\ \E j \in 1 .. Len(t) + 1 :
               text' = Rest(t, j) /\ AfterSpaces(t, j) = AfterSetting(t, place)
<1> DEFINE v == ValueOf(t, place)
<1>1. v \in 1 .. Len(t) /\ text = Rest(t, v) /\ c = t[v]
  <2>1. state # 0 /\ Goal(t, place, 3) = v /\ 3 \in 1 .. 3
    BY DEF ReadValue, Goal
  <2> HIDE DEF v
  <2> QED  BY <2>1, LooksAt
<1>2. /\ option \in {"loop", "fadeout"} /\ t[v] \in Stray \ Numbers
      /\ v < Len(t) => t[v + 1] \in Spaces \cup {"s"}
      /\ AfterSetting(t, place) = AfterSpaces(t, v + 2)
  BY DEF NoNumber, Ends, AfterSetting, Right
<1> HIDE DEF v
<1>3. ReadNumber /\ Then(1)
  BY <1>2 DEF ReadValue, ReadKeyword, ReadLine, ReadUnknown
<1>4. cfg' = cfg /\ text' = Skip1(Skip1(Rest(t, v)))
  BY <1>1, <1>2, <1>3 DEF ReadNumber
<1>5. Skip1(Rest(t, v)) = Rest(t, v + 1)
  <2>1. t[v] \in Token /\ v \in 1 .. Len(t) + 1 /\ v <= Len(t)
    BY <1>1
  <2>2. Cut(t[v]) = <<>>
    BY <1>2, <2>1, CutIs
  <2> QED  BY <2>1, <2>2, SkipIs
<1> QED  BY <1>1, <1>2, <1>3, <1>4, <1>5, SkipsUnit

\* A character that is not expected is skipped, and what follows it is the next setting.
LEMMA SkipsStray ==
  ASSUME NEW t \in Seq(Token), NEW i \in 1 .. Len(t), t[i] \in Stray,
         text = Rest(t, i), Expected(text)
  PROVE  /\ Then(1)
         /\ \E j \in 1 .. Len(t) + 1 :
               text' = Rest(t, j) /\ AfterSpaces(t, j) = AfterSpaces(t, i + 1)
<1>1. t[i] \in Token /\ i \in 1 .. Len(t) + 1 /\ i <= Len(t) /\ i + 1 \in 1 .. Len(t) + 1
  OBVIOUS
<1>2. Cut(t[i]) = <<>>
  BY <1>1, CutIs
<1>3. Skip1(Rest(t, i)) = Rest(t, i + 1)
  BY <1>1, <1>2, SkipIs
<1> QED  BY <1>1, <1>3 DEF Expected

\* One step of the parser
LEMMA ParserStep ==
  ASSUME NEW file \in FileSource, WellFormed(file), NEW z \in Settings,
         Within(file, z), ParseStep
  PROVE  Within(file, z)'
<1> DEFINE t == file.text
           sets == file.sets
           place(n) == file.places[n + 1]
           goal(n, s) == Goal(t, place(n), s)
<1>1. PICK n \in 0 .. Len(sets) : cfg = First(Making, z, sets, n) /\ Made(file, n)
  BY DEF Within
<1>2. sets \in Seq(Setting) /\ Len(sets) \in Nat /\ t \in Seq(Token)
  BY DEF FileSource
<1>3. place(n) \in 1 .. Len(t) + 1 /\ (n = Len(sets) => place(n) = Len(t) + 1)
  BY PlacesAre
<1>4. ASSUME n < Len(sets)
      PROVE  /\ sets[n + 1] \in Setting /\ Says(t, place(n), sets[n + 1])
             /\ place(n + 1) = AfterSetting(t, place(n))
             /\ n + 1 \in 0 .. Len(sets)
             /\ First(Making, z, sets, n + 1) = Set(cfg, sets[n + 1][1], sets[n + 1][2])
  <2>1. sets[n + 1] \in Setting /\ Says(t, place(n), sets[n + 1])
        /\ file.places[n + 2] = AfterSetting(t, place(n))
    BY <1>4, PlacesAre
  <2>2. (n + 1) + 1 = n + 2 /\ n + 1 \in 0 .. Len(sets)
    BY <1>2, <1>4
  <2>3. First(Making, z, sets, n) \in Settings
        /\ First(Making, z, sets, n + 1) = Making[<<First(Making, z, sets, n), sets[n + 1]>>]
    <3>1. FirstGoes(Settings, Making, z, sets, n)
      BY <1>2, FirstSettings
    <3> QED  BY <1>2, <1>4, <3>1 DEF FirstGoes
  <2>4. First(Making, z, sets, n + 1) = Set(cfg, sets[n + 1][1], sets[n + 1][2])
    BY <1>1, <2>1, <2>3, MakingType
  <2>5. place(n + 1) = AfterSetting(t, place(n))
    BY <2>1, <2>2
  <2> QED  BY <2>1, <2>2, <2>4, <2>5
<1>5. text # <<>>
  BY DEF ParseStep
<1> HIDE DEF t, sets, place
<1>6. Made(file, n) <=> \/ Expecting(t, place(n), 1)
                        \/ /\ n < Len(sets) /\ option = t[place(n)]
                           /\ \E s \in {2, 3} : Expecting(t, place(n), s) /\ Right(t, place(n), s)
  BY DEF Made, t, sets, place
<1>7. Made(file, n)' <=> \/ Expecting(t, place(n), 1)'
                         \/ /\ n < Len(sets) /\ option' = t[place(n)]
                            /\ \E s \in {2, 3} : Expecting(t, place(n), s)' /\ Right(t, place(n), s)
  BY DEF Made, t, sets, place
<1>8. ASSUME cfg' = cfg, Made(file, n)' PROVE Within(file, z)'
  BY <1>1, <1>8 DEF Within, sets
\* The next setting has been made, if an error then as nothing.
<1>9. ASSUME n < Len(sets), cfg' = First(Making, z, sets, n + 1), Then(1),
              \E j \in 1 .. Len(t) + 1 : text' = Rest(t, j) /\ AfterSpaces(t, j) = place(n + 1)
       PROVE  Within(file, z)'
  <2>1. Expecting(t, place(n + 1), 1)'
    <3>1. PICK j \in 1 .. Len(t) + 1 : text' = Rest(t, j) /\ AfterSpaces(t, j) = place(n + 1)
      BY <1>9
    <3>2. Goal(t, place(n + 1), 1) = place(n + 1) /\ 1 \in 1 .. 3
      BY DEF Goal
    <3> QED  BY <1>2, <1>9, <3>1, <3>2, Arrives
  <2>2. Made(file, n + 1)'
    BY <2>1 DEF Made, t, place
  <2> QED  BY <1>4, <1>9, <2>2 DEF Within, sets
<1>10. ASSUME n < Len(sets), sets[n + 1] = Nothing
       PROVE  First(Making, z, sets, n + 1) = cfg
  <2>1. Nothing[1] = "" /\ Nothing[2] = ""
    BY DEF Nothing
  <2>2. Set(cfg, "", "") = cfg
    BY DEF Set
  <2> QED  BY <1>4, <1>10, <2>1, <2>2
<1>11. CASE SkipSpaces
  <2>1. \A s \in 1 .. 3 : Expecting(t, place(n), s) => Expecting(t, place(n), s)'
    BY <1>2, <1>3, <1>11, SkipsSpaces
  <2>2. cfg' = cfg /\ option' = option
    BY <1>11 DEF SkipSpaces
  <2> QED  BY <1>1, <1>6, <1>7, <1>8, <2>1, <2>2
<1>12. CASE ReadOption
  <2>1. state = 1
    BY <1>12 DEF ReadOption
  <2>2. PICK s \in 1 .. 3 : Expecting(t, place(n), s)
    BY <1>1, <1>6
  <2>3. /\ s = state /\ goal(n, s) \in 1 .. Len(t)
        /\ c = t[goal(n, s)] /\ text = Rest(t, goal(n, s))
        /\ Tail(text) = Rest(t, goal(n, s) + 1)
    BY <1>2, <1>3, <1>5, <2>1, <2>2, LooksAt
  <2>4. goal(n, s) = place(n)
    BY <2>1, <2>3 DEF Goal
  <2> HIDE DEF goal
  <2>5. n < Len(sets)
    BY <1>2, <1>3, <2>3, <2>4
  <2>6. Says(t, place(n), sets[n + 1]) /\ sets[n + 1] \in Setting
        /\ place(n + 1) = AfterSetting(t, place(n))
    BY <1>4, <2>5
  <2>7. CASE NoName(t, place(n))
    <3>1. t[place(n)] \in Stray /\ c \notin Words
      BY <2>3, <2>4, <2>7 DEF NoName, Stray, Words, Keywords
    <3>2. Expected(text) /\ cfg' = cfg
      BY <1>12, <3>1 DEF ReadOption
    <3>3. text = Rest(t, place(n)) /\ place(n) \in 1 .. Len(t)
      BY <2>3, <2>4
    <3>4. sets[n + 1] = Nothing
      BY <1>2, <1>3, <2>6, <2>7, SaysIs
    <3>5. AfterSetting(t, place(n)) = AfterSpaces(t, place(n) + 1)
      BY <2>7 DEF AfterSetting
    <3>6. /\ Then(1)
          /\ \E j \in 1 .. Len(t) + 1 : text' = Rest(t, j) /\ AfterSpaces(t, j) = place(n + 1)
      BY <1>2, <2>6, <3>1, <3>2, <3>3, <3>5, SkipsStray
    <3>7. cfg' = First(Making, z, sets, n + 1)
      BY <1>10, <2>5, <3>2, <3>4
    <3> QED  BY <1>9, <2>5, <3>6, <3>7
  <2>8. ASSUME ~NoName(t, place(n)) PROVE c \in Words
    BY <1>2, <1>3, <2>3, <2>4, <2>6, <2>8, SaysIs
  <2>9. ASSUME ~NoName(t, place(n))
        PROVE  option' = t[place(n)] /\ text' = Rest(t, place(n) + 1) /\ Then(2) /\ cfg' = cfg
    BY <1>12, <2>3, <2>4, <2>9, <2>8 DEF ReadOption
  <2>10. ASSUME ~NoName(t, place(n)) PROVE Expecting(t, place(n), 2)'
    <3>1. AfterSpaces(t, place(n) + 1) = Goal(t, place(n), 2)
      BY DEF Goal, EqualsOf
    <3>2. place(n) + 1 \in 1 .. Len(t) + 1 /\ 2 \in 1 .. 3
      BY <1>2, <2>3, <2>4
    <3> QED  BY <1>2, <2>9, <2>10, <3>1, <3>2, Arrives
  <2>11. Right(t, place(n), 2) <=> ~NoName(t, place(n))
    BY DEF Right
  <2> QED  BY <1>7, <1>8, <2>5, <2>9, <2>10, <2>7, <2>11
<1>13. CASE ReadEquals
  <2>1. state = 2
    BY <1>13 DEF ReadEquals
  <2>2. PICK s \in 1 .. 3 : Expecting(t, place(n), s)
                            /\ (s # 1 => /\ n < Len(sets) /\ option = t[place(n)]
                                         /\ Right(t, place(n), s))
    BY <1>1, <1>6
  <2>3. /\ s = state /\ goal(n, s) \in 1 .. Len(t)
        /\ c = t[goal(n, s)] /\ text = Rest(t, goal(n, s))
        /\ Tail(text) = Rest(t, goal(n, s) + 1)
    BY <1>2, <1>3, <1>5, <2>1, <2>2, LooksAt
  <2>4. goal(n, s) = EqualsOf(t, place(n))
    BY <2>1, <2>3 DEF Goal
  <2> HIDE DEF goal
  <2>5. n < Len(sets) /\ option = t[place(n)] /\ ~NoName(t, place(n))
    BY <2>1, <2>2, <2>3 DEF Right
  <2>6. Says(t, place(n), sets[n + 1]) /\ sets[n + 1] \in Setting
        /\ place(n + 1) = AfterSetting(t, place(n))
    BY <1>4, <2>5
  <2>7. CASE NoEquals(t, place(n))
    <3>1. t[EqualsOf(t, place(n))] \in Stray \ {"="}
      BY <2>7 DEF NoEquals
    <3>2. Expected(text) /\ cfg' = cfg
      BY <1>13, <2>3, <2>4, <3>1 DEF ReadEquals
    <3>3. text = Rest(t, EqualsOf(t, place(n))) /\ EqualsOf(t, place(n)) \in 1 .. Len(t)
      BY <2>3, <2>4
    <3>4. sets[n + 1] = Nothing
      BY <1>2, <1>3, <2>5, <2>6, <2>7, SaysIs
    <3>5. AfterSetting(t, place(n)) = AfterSpaces(t, EqualsOf(t, place(n)) + 1)
      BY <2>5, <2>7 DEF AfterSetting
    <3>6. /\ Then(1)
          /\ \E j \in 1 .. Len(t) + 1 : text' = Rest(t, j) /\ AfterSpaces(t, j) = place(n + 1)
      BY <1>2, <2>6, <3>1, <3>2, <3>3, <3>5, SkipsStray
    <3>7. cfg' = First(Making, z, sets, n + 1)
      BY <1>10, <2>5, <3>2, <3>4
    <3> QED  BY <1>9, <2>5, <3>6, <3>7
  <2>8. Right(t, place(n), 3) <=> ~NoEquals(t, place(n))
    BY <2>5 DEF Right
  <2>9. ASSUME ~NoEquals(t, place(n))
        PROVE  option' = option /\ text' = Rest(t, EqualsOf(t, place(n)) + 1) /\ Then(3) /\ cfg' = cfg
    <3>1. c = "="
      BY <1>2, <1>3, <2>3, <2>4, <2>6, <2>9, <2>8, SaysIs
    <3> QED  BY <1>13, <2>3, <2>4, <3>1 DEF ReadEquals
  <2>10. ASSUME ~NoEquals(t, place(n)) PROVE Expecting(t, place(n), 3)'
    <3>1. AfterSpaces(t, EqualsOf(t, place(n)) + 1) = Goal(t, place(n), 3)
      BY DEF Goal, ValueOf
    <3>2. EqualsOf(t, place(n)) + 1 \in 1 .. Len(t) + 1 /\ 3 \in 1 .. 3
      BY <1>2, <2>3, <2>4
    <3> QED  BY <1>2, <2>9, <2>10, <3>1, <3>2, Arrives
  <2> QED  BY <1>7, <1>8, <2>5, <2>9, <2>10, <2>7, <2>8
<1>14. CASE ReadValue
  <2>1. state = 3
    BY <1>14 DEF ReadValue
  <2>2. PICK s \in 1 .. 3 : Expecting(t, place(n), s)
                            /\ (s # 1 => /\ n < Len(sets) /\ option = t[place(n)]
                                         /\ Right(t, place(n), s))
    BY <1>1, <1>6
  <2>3. s = 3
    BY <1>2, <1>3, <1>5, <2>1, <2>2, LooksAt
  <2>4. /\ n < Len(sets) /\ option = t[place(n)] /\ Expecting(t, place(n), 3)
        /\ Right(t, place(n), 3)
    BY <2>2, <2>3
  <2>5. /\ Says(t, place(n), sets[n + 1]) /\ sets[n + 1] \in Setting
        /\ place(n + 1) = AfterSetting(t, place(n))
        /\ First(Making, z, sets, n + 1) = Set(cfg, sets[n + 1][1], sets[n + 1][2])
    BY <1>4, <2>4
  <2>6. IF sets[n + 1] = Nothing THEN NoNumber(t, place(n))
        ELSE IsSetting(t, place(n), sets[n + 1]) /\ sets[n + 1][1] = t[place(n)]
    BY <1>2, <1>3, <2>4, <2>5, SaysIs
  <2>7. /\ cfg' = First(Making, z, sets, n + 1) /\ Then(1)
        /\ \E j \in 1 .. Len(t) + 1 :
              text' = Rest(t, j) /\ AfterSpaces(t, j) = place(n + 1)
    <3>1. CASE sets[n + 1] = Nothing
      <4>1. First(Making, z, sets, n + 1) = cfg
        BY <1>10, <2>4, <3>1
      <4> QED  BY <1>2, <1>3, <1>5, <1>14, <2>4, <2>5, <2>6, <3>1, <4>1, ReadsNoNumber
    <3>2. CASE sets[n + 1] # Nothing
      BY <1>2, <1>3, <1>5, <1>14, <2>4, <2>5, <2>6, <3>2, ReadsValue
    <3> QED  BY <3>1, <3>2
  <2> QED  BY <1>9, <2>4, <2>7
<1> QED  BY <1>11, <1>12, <1>13, <1>14 DEF ParseStep

\* The file that has been read last has been read to its end.
LEMMA ReadToTheEnd ==
  ASSUME WellGiven, NEW m \in 0 .. Len(given), ReadSo(m), text = <<>>
  PROVE  cfg = UpTo(m)
<1>1. given \in Seq(Source) /\ Len(given) \in Nat
  BY DEF WellGiven
<1>2. CASE m > 0 /\ given[m] \in FileSource /\ Within(given[m], UpTo(m - 1))
  <2>1. PICK file : file = given[m]
    OBVIOUS
  <2>2. m - 1 \in 0 .. Len(given) /\ m - 1 < Len(given) /\ (m - 1) + 1 = m /\ m \in 1 .. Len(given)
    BY <1>1, <1>2
  <2>3. file \in FileSource /\ file \in Source /\ WellFormed(file)
    BY <1>1, <1>2, <2>1, <2>2 DEF WellGiven
  <2>4. UpTo(m - 1) \in Settings /\ UpTo(m) = ReadingOf[<<UpTo(m - 1), file>>]
    <3>1. FirstGoes(Settings, ReadingOf, Defaults, given, m - 1)
      BY <1>1, <2>2, FirstSources
    <3>2. UpTo(m - 1) \in Settings /\ UpTo((m - 1) + 1) = ReadingOf[<<UpTo(m - 1), given[(m - 1) + 1]>>]
      BY <2>2, <3>1 DEF UpTo, FirstGoes
    <3> QED  BY <2>1, <2>2, <3>2
  <2>5. UpTo(m) = Accumulated(Making, UpTo(m - 1), file.sets)
    BY <2>3, <2>4, ReadingType
  <2>6. PICK n \in 0 .. Len(file.sets) :
          cfg = First(Making, UpTo(m - 1), file.sets, n) /\ Made(file, n)
    BY <1>2, <2>1 DEF Within
  <2>7. n = Len(file.sets) /\ file.sets \in Seq(Setting)
    BY <2>3, <2>6, ReadEnd, SourceHasSettings
  <2>8. First(Making, UpTo(m - 1), file.sets, n) = Accumulated(Making, UpTo(m - 1), file.sets)
    <3>1. FirstGoes(Settings, Making, UpTo(m - 1), file.sets, n)
      BY <2>4, <2>7, FirstSettings
    <3> QED  BY <2>7, <3>1 DEF FirstGoes
  <2> QED  BY <2>5, <2>6, <2>8
<1> QED  BY <1>2 DEF ReadSo

\* A file or an option of the command line is next.
LEMMA NextSourceStep ==
  ASSUME WellGiven, NEW m \in 0 .. Len(given), ReadSo(m), NextSource
  PROVE  m + 1 \in 0 .. Len(given) /\ ReadSo(m + 1)'
<1> DEFINE source == given[m + 1]
           z == UpTo(m)
<1>1. text = <<>> /\ sources # <<>> /\ given' = given /\ sources' = Tail(sources)
  BY DEF NextSource
<1>2. given \in Seq(Source) /\ Len(given) \in Nat
  BY DEF WellGiven
<1>3. sources = SubSeq(given, m + 1, Len(given))
  BY DEF ReadSo
<1>4. m < Len(given) /\ m \in Nat
  <2>1. m = Len(given) => SubSeq(given, m + 1, Len(given)) = <<>>
    BY <1>2
  <2> QED  BY <1>1, <1>2, <1>3, <2>1
<1>5. m + 1 \in 0 .. Len(given) /\ m + 1 > 0 /\ (m + 1) - 1 = m /\ m + 1 \in 1 .. Len(given)
  BY <1>2, <1>4
<1>6. Head(sources) = source /\ sources' = SubSeq(given, (m + 1) + 1, Len(given))
  BY <1>1, <1>2, <1>3, <1>4
<1>7. source \in Source /\ WellFormed(source)
  BY <1>2, <1>5 DEF WellGiven
<1>8. /\ z \in Settings /\ (m = 0 => z = Defaults)
      /\ UpTo(m + 1) = ReadingOf[<<z, source>>]
  <2>1. FirstGoes(Settings, ReadingOf, Defaults, given, m)
    BY <1>2, FirstSources
  <2> QED  BY <1>4, <2>1 DEF UpTo, FirstGoes
<1>9. UpTo(m)' = UpTo(m) /\ UpTo(m + 1)' = UpTo(m + 1)
  BY <1>1 DEF UpTo
<1> HIDE DEF source, z
<1>10. UpTo(m + 1) = Accumulated(Making, z, source.sets)
  BY <1>7, <1>8, ReadingType
<1>11. cfg = z
  BY <1>1, ReadToTheEnd DEF z
<1>12. CASE source.kind = "file"
  <2>1. PICK file : file = source
    OBVIOUS
  <2>2. file \in FileSource /\ WellFormed(file)
    BY <1>7, <1>12, <2>1 DEF Source, OptionSource
  <2>3. text' = file.text /\ cfg' = z /\ Then(1)
    BY <1>6, <1>11, <1>12, <2>1 DEF NextSource
  <2>4. /\ file.text \in Seq(Token) /\ file.sets \in Seq(Setting) /\ 0 \in 0 .. Len(file.sets)
        /\ file.places[0 + 1] = AfterSpaces(file.text, 1)
    <3>1. file.sets \in Seq(Setting) /\ 0 \in 0 .. Len(file.sets)
      BY <2>2 DEF FileSource
    <3> QED  BY <2>2, <3>1, PlacesAre
  <2>5. First(Making, z, file.sets, 0) = z
    <3>1. FirstGoes(Settings, Making, z, file.sets, 0)
      BY <1>8, <2>4, FirstSettings
    <3> QED  BY <3>1 DEF FirstGoes
  <2>6. Expecting(file.text, file.places[0 + 1], 1)'
    <3>1. Rest(file.text, 1) = file.text /\ 1 \in 1 .. Len(file.text) + 1 /\ 1 \in 1 .. 3
      BY <2>4 DEF Rest
    <3>2. Goal(file.text, file.places[0 + 1], 1) = file.places[0 + 1]
      BY DEF Goal
    <3> QED  BY <2>3, <2>4, <3>1, <3>2, Arrives
  <2>7. Within(file, z)'
    <3>1. Made(file, 0)'
      BY <2>6 DEF Made
    <3>2. cfg' = First(Making, z, file.sets, 0)
      BY <2>3, <2>5
    <3>3. z' = z
      BY <1>9 DEF z
    <3> QED  BY <2>4, <3>1, <3>2, <3>3 DEF Within
  <2>8. given'[m + 1] = file /\ UpTo((m + 1) - 1)' = z
    BY <1>1, <1>5, <1>9, <2>1 DEF source, z
  <2>9. Within(given[m + 1], UpTo((m + 1) - 1))'
    <3>1. z' = z
      BY <1>9 DEF z
    <3> QED  BY <2>7, <2>8, <3>1 DEF Within
  <2> QED  BY <1>1, <1>5, <1>6, <2>2, <2>8, <2>9 DEF ReadSo
<1>13. CASE source.kind # "file"
  <2>1. /\ cfg' = Set(z, source.name, source.value) /\ text' = <<>>
        /\ source.sets = <<<<source.name, source.value>>>>
    BY <1>1, <1>6, <1>7, <1>11, <1>13 DEF NextSource, WellFormed
  <2>2. PICK e : e = <<source.name, source.value>>
    OBVIOUS
  <2>3. source.sets = <<e>> /\ e \in Setting /\ e[1] = source.name /\ e[2] = source.value
    <3>1. source.sets \in Seq(Setting)
      BY <1>7, SourceHasSettings
    <3>2. source.sets = <<e>> /\ source.sets[1] = e /\ Len(source.sets) = 1
      BY <2>1, <2>2
    <3> QED  BY <2>2, <3>1, <3>2
  <2>4. Accumulated(Making, z, <<e>>) = Set(z, e[1], e[2])
    <3>1. Making \in [Settings \X Setting -> Settings] /\ <<>> \in Seq(Setting)
          /\ Append(<<>>, e) = <<e>>
      BY MakingType
    <3>2. Accumulated(Making, z, <<>>) = z
      BY <1>8, <3>1, AccumulatedEmpty
    <3>3. OneMore(Making, z, <<>>, e)
      BY <1>8, <2>3, <3>1, AccumulatedAppend
    <3> QED  BY <1>8, <2>3, <3>1, <3>2, <3>3, MakingType DEF OneMore
  <2>5. cfg' = UpTo(m + 1)'
    BY <1>9, <1>10, <2>1, <2>3, <2>4
  <2> QED  BY <1>1, <1>5, <1>6, <2>1, <2>5 DEF ReadSo
<1> QED  BY <1>5, <1>12, <1>13

-----------------------------------------------------------------------------
LEMMA ConfigStart ==
  ASSUME ConfigInit
  PROVE  ConfigInv
<1>1. given \in Sources /\ sources = given /\ text = <<>> /\ cfg = Defaults
  BY DEF ConfigInit
<1>2. WellGiven
  BY <1>1, SourcesAssumption DEF WellGiven
<1>3. given \in Seq(Source) /\ 0 \in 0 .. Len(given) /\ sources = SubSeq(given, 0 + 1, Len(given))
  BY <1>1, <1>2 DEF WellGiven
<1>4. FirstGoes(Settings, ReadingOf, Defaults, given, 0)
  BY <1>3, FirstSources
<1>5. ReadSo(0)
  BY <1>1, <1>3, <1>4 DEF ReadSo, UpTo, FirstGoes
<1> QED  BY <1>2, <1>3, <1>5 DEF ConfigInv

LEMMA ConfigStep ==
  ASSUME ConfigInv, [ConfigNext]_configVars
  PROVE  ConfigInv'
<1>1. WellGiven
  BY DEF ConfigInv
<1>2. PICK m \in 0 .. Len(given) : ReadSo(m)
  BY DEF ConfigInv
<1>3. given' = given
  BY DEF ConfigNext, ParseStep, NextSource, configVars
<1>4. WellGiven'
  BY <1>1, <1>3 DEF WellGiven
<1>5. CASE NextSource
  BY <1>1, <1>2, <1>3, <1>4, <1>5, NextSourceStep DEF ConfigInv
<1>6. CASE ParseStep
  <2>1. PICK file : file = given[m]
    OBVIOUS
  <2>2. PICK z : z = UpTo(m - 1)
    OBVIOUS
  <2>3. text # <<>> /\ sources' = sources
    BY <1>6 DEF ParseStep
  <2>4. m > 0 /\ file \in FileSource /\ Within(file, z)
    BY <1>2, <2>1, <2>2, <2>3 DEF ReadSo
  <2>5. WellFormed(file) /\ z \in Settings
    <3>1. given \in Seq(Source) /\ m \in 1 .. Len(given) /\ m - 1 \in 0 .. Len(given)
      BY <1>1, <2>4 DEF WellGiven
    <3>2. FirstGoes(Settings, ReadingOf, Defaults, given, m - 1)
      BY <3>1, FirstSources
    <3> QED  BY <1>1, <2>1, <2>2, <3>1, <3>2 DEF WellGiven, UpTo, FirstGoes
  <2>6. Within(file, z)'
    BY <1>6, <2>4, <2>5, ParserStep
  <2>7. given'[m] = file /\ UpTo(m - 1)' = z
    BY <1>3, <2>1, <2>2 DEF UpTo
  <2>8. ReadSo(m)'
    BY <1>2, <1>3, <2>3, <2>4, <2>6, <2>7 DEF ReadSo, Within
  <2> QED  BY <1>3, <1>4, <2>8 DEF ConfigInv
<1>7. CASE UNCHANGED configVars
  BY <1>7 DEF ConfigInv, WellGiven, ReadSo, UpTo, Within, Made, Expecting, configVars, parserVars
<1> QED  BY <1>5, <1>6, <1>7 DEF ConfigNext

LEMMA ConfigEnd ==
  ASSUME ConfigInv
  PROVE  LaterSettingsCount
<1> SUFFICES ASSUME text = <<>>, sources = <<>>
             PROVE  cfg = Accumulated(ReadingOf, Defaults, given)
  BY DEF LaterSettingsCount
<1>1. PICK m \in 0 .. Len(given) : ReadSo(m)
  BY DEF ConfigInv
<1>2. given \in Seq(Source) /\ Len(given) \in Nat
  BY DEF ConfigInv, WellGiven
<1>3. m = Len(given)
  <2>1. SubSeq(given, m + 1, Len(given)) = <<>>
    BY <1>1 DEF ReadSo
  <2>2. m < Len(given) => Len(SubSeq(given, m + 1, Len(given))) = Len(given) - m
    BY <1>2
  <2>3. Len(<<>>) = 0
    OBVIOUS
  <2>4. ~ (m < Len(given))
    BY <1>2, <2>1, <2>2, <2>3
  <2> QED  BY <1>2, <2>4
<1>4. cfg = UpTo(m)
  BY <1>1, ReadToTheEnd DEF ConfigInv
<1>5. FirstGoes(Settings, ReadingOf, Defaults, given, m)
  BY <1>2, FirstSources
<1> QED  BY <1>3, <1>4, <1>5 DEF UpTo, FirstGoes

\* Whatever files of lines that say what they mean are read, whatever errors of one
\* character stand between their settings, and whatever options come after them: once all has been read, the configuration is what the settings
\* make of it, one after the other, the system's file first and the options last
\* (cfg_parse, parseopts).
THEOREM LaterSettingsWin == ConfigSpec => []LaterSettingsCount
<1>1. ConfigInit => ConfigInv
  BY ConfigStart
<1>2. ConfigInv /\ [ConfigNext]_configVars => ConfigInv'
  BY ConfigStep
<1>3. ConfigInv => LaterSettingsCount
  BY ConfigEnd
<1> QED  BY <1>1, <1>2, <1>3, PTL DEF ConfigSpec
=============================================================================
