------------------------------- MODULE MCPlayer -------------------------------
(***************************************************************************)
(* Instances of Player for TLC, with a history variable that measures the  *)
(* silence of the subsong that plays from outside.                         *)
(***************************************************************************)
EXTENDS Player

VARIABLES
  quiet,   \* ticks of silence since the first silent step of this subsong
  hush     \* that step has been: the subsong is silent now

allVars == <<vars, quiet, hush>>

MCDraw == [s \in Seed |-> [n \in 1 .. Songs - 1 |-> s % n]]
AnySubsong == Song \cup {-1}

Listen ==
  IF GbsStep /\ pc' = "playing" /\ ticks' > ticks
  THEN /\ hush' = silent'
       /\ quiet' = IF hush /\ silent' THEN quiet + StepTicks ELSE 0
  ELSE IF pc' = "playing" /\ ticks' = 0
  THEN quiet' = 0 /\ hush' = FALSE
  ELSE UNCHANGED <<quiet, hush>>

MCInit == Init /\ quiet = 0 /\ hush = FALSE
MCSpec == MCInit /\ [][Next /\ Listen]_allVars

\* FairSpec of Player, for the larger state.
FairMCSpec ==
  /\ MCSpec
  /\ WF_allVars(GbsStep /\ Listen)
  /\ WF_allVars(Choose /\ Internal /\ Listen)

\* The player leaves a subsong by itself only when it has played for the
\* subsong timeout, and is not looped, or when it has been silent for the
\* silence timeout without a break (man page, -t and -T): a silence that began
\* in the subsong before does not count against this one.
NeverSkipsEarly ==
  [][ GbsStep /\ (ticks' = 0 \/ pc' # "playing") =>
        \/ /\ subsong_timeout # 0 /\ loop_mode # "SINGLE"
           /\ ticks + StepTicks >= subsong_timeout * Second
        \/ /\ silence_timeout # 0 /\ silent'
           /\ quiet + StepTicks >= silence_timeout * Second ]_allVars
=============================================================================
