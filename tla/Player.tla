-------------------------------- MODULE Player --------------------------------
(***************************************************************************)
(* The main loop of gbsplay: gbs_step measures how long the subsong has    *)
(* played and been silent, fades it out and ends it; the keys act between  *)
(* two steps.  What ends a subsong starts the next one as PlayOrder says,  *)
(* and gbs_init begins that one with a part of the state reset.            *)
(*                                                                         *)
(* Times are counted in ticks: a step of the emulation takes StepTicks, a  *)
(* second is Second ticks.                                                 *)
(***************************************************************************)
EXTENDS PlayOrder

CONSTANTS
  StepTicks,        \* what gbhw_step returns for one refresh_delay
  Second,           \* GBHW_CLOCK
  subsong_timeout,  \* -t, 0: none
  silence_timeout,  \* -T, 0: none
  fadeout, gap,     \* -f and -g, seconds
  CanLockUp,        \* whether the CPU may lock up in halt
  MaxTicks          \* bound on the time a subsong plays that has no timeout

ASSUME TimeAssumption ==
  /\ StepTicks \in Nat \ {0} /\ Second \in Nat \ {0}
  /\ subsong_timeout \in Nat /\ silence_timeout \in Nat
  /\ fadeout \in Nat /\ gap \in Nat
  /\ CanLockUp \in BOOLEAN
  /\ MaxTicks \in Nat /\ MaxTicks >= Second * subsong_timeout + StepTicks

VARIABLES
  ticks,          \* gbs->ticks
  silence_start,  \* gbs->silence_start, 0: not silent
  silent,         \* lmin = lmax and rmin = rmax as last measured
  fading,         \* gbhw_master_fade has been told to fade to 0
  locked_up,      \* the CPU is halted with interrupts disabled for good
  pause_mode

vars == <<orderVars, ticks, silence_start, silent, fading, locked_up, pause_mode>>

-----------------------------------------------------------------------------
\* Slip: the master volume of the last subsong is kept.
GbsInit_KeepFade(played, faded, stuck) ==
  /\ fading' = faded
  /\ IF pc' = "playing" THEN ticks' = 0 /\ locked_up' = FALSE
                        ELSE ticks' = played /\ locked_up' = stuck

\* The tail of a step that may have come to gbs_init: that resets the time, the
\* volume and the CPU.  The levels last measured and the start of the silence
\* stay as they are.
GbsInit(played, faded, stuck) ==
  IF pc' = "playing"
  THEN ticks' = 0 /\ fading' = FALSE /\ locked_up' = FALSE
  ELSE ticks' = played /\ fading' = faded /\ locked_up' = stuck

\* gbhw_step returns the cycles it emulated.  Once locked up it returns -1,
\* which gbs_step adds like any other: cycles_t is unsigned, so cycles < 0 is
\* never true.  (From -1 on, going down changes nothing.)
Elapsed(stuck) ==
  IF ~stuck THEN ticks + StepTicks
  ELSE IF ticks > -1 THEN ticks - 1 ELSE ticks

\* Slip: sound does not end a silence.
SilenceStart_Sticky(now, quiet) ==
  IF quiet /\ silence_start = 0 THEN now ELSE silence_start

\* silence_start as gbs_step leaves it at time now.
SilenceStart(now, quiet) ==
  IF silence_timeout = 0 THEN silence_start
  ELSE IF ~quiet THEN 0
  ELSE IF silence_start = 0 THEN now ELSE silence_start

QuietOut(now, since) ==
  since # 0 /\ (now - since) \div Second >= silence_timeout

\* The subsong timeout does not count while a single subsong is looped.
Timed == subsong_timeout # 0 /\ loop_mode # "SINGLE"
Seconds(now) == IF now < 0 THEN 0 ELSE now \div Second
TimeOut(now) == Timed /\ Seconds(now) >= subsong_timeout

\* The long fade of fadeout seconds, or the last one of 63 ms.
Fade(now) ==
  /\ Timed
  /\ \/ fadeout # 0 /\ Seconds(now) >= subsong_timeout - fadeout - gap
     \/ Seconds(now) >= subsong_timeout - gap

\* gbs_step, with the cycles until the CPU locks up, if it does, left out.
GbsStep ==
  /\ pc = "playing" /\ ~pause_mode
  /\ \E stuck \in IF CanLockUp /\ ~locked_up THEN BOOLEAN ELSE {locked_up},
        quiet \in IF locked_up THEN {silent} ELSE BOOLEAN :
       LET now == Elapsed(stuck)
           since == SilenceStart(now, quiet)
       IN  /\ Timed \/ now <= MaxTicks
           /\ silent' = quiet
           /\ silence_start' = since
           /\ IF QuietOut(now, since) \/ TimeOut(now)
              THEN /\ SongEnds
                   /\ GbsInit(now, fading, stuck)
              ELSE /\ ticks' = now
                   /\ fading' = (fading \/ Fade(now))
                   /\ locked_up' = stuck
                   /\ UNCHANGED orderVars
  /\ UNCHANGED pause_mode

\* Setting up, building a playlist, and the keys n and p end in gbs_init.
Choose ==
  /\ Internal \/ KeyNext \/ KeyPrev
  /\ GbsInit(ticks, fading, locked_up)
  /\ UNCHANGED <<silence_start, silent, pause_mode>>

Command ==
  /\ KeyLoop \/ KeyQuit
  /\ UNCHANGED <<ticks, silence_start, silent, fading, locked_up, pause_mode>>

\* toggle_pause: while paused, step_emulation sleeps instead of calling gbs_step.
TogglePause ==
  /\ UserKeys /\ pc = "playing"
  /\ pause_mode' = ~pause_mode
  /\ UNCHANGED <<orderVars, ticks, silence_start, silent, fading, locked_up>>

Init ==
  /\ OrderInit
  /\ ticks = 0
  /\ silence_start = 0
  /\ silent = FALSE
  /\ fading = FALSE
  /\ locked_up = FALSE
  /\ pause_mode = FALSE

Next == GbsStep \/ Choose \/ Command \/ TogglePause

Spec == Init /\ [][Next]_vars

\* The main loop calls gbs_step again and again while it is not paused.
FairSpec == Spec /\ WF_vars(GbsStep) /\ WF_vars(Choose /\ Internal)

-----------------------------------------------------------------------------
\* A fade belongs to the end of the subsong that plays: it has been started
\* late in this subsong, not left over from the one before, however that one
\* was ended (gbs_step and gbs_init's reset of the master volume).
FadesOnlyLate ==
  fading /\ pc = "playing" =>
    /\ subsong_timeout # 0
    /\ Seconds(ticks) >= subsong_timeout - fadeout - gap
    /\ ticks > 0

\* Loop mode none once no key is pressed any more: wherever the keys have left
\* the player, in a fade or a silence, the subsongs end one after the other, and
\* so does the program (man page, LOOP MODES).
Undisturbed == <>[][GbsStep \/ (Choose /\ Internal)]_vars
PlaysToTheEnd ==
  Undisturbed
  /\ <>[](loop_mode = "OFF" /\ play_mode = "LINEAR" /\ ~pause_mode
          /\ subsong_timeout # 0) =>
    <>(pc \in {"exit", "failed"})

\* gbs_step: "CPU locked up (halt with interrupts disabled)", return false:
\* a locked up CPU ends the playback.
LockupEndsPlayback == locked_up ~> ~locked_up \/ pc = "exit"
=============================================================================
