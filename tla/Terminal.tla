------------------------------- MODULE Terminal -------------------------------
(***************************************************************************)
(* terminal_posix.c and the main function of gbsplay: the terminal is put  *)
(* into raw mode while the player runs, and signals may come between any   *)
(* two steps, those of a handler and of setup_terminal included.           *)
(*                                                                         *)
(* The shell is external: it may set the terminal to its own mode while    *)
(* the player is stopped, and back to the player's when it goes on.        *)
(***************************************************************************)
EXTENDS Integers, Sequences

CONSTANTS
  Signals,    \* a subset of {"TERM", "STOP", "CONT"}, TERM for INT and SEGV, too
  MaxSignals, \* bound on their number
  SkipMayExit \* whether a plugin may fail to go on to another subsong

ASSUME TerminalAssumption ==
  /\ Signals \subseteq {"TERM", "STOP", "CONT"}
  /\ MaxSignals \in Nat /\ SkipMayExit \in BOOLEAN

VARIABLES
  tty,        \* whether the standard input is a terminal, or a pipe or a file
  raw,        \* whether the terminal is in raw mode
  nonblock,   \* O_NONBLOCK of the standard input's file description
  ots, terminit,
  handlers,   \* setup_handlers has been called
  calls,      \* the functions that are active, the innermost first: where each
              \* is, and the signal that it handles
  life,       \* "running", "stopped" or "exited"
  pending,    \* SIGCONT has come while its handler ran
  signals     \* how many have come

modeVars == <<raw, nonblock, ots, terminit>>
terminalVars == <<tty, modeVars, handlers, calls, life, pending, signals>>

-----------------------------------------------------------------------------
At(pc) == life = "running" /\ calls[1].pc = pc
GoTo(pc) == calls' = [calls EXCEPT ![1].pc = pc]

\* A handler's signal that is pending is handled when it returns.
Return ==
  LET again == calls[1].signal = "CONT" /\ pending
  IN  /\ calls' = IF again THEN [calls EXCEPT ![1].pc = "setup"] ELSE Tail(calls)
      /\ pending' = (pending /\ ~again)

Enter(pc, signal) == calls' = <<[pc |-> pc, signal |-> signal]>> \o calls

\* setup_terminal, step by step.
SetupHandlers ==
  /\ At("setup")
  /\ handlers' = TRUE
  /\ GoTo("save")
  /\ UNCHANGED <<modeVars, life, pending, signals>>

\* Slip: the terminal is set up only once.
SaveMode_Once ==
  /\ At("save")
  /\ ots' = (IF terminit \/ ~tty THEN ots ELSE raw)
  /\ IF terminit \/ ~tty THEN Return ELSE GoTo("raw") /\ UNCHANGED pending
  /\ UNCHANGED <<raw, nonblock, terminit, handlers, life, signals>>

\* tcgetattr fails, and that is all, if there is no terminal.
SaveMode ==
  /\ At("save")
  /\ \/ tty /\ ots' = raw /\ GoTo("raw") /\ UNCHANGED pending
     \/ ~tty /\ Return /\ UNCHANGED ots
  /\ UNCHANGED <<raw, nonblock, terminit, handlers, life, signals>>

SetRaw ==
  /\ At("raw")
  /\ raw' = TRUE
  /\ GoTo("nonblock")
  /\ UNCHANGED <<nonblock, ots, terminit, handlers, life, pending, signals>>

SetNonblock ==
  /\ At("nonblock")
  /\ nonblock' = TRUE
  /\ GoTo("terminit")
  /\ UNCHANGED <<raw, ots, terminit, handlers, life, pending, signals>>

SetTerminit ==
  /\ At("terminit")
  /\ terminit' = TRUE
  /\ Return
  /\ UNCHANGED <<raw, nonblock, ots, handlers, life, signals>>

\* restore_terminal, and then the end of main or of exit_handler.
Restore ==
  /\ At("restore")
  /\ raw' = IF terminit THEN ots ELSE raw
  /\ life' = "exited"
  /\ UNCHANGED <<nonblock, ots, terminit, handlers, calls, pending, signals>>

\* main: the terminal is set up before the loop and restored behind it.
Main ==
  /\ At("main")
  /\ calls' = <<[pc |-> "setup", signal |-> "none"], [pc |-> "loop", signal |-> "none"]>>
  /\ UNCHANGED <<modeVars, handlers, life, pending, signals>>

Quit ==
  /\ At("loop")
  /\ GoTo("restore")
  /\ UNCHANGED <<modeVars, handlers, life, pending, signals>>

\* play_subsong exits at once if sound_skip fails.
SkipFails ==
  /\ SkipMayExit /\ At("loop")
  /\ life' = "exited"
  /\ UNCHANGED <<modeVars, handlers, calls, pending, signals>>

-----------------------------------------------------------------------------
Comes(signal) ==
  /\ signal \in Signals /\ signals < MaxSignals
  /\ handlers
  /\ signals' = signals + 1

\* A signal is not handled while its own handler runs.
Handled(signal) == \E i \in 1 .. Len(calls) : calls[i].signal = signal

\* exit_handler
Term ==
  /\ life = "running" /\ Comes("TERM") /\ ~Handled("TERM")
  /\ Enter("restore", "TERM")
  /\ UNCHANGED <<modeVars, handlers, life, pending>>

\* SIGSTOP cannot be caught, whatever setup_handlers asks for: stop_handler is
\* not called.
Stop ==
  /\ life = "running" /\ Comes("STOP")
  /\ life' = "stopped"
  /\ UNCHANGED <<modeVars, handlers, calls, pending>>

\* The shell has the terminal.
ShellSets ==
  /\ tty /\ life = "stopped"
  /\ raw' \in BOOLEAN
  /\ UNCHANGED <<nonblock, ots, terminit, handlers, calls, life, pending, signals>>

\* cont_handler, also of a player that has not been stopped.
Cont ==
  /\ life \in {"running", "stopped"} /\ Comes("CONT")
  /\ life' = "running"
  /\ IF Handled("CONT") THEN pending' = TRUE /\ UNCHANGED calls
     ELSE Enter("setup", "CONT") /\ UNCHANGED pending
  /\ UNCHANGED <<modeVars, handlers>>

TerminalInit ==
  /\ tty \in BOOLEAN
  /\ raw = FALSE /\ nonblock = FALSE /\ ots = FALSE /\ terminit = FALSE
  /\ handlers = FALSE /\ pending = FALSE
  /\ calls = <<[pc |-> "main", signal |-> "none"]>>
  /\ life = "running" /\ signals = 0

TerminalStep ==
  \/ SetupHandlers \/ SaveMode \/ SetRaw \/ SetNonblock \/ SetTerminit \/ Restore
  \/ Main \/ Quit \/ SkipFails
  \/ Term \/ Stop \/ ShellSets \/ Cont
TerminalNext == TerminalStep /\ UNCHANGED tty

TerminalSpec == TerminalInit /\ [][TerminalNext]_terminalVars

-----------------------------------------------------------------------------
TerminalTypeOK ==
  /\ {tty, raw, nonblock, ots, terminit, handlers, pending} \subseteq BOOLEAN
  /\ \A i \in 1 .. Len(calls) :
       calls[i].pc \in {"main", "setup", "save", "raw", "nonblock", "terminit",
                        "restore", "loop"}
  /\ life \in {"running", "stopped", "exited"}
  /\ signals \in 0 .. MaxSignals

\* handleuserinput reads single keys without waiting: whenever the main loop runs
\* and the standard input is a terminal, that is in raw mode, although the shell
\* may have changed it while the player was stopped, and signals interrupt one
\* another ("honor SIGSTOP and SIGCONT signals", HISTORY).  An input that is no
\* terminal is left as it was: there the main loop waits for what it reads.
KeysArrive ==
  At("loop") => IF tty THEN raw /\ nonblock ELSE ~raw /\ ~nonblock /\ ~terminit

\* gbsplay.c, "clean up terminal": a player that has exited leaves the terminal
\* in the mode in which it has found it.
TerminalGivenBack == life = "exited" => ~raw
=============================================================================
