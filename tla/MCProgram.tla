------------------------------ MODULE MCProgram ------------------------------
(***************************************************************************)
(* Three parts of the program for TLC, one of which a behaviour is about:  *)
(* the player's loop, the reading of the configuration before it, and the  *)
(* terminal around it.  No step of one reads the state of another.         *)
(***************************************************************************)
EXTENDS MCPlayer, MCConfig, Terminal

\* All files are of lines that say what they mean.
ASSUME SourcesAssumption ==
  \A all \in Sources : all \in Seq(Source) /\ \A i \in 1 .. Len(all) : WellFormed(all[i])

VARIABLE part   \* "player", "configuration" or "terminal"

programVars == <<allVars, configVars, terminalVars, part>>

\* The variables of the other parts keep one of their initial values.
ProgramInit ==
  /\ part \in {"player", "configuration", "terminal"}
  /\ IF part = "player" THEN MCInit
     ELSE MCInit /\ play_mode = "SHUFFLE" /\ subsong_start = -1 /\ random_seed = 0
  /\ part = "configuration" \/ given = NothingSet
  /\ ConfigInit
  /\ TerminalInit /\ (part = "terminal" \/ tty)

ProgramNext ==
  /\ UNCHANGED part
  /\ \/ part = "player" /\ Next /\ Listen /\ UNCHANGED <<configVars, terminalVars>>
     \/ part = "configuration" /\ ConfigNext /\ UNCHANGED <<allVars, terminalVars>>
     \/ part = "terminal" /\ TerminalNext /\ UNCHANGED <<allVars, configVars>>

\* The fairness of FairMCSpec: the main loop goes on.
ProgramSpec ==
  /\ ProgramInit /\ [][ProgramNext]_programVars
  /\ WF_allVars(part = "player" /\ GbsStep /\ Listen)
  /\ WF_allVars(part = "player" /\ Choose /\ Internal /\ Listen)
=============================================================================
