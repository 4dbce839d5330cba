------------------------------ MODULE LoopModes ------------------------------
(***************************************************************************)
(* What the man page promises about the order of subsongs (LOOP MODES,     *)
(* KEYBOARD CONTROL and START-AT-SUBSONG), without playlists, seeds or     *)
(* generators: which subsong may follow which when one has finished, when  *)
(* the user skips, and when the program exits.  It is the page's text, not *)
(* the code's: module MCPlayOrder says where the code departs from it.     *)
(***************************************************************************)
EXTENDS Integers

CONSTANTS Songs, DefaultSong

Song == 0 .. Songs - 1
None == -1

VARIABLES
  order,       \* "LINEAR", "SHUFFLE" or "RANDOM"
  mode,        \* "OFF", "RANGE" or "SINGLE"
  first, last, \* START-AT-SUBSONG and STOP-AFTER-SUBSONG, or None
  song,        \* the subsong that is playing, None before the first
  over,        \* the program has exited
  cause        \* of the last step: "begin", "end", "skip", "mode" or "quit"

vars == <<order, mode, first, last, song, over, cause>>

\* "The term first subsong refers to the parameter START-AT-SUBSONG if it is
\* set, or the first subsong in the file otherwise", and so on for last; and
\* in numerical order nothing follows the end of the file.
FirstSong == IF first = None THEN 0 ELSE first
LastSong == IF last = None THEN Songs - 1 ELSE last
Following(s) == (IF order = "LINEAR" THEN {s + 1} ELSE Song) \cap Song
IsLast(s) == s = LastSong \/ Following(s) = {}

Play(s) == song' = s /\ UNCHANGED <<order, mode, first, last, over>>
Exit == over' = TRUE /\ UNCHANGED <<order, mode, first, last, song>>

\* START-AT-SUBSONG: "If not specified, the default song declared in the sound
\* file will be played unless shuffle or random mode are active."
Begin ==
  /\ ~over /\ song = None /\ cause' = "begin"
  /\ \/ first # None /\ Play(first)
     \/ first = None /\ order = "LINEAR" /\ Play(DefaultSong)
     \/ first = None /\ order # "LINEAR" /\ \E s \in Song : Play(s)

\* The same subsong, the following one, the first one or the end.
Finished ==
  /\ ~over /\ song # None /\ cause' = "end"
  /\ \/ mode = "SINGLE" /\ Play(song)
     \/ /\ mode # "SINGLE" /\ ~IsLast(song)
        /\ \E s \in Following(song) : Play(s)
     \/ mode = "RANGE" /\ IsLast(song) /\ Play(FirstSong)
     \/ mode = "OFF" /\ IsLast(song) /\ Exit

Skip ==
  /\ ~over /\ song # None /\ cause' = "skip"
  /\ \/ /\ order = "LINEAR"
        /\ \E d \in {-1, 1} : Play((song + d) % Songs)
     \/ /\ order # "LINEAR"
        /\ \E s \in Song : Play(s)

ChangeMode ==
  /\ ~over /\ song # None /\ cause' = "mode"
  /\ mode' \in {"OFF", "RANGE", "SINGLE"}
  /\ UNCHANGED <<order, first, last, song, over>>

\* The user quits, or the plugout cannot prepare the subsong.
Quit == ~over /\ Exit /\ cause' = "quit"

Init ==
  /\ order \in {"LINEAR", "SHUFFLE", "RANDOM"}
  /\ mode \in {"OFF", "RANGE", "SINGLE"}
  /\ first \in Song \cup {None}
  /\ last \in Song \cup {None}
  /\ song = None
  /\ over = FALSE
  /\ cause = "begin"

Next == Begin \/ Finished \/ Skip \/ ChangeMode \/ Quit
Spec == Init /\ [][Next]_vars
=============================================================================
