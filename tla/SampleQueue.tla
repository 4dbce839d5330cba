----------------------------- MODULE SampleQueue -----------------------------
(***************************************************************************)
(* What a realtime output plugin promises: the sound is a stream of frames *)
(* numbered from 1, and the listener hears them in this order, each once,  *)
(* without a gap but for frames that were given up after an error.         *)
(*                                                                         *)
(* A device that finds nothing to play has run dry.  It goes on with       *)
(* silence or with old frames, and not before the next new frame is it in  *)
(* step again; if it is ahead of the plugin then, it misses the frames     *)
(* whose places it has already passed.  No plugin promises that its device *)
(* does not run dry: the program may be slow.                              *)
(***************************************************************************)
EXTENDS Integers

VARIABLES
  taken,  \* frames the plugin has been given
  gone,   \* those of them that are not heard in their turn
  heard,  \* the last frame heard
  dry     \* since then the device has found nothing new, or it has not begun

vars == <<taken, gone, heard, dry>>

Waiting == (heard + 1 .. taken) \ gone

Init == taken = 0 /\ gone = {} /\ heard = 0 /\ dry = TRUE

\* The plugin takes some frames over.
Take == taken' > taken /\ UNCHANGED <<gone, heard, dry>>

\* It reports an error, and what it has not taken of the block is given up.
Lose ==
  /\ taken' > taken
  /\ gone' = gone \cup (taken + 1 .. taken')
  /\ UNCHANGED <<heard, dry>>

Hear ==
  /\ heard' \in Waiting
  /\ (heard + 1 .. heard' - 1) \subseteq gone
  /\ dry' = FALSE
  /\ UNCHANGED <<taken, gone>>

RunDry == Waiting = {} /\ dry' = TRUE /\ UNCHANGED <<taken, gone, heard>>

\* The plugin takes some frames over, and the dry device is past the first of them.
Miss ==
  /\ dry /\ Waiting = {}
  /\ taken' > taken
  /\ \E k \in taken + 1 .. taken' - 1 : gone' = gone \cup (taken + 1 .. k)
  /\ UNCHANGED <<heard, dry>>

\* A new subsong: the stream begins again, and nothing of the old one is left.
Restart == taken' = 0 /\ gone' = {} /\ heard' = 0 /\ dry' = TRUE

Next == Take \/ Lose \/ Hear \/ RunDry \/ Miss \/ Restart

Spec == Init /\ [][Next]_vars
=============================================================================
