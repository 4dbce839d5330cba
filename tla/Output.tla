-------------------------------- MODULE Output --------------------------------
(***************************************************************************)
(* The player's side of a realtime output plugin (player.c): callback hands *)
(* a block of frames to sound_write, which returns when it has got rid of  *)
(* all of it; between two calls the player may be paused, be resumed, or   *)
(* begin another subsong.  What the plugin and its device do is left to    *)
(* the modules that extend this one, each with a record dev of its own.    *)
(*                                                                         *)
(* Frames are numbered in the order of the stream.                         *)
(***************************************************************************)
EXTENDS Integers, FiniteSets

CONSTANTS
  Drivers,   \* names of output plugins
  Blocks,    \* numbers of frames in a call of sound_write
  MaxFrames  \* bound on the frames of a subsong

ASSUME OutputAssumption ==
  /\ Blocks \subseteq Nat \ {0} /\ MaxFrames \in Nat

VARIABLES
  driver,  \* the plugin that select_plugin has chosen
  left,    \* frames of the block that sound_write has not dealt with
  taken,   \* frames taken over or given up: the next one is taken + 1
  gone,    \* frames given up
  heard,   \* the last frame that the device has made audible for the first time
  dry,     \* since then it has played nothing new, or it has not begun
  paused,  \* pause_mode
  dev      \* the plugin's variables and its device

stream == <<taken, gone, heard, dry>>
outputVars == <<driver, left, stream, paused, dev>>

-----------------------------------------------------------------------------
\* The block has n frames less to deal with, which the plugin has taken; some of
\* them the device misses.
TookBut(n, missed) ==
  /\ left' = left - n
  /\ taken' = taken + n
  /\ gone' = gone \cup missed
  /\ UNCHANGED <<driver, heard, dry, paused>>

Took(n) == TookBut(n, {})

\* sound_write returns although frames are left.  Nobody looks at its result.
GiveUp ==
  /\ left' = 0
  /\ taken' = taken + left
  /\ gone' = gone \cup (taken + 1 .. taken + left)
  /\ UNCHANGED <<driver, heard, dry, paused>>

Unheard == (heard + 1 .. taken) \ gone

\* The device makes frame k audible, and it has been heard, or its turn is over,
\* if it is not one of those that wait.
Sounds(k) ==
  /\ heard' = IF k \in Unheard THEN k ELSE heard
  /\ dry' = (k \notin Unheard)
  /\ UNCHANGED <<driver, left, taken, gone, paused>>

\* callback: a block is full.
WriteBlock(n) ==
  /\ left = 0 /\ ~paused
  /\ taken + n <= MaxFrames
  /\ left' = n
  /\ UNCHANGED <<driver, stream, paused, dev>>

\* toggle_pause, between two steps of the emulation, with sound_pause.
TogglePause(dev1) ==
  /\ left = 0
  /\ paused' = ~paused
  /\ dev' = dev1
  /\ UNCHANGED <<driver, left, stream>>

OutputTypeOK ==
  /\ driver \in Drivers
  /\ left \in Nat /\ taken \in Nat /\ heard \in 0 .. taken
  /\ gone \subseteq 1 .. taken
  /\ paused \in BOOLEAN /\ dry \in BOOLEAN
=============================================================================
