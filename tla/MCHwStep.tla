------------------------------ MODULE MCHwStep -------------------------------
(***************************************************************************)
(* HwStep for TLC, with a history variable: the cycles emulated since the  *)
(* beginning of the frame, counted where sum_cycles is.                    *)
(***************************************************************************)
EXTENDS HwStep

VARIABLE frame

allHwVars == <<hwVars, frame>>

Spent == IF pc = "inner" /\ pc' = "inner" THEN cycles' - cycles ELSE 0

MCHwInit == HwInit /\ frame = 0
MCHwNext ==
  \/ HwSubsong /\ frame' = 0
  \/ /\ Work \/ Call
     /\ frame' = frame + Spent
                 - IF Account /\ vblankctr' > vblankctr - cycles THEN VblankTc ELSE 0
MCHwSpec == MCHwInit /\ [][MCHwNext]_allHwVars

\* Vertical blanks come every VblankTc cycles in the long run, although each is
\* late by part of an instruction: no cycle is lost between two of them, unless
\* the CPU is stuck.
FramesKeepTime ==
  pc # "inner" /\ ~Stuck => frame = VblankTc - vblankctr
=============================================================================
