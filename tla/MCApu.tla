-------------------------------- MODULE MCApu --------------------------------
(***************************************************************************)
(* Apu for TLC: a program that uses one of the channels, or none, or a     *)
(* player that fades.  No step lets a channel look at another one, so that *)
(* this shows what two channels together would.  Channel 0 is used with    *)
(* its sweep at a constant volume: its envelope and its length are those   *)
(* of the channels 1 and 3.                                                *)
(***************************************************************************)
EXTENDS Apu

CONSTANT Uses   \* what is used: channels, or Fading

Fading == 4

VARIABLE used

allVars == <<vars, used>>

\* Short length counters, the longest one that of the wave channel.
MCLenPeriod == [c \in Channel |-> IF c = Wave THEN 4 ELSE 3]

MCInit == Init /\ used \in Uses
MCNext ==
  /\ \/ \E c \in Channel \ {0} : used = c /\ WriteTo(c)
     \/ used = 0 /\ WriteToTone
     \/ used = 0 /\ \E vol \in Volumes : WriteEnvelope(0, vol, "down", 0)
     \/ used = Wave /\ WriteToWave
     \/ used # Fading /\ (PowerOn \/ PowerOff)
     \/ used = Fading /\ Fade
     \/ SequencerStep \/ NextSubsong
  /\ UNCHANGED used
=============================================================================
