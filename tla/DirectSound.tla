------------------------------ MODULE DirectSound ------------------------------
(***************************************************************************)
(* plugout_dsound.c: a ring of frames that the device plays without end,   *)
(* whether or not they are new.  dsound_write asks for the position of the *)
(* play cursor, works out from it how much of the ring is free, and copies *)
(* that much, in two parts at the end of the ring; the device goes on      *)
(* playing meanwhile.                                                      *)
(*                                                                         *)
(* The device is external: a cursor that goes round while the buffer plays, *)
(* at a speed of its own, and a write cursor Lead frames before it.  It may *)
(* overtake the writer at any time, then plays the old frames of the ring  *)
(* again, and may be past the place of the next ones when they are copied. *)
(***************************************************************************)
EXTENDS Output

CONSTANTS
  WriteMax,  \* writeMax: frames of the ring
  Lead       \* from the play cursor to the write cursor

ASSUME RingAssumption == WriteMax \in Nat \ {0} /\ Lead \in 0 .. WriteMax - 1

NoOffset == -1

\* writeOffset, the play cursor that the last question found, the device's
\* own one, whether it plays, and the frames of the ring (0: silence).
NewRing ==
  [offset |-> NoOffset, found |-> 0, cursor |-> 0, playing |-> FALSE,
   pc |-> "ask", ring |-> [c \in 0 .. WriteMax - 1 |-> 0]]

Wrap(c) == IF c >= WriteMax THEN c - WriteMax ELSE c

WriteCursor == IF dev.playing THEN Wrap(dev.cursor + Lead) ELSE dev.cursor

\* Slip: a full ring is taken for an empty one.
Free_FullIsEmpty(offset, play) ==
  IF offset < play THEN play - offset ELSE WriteMax - (offset - play)

\* writeLimit, once something has been written: equal cursors mean full.
Free(offset, play) ==
  IF offset <= play THEN play - offset ELSE WriteMax - (offset - play)

\* Slip: it waits for room for the whole block.
Ask_Whole ==
  /\ left > 0 /\ dev.pc = "ask"
  /\ LET first == dev.offset = NoOffset
         offset == IF first THEN WriteCursor ELSE dev.offset
     IN  /\ first \/ Free(offset, dev.cursor) >= left
         /\ dev' = [dev EXCEPT !.pc = IF first THEN "first" ELSE "copy",
                               !.offset = offset, !.found = dev.cursor]
  /\ UNCHANGED <<driver, left, stream, paused>>

\* GetCurrentPosition.  With no room the loop asks again.
Ask ==
  /\ left > 0 /\ dev.pc = "ask"
  /\ LET first == dev.offset = NoOffset
         offset == IF first THEN WriteCursor ELSE dev.offset
     IN  /\ first \/ Free(offset, dev.cursor) >= 1
         /\ dev' = [dev EXCEPT !.pc = IF first THEN "first" ELSE "copy",
                               !.offset = offset, !.found = dev.cursor]
  /\ UNCHANGED <<driver, left, stream, paused>>

Limit ==
  IF dev.pc = "first" THEN WriteMax - dev.offset ELSE Free(dev.offset, dev.found)

OffsetAfter(n1, n2) == IF n2 > 0 THEN n2 ELSE Wrap(dev.offset + n1)

\* Positions that the device plays before it comes to the offset.
Ahead(c, o) == IF c <= o THEN o - c ELSE o - c + WriteMax

\* Of n frames to be copied, those whose places the device has passed while it
\* stands before the places of the others.
Passed(n) ==
  LET ahead == Ahead(dev.cursor, dev.offset)
  IN  IF ahead + n > WriteMax THEN taken + 1 .. taken + (WriteMax - ahead) ELSE {}

\* Lock, the two copies, Unlock, Play.
Copy ==
  /\ dev.pc \in {"first", "copy"}
  /\ LET n == IF left < Limit THEN left ELSE Limit
         room == WriteMax - dev.offset
         n1 == IF n < room THEN n ELSE room      \* nBuf1
         n2 == n - n1                            \* nBuf2
     IN  /\ TookBut(n, Passed(n))
         /\ dev' = [dev EXCEPT
              !.pc = "ask", !.playing = TRUE, !.offset = OffsetAfter(n1, n2),
              !.ring = [c \in 0 .. WriteMax - 1 |->
                 IF c \in dev.offset .. dev.offset + n1 - 1
                 THEN taken + 1 + (c - dev.offset)
                 ELSE IF c < n2 THEN taken + 1 + n1 + c ELSE @[c]]]

\* The device plays the frame under the cursor, new or old (DSBPLAY_LOOPING).
RingSounds ==
  /\ dev.playing
  /\ Sounds(dev.ring[dev.cursor])
  /\ dev' = [dev EXCEPT !.cursor = Wrap(@ + 1)]

\* dsound_skip: the buffer is made anew.
RingSkip ==
  /\ left = 0
  /\ dev' = NewRing
  /\ taken' = 0 /\ gone' = {} /\ heard' = 0 /\ dry' = TRUE
  /\ UNCHANGED <<driver, left, paused>>

\* dsound_pause.
RingPause == TogglePause([dev EXCEPT !.playing = paused])

RingNext == Ask \/ Copy \/ RingSounds \/ RingSkip \/ RingPause

RingTypeOK ==
  /\ dev.offset \in {NoOffset} \cup 0 .. WriteMax - 1
  /\ dev.found \in 0 .. WriteMax - 1 /\ dev.cursor \in 0 .. WriteMax - 1
  /\ dev.playing \in BOOLEAN
  /\ dev.pc \in {"ask", "first", "copy"}
  /\ dev.ring \in [0 .. WriteMax - 1 -> Nat]
=============================================================================
