------------------------------- MODULE PipeWire -------------------------------
(***************************************************************************)
(* plugout_pipewire.c: pipewire_write fills the buffers of a stream, three *)
(* of them, which the server's thread empties and returns.  It sleeps while *)
(* none is free, and gives up the block, and the buffer with it, when one  *)
(* has no memory.                                                          *)
(*                                                                         *)
(* The server is external: it plays the queued buffers in their order while *)
(* the stream is active, and may ask for fewer frames than a buffer holds. *)
(***************************************************************************)
EXTENDS Output, Sequences

CONSTANTS
  Buffers,   \* SPA_PARAM_BUFFERS_buffers
  MaxSize,   \* frames that a buffer holds, maxsize / STRIDE
  MaxFaults  \* bound on the buffers without memory

ASSUME StreamAssumption ==
  Buffers \in Nat \ {0} /\ MaxSize \in Nat \ {0} /\ MaxFaults \in Nat

\* Buffers to be dequeued, those queued (the frames from first to last of
\* each), those that have been dequeued and forgotten, and whether the stream
\* is active.
NewStream == [free |-> Buffers, queue |-> <<>>, leaked |-> 0, active |-> TRUE]

\* n_frames: the server's wish, if it has one, the buffer, and what is left.
Frames(requested) ==
  LET wish == IF requested # 0 /\ requested < MaxSize THEN requested ELSE MaxSize
  IN  IF wish < left THEN wish ELSE left

\* One round of the loop of pipewire_write: a buffer is dequeued, filled and queued.
Fill(requested) ==
  /\ left > 0 /\ dev.free > 0
  /\ LET n == Frames(requested)
     IN  /\ Took(n)
         /\ dev' = [dev EXCEPT !.free = @ - 1,
                               !.queue = Append(@, <<taken + 1, taken + n>>)]

\* A buffer without memory is not queued again, and the loop ends.
NoMemory ==
  /\ left > 0 /\ dev.free > 0 /\ dev.leaked < MaxFaults
  /\ GiveUp
  /\ dev' = [dev EXCEPT !.free = @ - 1, !.leaked = @ + 1]

\* The server plays a frame of the first buffer, and returns it after its last.
StreamSounds ==
  /\ dev.active /\ dev.queue # <<>>
  /\ LET b == Head(dev.queue)
     IN  /\ Sounds(b[1])
         /\ dev' = IF b[1] = b[2]
                   THEN [dev EXCEPT !.queue = Tail(@), !.free = @ + 1]
                   ELSE [dev EXCEPT !.queue[1][1] = @ + 1]

\* pipewire_pause.
StreamPause == TogglePause([dev EXCEPT !.active = paused])

StreamNext ==
  \/ \E requested \in 0 .. MaxSize : Fill(requested)
  \/ NoMemory \/ StreamSounds \/ StreamPause
=============================================================================
