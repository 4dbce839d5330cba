---------------------------- MODULE BlockingOutput ----------------------------
(***************************************************************************)
(* The plugins whose device has a queue of its own and a call that waits   *)
(* for room in it: plugout_alsa.c, which repairs a stream that has run dry  *)
(* or been suspended and tries again, plugout_nas.c, which tries again     *)
(* while its piece does not fit, and those that only call write or         *)
(* pa_simple_write (plugout_devdsp.c, plugout_pulse.c, plugout_stdout.c);  *)
(* and plugout_sdl.c, whose queue has no end and which only sleeps a while. *)
(*                                                                         *)
(* The device is external: it plays what is queued, it may run dry, be     *)
(* suspended, or fail, and a waiting call may be interrupted by a signal.  *)
(***************************************************************************)
EXTENDS Output, Sequences

CONSTANTS
  Room,      \* frames that the device's queue holds (not SDL's)
  Piece,     \* maxlen of nas_write, in frames
  MaxErrors  \* bound on the errors of a device

ASSUME DeviceAssumption ==
  /\ Room \in Nat \ {0} /\ Piece \in 1 .. Room /\ MaxErrors \in Nat

\* What is queued, the state of an ALSA stream, what a call in progress has
\* transferred, and the errors so far.
NewDevice == [queue |-> <<>>, state |-> "running", sent |-> 0, errors |-> 0]

Numbers(n) == [i \in 1 .. n |-> taken + i]

\* n frames go to the device.
Transfer(n, dev1) ==
  /\ Took(n)
  /\ dev' = [dev1 EXCEPT !.queue = @ \o Numbers(n)]

Fails(state) == [dev EXCEPT !.state = state, !.sent = 0, !.errors = @ + 1]

\* The device plays the next frame.
DeviceSounds ==
  /\ dev.queue # <<>> /\ dev.state = "running"
  /\ driver = "alsa" => ~paused
  /\ Sounds(Head(dev.queue))
  /\ dev' = [dev EXCEPT !.queue = Tail(@)]

\* alsa_pause (DeviceSounds); the others have no such function.
DevicePause == TogglePause(dev)

-----------------------------------------------------------------------------
\* snd_pcm_writei, pa_simple_write or write, which wait for room.
BlockingWrite ==
  /\ driver \in {"alsa", "write"}
  /\ left > 0 /\ dev.state = "running" /\ Len(dev.queue) < Room
  /\ Transfer(1, [dev EXCEPT !.sent = IF left = 1 THEN 0 ELSE @ + 1])

\* They return early, having transferred less than they were asked to.
ShortWrite ==
  /\ driver \in {"alsa", "write"}
  /\ left > 0 /\ dev.sent > 0 /\ dev.errors < MaxErrors
  /\ GiveUp
  /\ dev' = Fails(dev.state)

\* The stream has run dry, or the machine was suspended.
Disturbed ==
  /\ driver = "alsa" /\ dev.state = "running" /\ dev.errors < MaxErrors
  /\ dev.sent = 0
  /\ \/ dev.queue = <<>> /\ dev' = Fails("xrun")
     \/ dev' = Fails("suspended")
  /\ UNCHANGED <<driver, left, stream, paused>>

\* alsa_write: snd_pcm_prepare after EPIPE, and the loop goes on.
Prepare ==
  /\ left > 0 /\ dev.state = "xrun"
  /\ dev' = [dev EXCEPT !.state = "running"]
  /\ UNCHANGED <<driver, left, stream, paused>>

\* It calls snd_pcm_resume until the stream is no longer suspended.
Resume ==
  /\ left > 0 /\ dev.state = "suspended"
  /\ dev' = [dev EXCEPT !.state = "running"]
  /\ UNCHANGED <<driver, left, stream, paused>>

\* nas_write: AuWriteElement takes a piece or, if it does not fit, nothing.
NasWrite ==
  /\ driver = "nas" /\ left > 0
  /\ LET n == IF left > Piece THEN Piece ELSE left
     IN  /\ Len(dev.queue) + n <= Room
         /\ Transfer(n, dev)

\* sdl_write: it sleeps once, for as long as what is overqueued should last, and
\* queues the whole block, however much has been played by then.
SdlWrite ==
  /\ driver = "sdl" /\ left > 0
  /\ Transfer(left, dev)

\* Any other error: the rest of the block is given up.
Error ==
  /\ left > 0 /\ dev.state = "running" /\ dev.errors < MaxErrors
  /\ GiveUp
  /\ dev' = Fails("running")

DeviceNext ==
  \/ DeviceSounds \/ DevicePause \/ BlockingWrite \/ ShortWrite \/ Disturbed
  \/ Prepare \/ Resume \/ NasWrite \/ SdlWrite \/ Error
=============================================================================
