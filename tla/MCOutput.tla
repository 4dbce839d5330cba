------------------------------- MODULE MCOutput -------------------------------
(***************************************************************************)
(* All realtime output plugins, one of them chosen at the start.           *)
(***************************************************************************)
EXTENDS DirectSound, PipeWire, BlockingOutput

OutputInit ==
  /\ driver \in Drivers
  /\ left = 0 /\ taken = 0 /\ gone = {} /\ heard = 0 /\ dry = TRUE
  /\ paused = FALSE
  /\ dev = CASE driver = "dsound" -> NewRing
             [] driver = "pipewire" -> NewStream
             [] OTHER -> NewDevice

OutputNext ==
  \/ \E n \in Blocks : WriteBlock(n)
  \/ driver = "dsound" /\ RingNext
  \/ driver = "pipewire" /\ StreamNext
  \/ driver \notin {"dsound", "pipewire"} /\ DeviceNext

\* The plugins' loops go on, the devices play, and a suspended one can be resumed.
\* dsound_write asks many times while the ring is played once, so that it cannot
\* miss for ever the moments at which there is room: strong fairness of Ask.
OutputFairness ==
  /\ SF_outputVars(driver = "dsound" /\ Ask)
  /\ WF_outputVars(driver = "dsound" /\ Copy)
  /\ WF_outputVars(driver = "dsound" /\ RingSounds)
  /\ WF_outputVars(driver = "pipewire" /\ \E requested \in 0 .. MaxSize : Fill(requested))
  /\ WF_outputVars(driver = "pipewire" /\ StreamSounds)
  /\ WF_outputVars(driver \notin {"dsound", "pipewire"} /\ DeviceSounds)
  /\ WF_outputVars(driver \notin {"dsound", "pipewire"}
               /\ (BlockingWrite \/ Prepare \/ Resume \/ NasWrite \/ SdlWrite))

OutputSpec == OutputInit /\ [][OutputNext]_outputVars /\ OutputFairness

Queue == INSTANCE SampleQueue

PlaysInOrder == Queue!Init /\ [][Queue!Next]_stream

WriteEnds == left > 0 ~> left = 0
=============================================================================
