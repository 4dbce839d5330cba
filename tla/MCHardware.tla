------------------------------ MODULE MCHardware ------------------------------
(***************************************************************************)
(* Five parts of the machine for TLC, one of which a behaviour is about:   *)
(* the sound channels, what they add up to, the memory map, the clock of   *)
(* the sound buffer, and emulated time.  No step of one reads the state of *)
(* another.                                                                *)
(***************************************************************************)
EXTENDS MCApu, MCMixer, MCMapper, ImpulseBuffer, MCHwStep

VARIABLE part   \* "channels", "mixer", "memory", "buffer" or "time"

hardwareVars == <<allVars, mixerVars, mapperVars, bufferVars, allHwVars, part>>

\* Without the part "time" its CPU has stopped.
NoTime ==
  /\ vblankctr = VblankTc /\ tac_on = FALSE
  /\ timerctr = 0 /\ timertc = (CHOOSE tc \in TimerTcs : TRUE)
  /\ tima = 0 /\ tma = (CHOOSE v \in Tmas : TRUE) /\ requested = {} /\ enabled = {}
  /\ ime = FALSE /\ halted = TRUE /\ stopped = FALSE
  /\ pc = "done" /\ total = -1 /\ cycles = 0 /\ maxcycles = 0
  /\ io_written = FALSE /\ frame = 0

\* The variables of the other parts keep one of their initial values.
HardwareInit ==
  /\ MCInit /\ MCMixerInit /\ MapperInit /\ BufferInit
  /\ part \in {"channels", "mixer", "memory", "buffer", "time"}
  /\ IF part = "time" THEN MCHwInit ELSE NoTime
  /\ part # "channels" => used = 0
  /\ part # "mixer" => mix = Initially({})
  /\ part # "memory" => file = Opened("gbs", 24, 2, 1, FALSE)

HardwareNext ==
  /\ UNCHANGED part
  /\ \/ /\ part = "channels" /\ MCNext
        /\ UNCHANGED <<mixerVars, mapperVars, bufferVars, allHwVars>>
     \/ /\ part = "mixer" /\ MixerNext
        /\ UNCHANGED <<allVars, mapperVars, bufferVars, allHwVars>>
     \/ /\ part = "memory" /\ MapperNext
        /\ UNCHANGED <<allVars, mixerVars, bufferVars, allHwVars>>
     \/ /\ part = "buffer" /\ BufferNext
        /\ UNCHANGED <<allVars, mixerVars, mapperVars, allHwVars>>
     \/ /\ part = "time" /\ MCHwNext
        /\ UNCHANGED <<allVars, mixerVars, mapperVars, bufferVars>>

\* Sequencer steps come from emulated time; gbhw_step is a loop, and gbs_step calls
\* it again and again.
HardwareSpec ==
  /\ HardwareInit /\ [][HardwareNext]_hardwareVars
  /\ WF_vars(part = "channels" /\ SequencerStep)
  /\ WF_hwVars(part = "time" /\ Work)
  /\ WF_hwVars(part = "time" /\ Call)
=============================================================================
