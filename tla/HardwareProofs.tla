--------------------------- MODULE HardwareProofs ----------------------------
(***************************************************************************)
(* Proofs about what a program's writes do to the machine, for programs    *)
(* that write any values in any order: module Apu, with length counters    *)
(* and volumes of any range, and module Mapper, with any number of banks   *)
(* of any size.  Then about what goes into the sound buffer: where an      *)
(* impulse lies, at every sample rate up to the clock rate, every block    *)
(* size and impulse width and every sequence of CPU steps (module          *)
(* ImpulseBuffer); and what levels it carries, for any periods, waves,     *)
(* gates and widths of the noise's register (module Mixer).                *)
(***************************************************************************)
EXTENDS Apu, Mapper, ImpulseBuffer, Mixer, TLAPS

-----------------------------------------------------------------------------
\* What holds of each channel by itself.
ChannelType ==
  [running: BOOLEAN, master: BOOLEAN, len: Nat, len_enable: BOOLEAN,
   len_gate: BOOLEAN, volume: Nat, env_volume: Nat, env_dir: {"down", "up"},
   env_tc: Nat, env_ctr: Nat]

Frozen(chan, c) ==
  /\ chan.len \in 0 .. LenPeriod[c] - 1
  /\ ~chan.len_gate => chan.len = 0 /\ ~chan.running

Sound(chan, c) ==
  /\ chan \in ChannelType
  /\ Frozen(chan, c)
  /\ chan.running => chan.master

Inv ==
  /\ apu_on \in BOOLEAN
  /\ ch \in [Channel -> ChannelType]
  /\ \A c \in Channel : Sound(ch[c], c)
  /\ \A c \in Channel : ch[c].running => apu_on

LEMMA Lengths ==
  ASSUME NEW c \in Channel
  PROVE  LenPeriod[c] \in Nat /\ LenPeriod[c] >= 2
BY PeriodAssumption

\* A clock may end the note, and freezes the counter only together with it.
LEMMA ClockLenSound ==
  ASSUME NEW c \in Channel, NEW chan, Sound(chan, c)
  PROVE  /\ Sound(ClockLen(chan, c), c)
         /\ ClockLen(chan, c).running => chan.running
         /\ ClockLen(chan, c).master = chan.master
<1>1. CASE ~(chan.len_enable /\ chan.len_gate)
  BY <1>1 DEF ClockLen
<1>2. CASE chan.len_enable /\ chan.len_gate /\ (chan.len + 1) % LenPeriod[c] = 0
  <2> DEFINE after == [chan EXCEPT !.len = 0, !.env_volume = 0, !.env_tc = 0,
                                   !.running = FALSE, !.len_gate = FALSE]
  <2>1. ClockLen(chan, c) = after
    BY <1>2 DEF ClockLen
  <2>2. after \in ChannelType /\ after.len = 0 /\ ~after.running /\ after.master = chan.master
    BY DEF Sound, ChannelType
  <2> HIDE DEF after
  <2> QED  BY <2>1, <2>2, Lengths DEF Sound, Frozen
<1>3. CASE chan.len_enable /\ chan.len_gate /\ (chan.len + 1) % LenPeriod[c] # 0
  <2> DEFINE after == [chan EXCEPT !.len = @ + 1]
  <2>1. ClockLen(chan, c) = after
    BY <1>3 DEF ClockLen
  <2>2. /\ after \in ChannelType /\ after.len = chan.len + 1
        /\ after.len_gate /\ after.running = chan.running /\ after.master = chan.master
    BY <1>3 DEF Sound, ChannelType
  <2>3. chan.len + 1 # LenPeriod[c]
    BY <1>3, Lengths
  <2>4. chan.len + 1 \in 0 .. LenPeriod[c] - 1
    BY <2>3, Lengths DEF Sound, Frozen
  <2> HIDE DEF after
  <2> QED  BY <2>1, <2>2, <2>4 DEF Sound, Frozen
<1> QED  BY <1>1, <1>2, <1>3

\* The clock of the trigger that thaws a counter never ends the note: a frozen
\* counter is at 0.
LEMMA TriggerSound ==
  ASSUME NEW c \in Channel, NEW chan, Sound(chan, c), NEW on \in BOOLEAN
  PROVE  Sound(Trigger(chan, c, on), c)
<1> DEFINE thawed == [chan EXCEPT !.len_enable = on, !.len_gate = TRUE,
                                  !.env_volume = chan.volume]
           clocks == ~chan.len_gate /\ chan.len_enable /\ on /\ FirstHalf
           clocked == IF clocks THEN ClockLen(thawed, c) ELSE thawed
<1>1. /\ thawed \in ChannelType /\ thawed.len = chan.len /\ thawed.len_gate
      /\ thawed.running = chan.running /\ thawed.master = chan.master
  BY DEF Sound, ChannelType
<1>2. Sound(thawed, c)
  BY <1>1 DEF Sound, Frozen
<1>3. Sound(clocked, c) /\ clocked.len_gate
  <2>1. CASE ~clocks
    BY <2>1, <1>1, <1>2
  <2>2. CASE clocks
    <3>1. thawed.len = 0
      BY <2>2, <1>1 DEF Sound, Frozen
    <3>2. (thawed.len + 1) % LenPeriod[c] # 0
      <4>1. 1 % LenPeriod[c] = 1
        BY Lengths
      <4> QED  BY <3>1, <4>1
    <3>3. ClockLen(thawed, c).len_gate
      BY <1>1, <3>2 DEF ClockLen, ChannelType
    <3>4. Sound(ClockLen(thawed, c), c)
      BY <1>2, ClockLenSound
    <3>5. clocked = ClockLen(thawed, c)
      BY <2>2
    <3> QED  BY <3>3, <3>4, <3>5
  <2> QED  BY <2>1, <2>2
<1>4. Trigger(chan, c, on) = [clocked EXCEPT !.running = @ \/ clocked.master]
  BY DEF Trigger
<1> HIDE DEF clocked
<1>5. Sound([clocked EXCEPT !.running = @ \/ clocked.master], c)
  BY <1>3 DEF Sound, Frozen, ChannelType
<1> QED  BY <1>4, <1>5

LEMMA ControlSound ==
  ASSUME NEW c \in Channel, NEW chan, Sound(chan, c),
         NEW on \in BOOLEAN, NEW trigger \in BOOLEAN
  PROVE  Sound(Control(chan, c, on, trigger), c)
<1> DEFINE after == IF trigger THEN Trigger(chan, c, on)
                               ELSE [chan EXCEPT !.len_enable = on]
<1>1. Sound([chan EXCEPT !.len_enable = on], c)
  BY DEF Sound, Frozen, ChannelType
<1>2. Sound(after, c)
  BY <1>1, TriggerSound
<1>3. Control(chan, c, on, trigger) \in {after, ClockLen(after, c)}
  BY DEF Control
<1> HIDE DEF after
<1> QED  BY <1>2, <1>3, ClockLenSound

LEMMA EnvelopeSound ==
  ASSUME NEW c \in Channel, NEW chan, Sound(chan, c)
  PROVE  /\ Sound(ClockEnvelope(chan), c)
         /\ ClockEnvelope(chan).running => chan.running
<1> DEFINE after == ClockEnvelope(chan)
<1>1. MaxVol \in Nat
  BY PeriodAssumption
<1>2. chan \in ChannelType
  BY DEF Sound
<1>3. /\ after \in ChannelType /\ after.len = chan.len
      /\ after.len_gate = chan.len_gate
      /\ after.running = chan.running /\ after.master = chan.master
  <2>1. CASE chan.env_tc = 0
    BY <1>2, <2>1 DEF ClockEnvelope
  <2>2. CASE chan.env_tc # 0 /\ chan.env_ctr > 1
    BY <1>2, <2>2 DEF ClockEnvelope, ChannelType
  <2>3. CASE chan.env_tc # 0 /\ ~(chan.env_ctr > 1)
    <3> DEFINE volume == IF ~chan.running THEN chan.env_volume
                         ELSE IF chan.env_dir = "down"
                         THEN IF chan.env_volume > 0 THEN chan.env_volume - 1 ELSE chan.env_volume
                         ELSE IF chan.env_volume < MaxVol THEN chan.env_volume + 1
                                                          ELSE chan.env_volume
    <3>1. volume \in Nat
      BY <1>2 DEF ChannelType
    <3>2. after = [chan EXCEPT !.env_ctr = chan.env_tc, !.env_volume = volume]
      BY <2>3 DEF ClockEnvelope
    <3> HIDE DEF volume, after
    <3> QED  BY <1>2, <3>1, <3>2 DEF ChannelType
  <2> QED  BY <2>1, <2>2, <2>3
<1> HIDE DEF after
<1>4. Sound(after, c)
  BY <1>3 DEF Sound, Frozen
<1> QED  BY <1>3, <1>4 DEF after

\* The sequencer only ends notes.
LEMMA ClockChannelSound ==
  ASSUME Inv, NEW c \in Channel
  PROVE  /\ Sound(ClockChannel(c), c)
         /\ ClockChannel(c).running => ch[c].running
<1> DEFINE chan == [ch[c] EXCEPT !.running = @ /\ ~(c = 0 /\ SweptOut)]
<1>1. Sound(chan, c) /\ (chan.running => ch[c].running)
  BY DEF Inv, Sound, Frozen, ChannelType
<1>2. ClockChannel(c) \in {ClockLen(chan, c), ClockEnvelope(chan), chan}
  BY DEF ClockChannel
<1> HIDE DEF chan
<1> QED  BY <1>1, <1>2, ClockLenSound, EnvelopeSound

-----------------------------------------------------------------------------
LEMMA ResetSound ==
  ASSUME NEW c \in Channel
  PROVE  /\ Sound(ResetChannel, c) /\ ~ResetChannel.running
         /\ Sound(InitChannel(c), c) /\ ~InitChannel(c).running
<1>1. Sound(ResetChannel, c) /\ ~ResetChannel.running
  BY Lengths DEF ResetChannel, Sound, Frozen, ChannelType
<1>2. Sound(InitChannel(c), c) /\ ~InitChannel(c).running
  <2> DEFINE chan == InitChannel(c)
  <2>1. LenPeriod[c] - 1 \in Nat /\ LenPeriod[c] - 1 \in 0 .. LenPeriod[c] - 1
    BY Lengths
  <2>2. /\ chan \in ChannelType /\ chan.len = LenPeriod[c] - 1
        /\ chan.len_gate /\ ~chan.running
    BY <2>1 DEF ResetChannel, InitChannel, ChannelType
  <2> HIDE DEF chan
  <2>3. Sound(chan, c) /\ ~chan.running
    BY <2>1, <2>2 DEF Sound, Frozen
  <2> QED  BY <2>3 DEF chan
<1> QED  BY <1>1, <1>2

\* A write to one channel's register.
LEMMA OneChannel ==
  ASSUME Inv, apu_on, apu_on' = apu_on, NEW c \in Channel, NEW chan,
         Sound(chan, c), ch' = [ch EXCEPT ![c] = chan]
  PROVE  Inv'
<1>1. chan \in ChannelType
  BY DEF Sound
<1> QED  BY <1>1 DEF Inv, Sound, Frozen

LEMMA SequencerInv == Inv /\ SequencerStep => Inv'
<1> SUFFICES ASSUME Inv, SequencerStep PROVE Inv'
  OBVIOUS
<1>1. ch' = [c \in Channel |-> ClockChannel(c)] /\ apu_on' = apu_on
  BY DEF SequencerStep
<1>2. \A c \in Channel : /\ Sound(ch'[c], c) /\ ch'[c] \in ChannelType
                         /\ ch'[c].running => ch[c].running
  BY <1>1, ClockChannelSound DEF Sound
<1>3. \A c \in Channel : Sound(ch[c], c)'
  BY <1>2 DEF Sound, Frozen
<1>4. ch' \in [Channel -> ChannelType]
  BY <1>1, <1>2
<1> QED  BY <1>1, <1>2, <1>3, <1>4 DEF Inv

LEMMA WriteToInv ==
  ASSUME Inv, NEW c \in Channel, WriteTo(c)
  PROVE  Inv'
<1>1. Sound(ch[c], c)
  BY DEF Inv
<1>2. ASSUME NEW n \in Lens, WriteLength(c, n) PROVE Inv'
  <2> DEFINE chan == [ch[c] EXCEPT !.len = n, !.len_gate = TRUE]
  <2>1. n \in Nat /\ n \in 0 .. LenPeriod[c] - 1
    BY WriteAssumption, <1>2, Lengths
  <2>2. /\ chan \in ChannelType /\ chan.len = n /\ chan.len_gate
        /\ chan.running = ch[c].running /\ chan.master = ch[c].master
    BY <1>1, <2>1, Lengths DEF Sound, ChannelType
  <2>3. ch' = [ch EXCEPT ![c] = chan] /\ apu_on /\ apu_on' = apu_on
    BY <1>2 DEF WriteLength, Inv
  <2>4. Sound(chan, c)
    BY <1>1, <2>1, <2>2 DEF Sound, Frozen
  <2> HIDE DEF chan
  <2> QED  BY <2>3, <2>4, OneChannel
<1>3. ASSUME NEW vol \in Volumes, NEW dir \in {"down", "up"}, NEW s \in Speeds,
             WriteEnvelope(c, vol, dir, s)
      PROVE Inv'
  <2> DEFINE chan == Envelope(ch[c], vol, dir, s)
  <2>1. vol \in Nat /\ s \in Nat
    BY WriteAssumption, PeriodAssumption
  <2>2. Sound(chan, c)
    BY <1>1, <2>1 DEF Envelope, Sound, Frozen, ChannelType
  <2>3. apu_on /\ apu_on' = apu_on
    BY <1>3 DEF WriteEnvelope, Inv
  <2>4. ch' = [ch EXCEPT ![c] = chan]
    BY <1>3 DEF WriteEnvelope
  <2> HIDE DEF chan
  <2> QED  BY <2>2, <2>3, <2>4, OneChannel
<1>4. ASSUME NEW on \in BOOLEAN, NEW trigger \in BOOLEAN,
             WriteControl(c, on, trigger)
      PROVE Inv'
  BY <1>1, <1>4, ControlSound, OneChannel DEF WriteControl
<1> QED  BY <1>2, <1>3, <1>4 DEF WriteTo

LEMMA SameChannels ==
  ASSUME Inv, UNCHANGED <<apu_on, ch>>
  PROVE  Inv'
BY DEF Inv, Sound, Frozen

LEMMA WriteToToneInv == Inv /\ WriteToTone => Inv'
<1> SUFFICES ASSUME Inv, WriteToTone PROVE Inv'
  OBVIOUS
<1>1. CASE UNCHANGED <<apu_on, ch>>
  BY <1>1, SameChannels
<1>2. ASSUME NEW hi \in His, NEW on \in BOOLEAN, NEW trigger \in BOOLEAN,
             WriteControl0(hi, on, trigger)
      PROVE Inv'
  <2> DEFINE after == Control(ch[0], 0, on, trigger)
             chan == [after EXCEPT !.running = @ /\ ~(trigger /\ Overflows(sweep'))]
  <2>1. 0 \in Channel /\ Sound(ch[0], 0)
    BY DEF Inv, Channel
  <2>2. Sound(after, 0)
    BY <2>1, ControlSound
  <2>3. ch' = [ch EXCEPT ![0] = chan] /\ apu_on /\ apu_on' = apu_on
    BY <1>2 DEF WriteControl0
  <2> HIDE DEF after
  <2>4. Sound(chan, 0)
    BY <2>2 DEF Sound, Frozen, ChannelType
  <2> HIDE DEF chan
  <2> QED  BY <2>1, <2>3, <2>4, OneChannel
<1> QED  BY <1>1, <1>2 DEF WriteToTone, WriteSweep, WriteFreqLow

LEMMA WriteToWaveInv == Inv /\ WriteToWave => Inv'
<1> SUFFICES ASSUME Inv, WriteToWave PROVE Inv'
  OBVIOUS
<1>1. Wave \in Channel /\ Sound(ch[Wave], Wave)
  BY DEF Inv, Channel, Wave
<1>2. ASSUME NEW master \in BOOLEAN, WriteWaveMaster(master) PROVE Inv'
  <2> DEFINE chan == [ch[Wave] EXCEPT !.master = master, !.running = @ /\ master]
  <2>1. Sound(chan, Wave)
    BY <1>1 DEF Sound, Frozen, ChannelType
  <2>2. ch' = [ch EXCEPT ![Wave] = chan] /\ apu_on /\ apu_on' = apu_on
    BY <1>2 DEF WriteWaveMaster, Inv
  <2> HIDE DEF chan
  <2> QED  BY <1>1, <2>1, <2>2, OneChannel
<1>3. ASSUME NEW vol \in 0 .. MaxWaveVol, WriteWaveVolume(vol) PROVE Inv'
  <2> DEFINE chan == [ch[Wave] EXCEPT !.volume = vol, !.env_volume = vol]
  <2>1. vol \in Nat
    BY PeriodAssumption
  <2>2. Sound(chan, Wave)
    BY <1>1, <2>1 DEF Sound, Frozen, ChannelType
  <2>3. ch' = [ch EXCEPT ![Wave] = chan] /\ apu_on /\ apu_on' = apu_on
    BY <1>3 DEF WriteWaveVolume, Inv
  <2> HIDE DEF chan
  <2> QED  BY <1>1, <2>2, <2>3, OneChannel
<1> QED  BY <1>2, <1>3 DEF WriteToWave

\* Every channel starts over, and none runs.
LEMMA AllReset ==
  ASSUME apu_on' \in BOOLEAN,
         \/ ch' = [c \in Channel |-> ResetChannel]
         \/ ch' = [c \in Channel |-> InitChannel(c)]
  PROVE  Inv'
<1>1. \A c \in Channel : Sound(ch'[c], c) /\ ~ch'[c].running
  BY ResetSound
<1>2. \A c \in Channel : Sound(ch[c], c)'
  BY <1>1 DEF Sound, Frozen
<1>3. ch' \in [Channel -> ChannelType]
  BY <1>1 DEF Sound
<1> QED  BY <1>1, <1>2, <1>3 DEF Inv

LEMMA InitInv == Init => Inv
<1> SUFFICES ASSUME Init PROVE Inv
  OBVIOUS
<1>1. \A c \in Channel : Sound(ch[c], c) /\ ~ch[c].running
  BY ResetSound DEF Init
<1>2. ch \in [Channel -> ChannelType]
  BY <1>1 DEF Init, Sound
<1> QED  BY <1>1, <1>2 DEF Init, Inv

LEMMA NextInv == Inv /\ [Next]_vars => Inv'
<1> SUFFICES ASSUME Inv, [Next]_vars PROVE Inv'
  OBVIOUS
<1>1. CASE UNCHANGED <<apu_on, ch>>
  BY <1>1, SameChannels
<1>2. CASE PowerOn
  BY <1>2 DEF PowerOn, Inv, Sound, Frozen
<1>3. CASE PowerOff
  BY <1>3, AllReset DEF PowerOff
<1>4. CASE NextSubsong
  BY <1>4, AllReset DEF NextSubsong
<1>5. CASE Fade
  BY <1>5, <1>1 DEF Fade, MasterFade
<1>6. CASE UNCHANGED vars
  BY <1>6, <1>1 DEF vars
<1> QED
  BY <1>2, <1>3, <1>4, <1>5, <1>6, SequencerInv, WriteToInv, WriteToToneInv,
     WriteToWaveInv DEF Next, Write

THEOREM ChannelInvariant == Spec => []Inv
BY InitInv, NextInv, PTL DEF Spec

-----------------------------------------------------------------------------
\* No order of trigger, sweep, length counter, NR52 and the volume's register lets
\* a channel run that its volume's register or NR52 has switched off (io_put).
THEOREM RunsWithMaster == Spec => []RunningHasMaster
<1>1. Inv => RunningHasMaster
  BY DEF Inv, Sound, RunningHasMaster
<1> QED  BY <1>1, ChannelInvariant, PTL

\* A channel whose length counter is frozen is off and its counter at 0, for
\* counters of any length (sequencer_update_len, and the triggers that thaw them).
THEOREM FrozenCounterIsOff == Spec => []FrozenIsOff
<1>1. Inv => FrozenIsOff
  BY DEF Inv, Sound, Frozen, FrozenIsOff
<1> QED  BY <1>1, ChannelInvariant, PTL

-----------------------------------------------------------------------------
\* What is written to the sweep unit: its divisor is never 0, and at most the
\* range of the period.
SweepType ==
  [tc: Nat, ctr: Nat, dir: {"down", "up"}, divisor: 1 .. FreqPeriod, shadow: Int]

SweepInv ==
  /\ sweep \in SweepType
  /\ freq \in [lo: Nat, hi: Nat]

LEMMA DivisionBounds ==
  ASSUME NEW a \in Nat, NEW d \in Nat \ {0}
  PROVE  /\ a \div d \in Nat /\ a \div d <= a
         /\ d <= a => a \div d >= 1
OBVIOUS

\* A period in range moves by no more than it has left.
LEMMA SweepBounds ==
  ASSUME sweep \in SweepType, sweep.shadow \in 0 .. FreqPeriod
  PROVE  /\ SweepBy(sweep) \in Nat
         /\ sweep.shadow + SweepBy(sweep) \in 1 .. FreqPeriod
<1>1. FreqPeriod \in Nat \ {0} /\ sweep.divisor \in 1 .. FreqPeriod
  BY PeriodAssumption DEF SweepType
<1> DEFINE rest == FreqPeriod - sweep.shadow
<1>2. rest \in Nat
  BY <1>1
<1>3. SweepBy(sweep) = rest \div sweep.divisor
  BY DEF SweepBy
<1>4. rest \div sweep.divisor \in Nat /\ rest \div sweep.divisor <= rest
  BY <1>1, <1>2, DivisionBounds
<1>5. sweep.shadow = 0 => rest \div sweep.divisor >= 1
  BY <1>1, <1>2, DivisionBounds
<1> QED  BY <1>1, <1>3, <1>4, <1>5

LEMMA ClockSweepType ==
  ASSUME SweepInv, ClockSweep
  PROVE  sweep' \in SweepType
<1>1. FreqPeriod \in Nat
  BY PeriodAssumption
<1>2. SweepBy(sweep) \in Int /\ sweep.shadow \in Int
  BY <1>1 DEF SweepBy, SweepInv, SweepType
<1>3. CASE UNCHANGED sweep
  BY <1>3 DEF SweepInv
<1>4. CASE sweep.ctr > 0 /\ sweep' = [sweep EXCEPT !.ctr = @ - 1]
  BY <1>4 DEF SweepInv, SweepType
<1>5. CASE sweep' = [sweep EXCEPT !.ctr = sweep.tc]
  BY <1>5 DEF SweepInv, SweepType
<1>6. ASSUME NEW moved \in Int,
             sweep' = [sweep EXCEPT !.ctr = sweep.tc, !.shadow = moved]
      PROVE  sweep' \in SweepType
  BY <1>6 DEF SweepInv, SweepType
<1>7. CASE \E by \in {SweepBy(sweep), -SweepBy(sweep)} :
             sweep' = [sweep EXCEPT !.ctr = sweep.tc, !.shadow = sweep.shadow + by]
  <2>1. PICK by \in {SweepBy(sweep), -SweepBy(sweep)} :
          sweep' = [sweep EXCEPT !.ctr = sweep.tc, !.shadow = sweep.shadow + by]
    BY <1>7
  <2>2. sweep.shadow + by \in Int
    BY <1>2
  <2> DEFINE moved == sweep.shadow + by
  <2> HIDE DEF moved
  <2> QED  BY <1>6, <2>1, <2>2 DEF moved
<1> QED  BY <1>3, <1>4, <1>5, <1>7 DEF ClockSweep

LEMMA SweepStarts == Init => SweepInv
<1>1. FreqPeriod \in Nat \ {0} /\ LoPeriod \in Nat \ {0}
  BY PeriodAssumption
<1>2. InitHi \in Nat /\ InitPeriod \in Int
  BY <1>1 DEF InitHi, InitPeriod
<1> HIDE DEF InitHi, InitPeriod
<1> QED  BY <1>1, <1>2 DEF Init, ResetSweep, SweepInv, SweepType

LEMMA SweepKept == SweepInv /\ [Next]_vars => SweepInv'
<1> SUFFICES ASSUME SweepInv, [Next]_vars PROVE SweepInv'
  OBVIOUS
<1>1. FreqPeriod \in Nat \ {0} /\ LoPeriod \in Nat \ {0}
  BY PeriodAssumption
<1>2. CASE UNCHANGED <<sweep, freq>>
  BY <1>2 DEF SweepInv
<1>3. CASE SequencerStep
  BY <1>3, ClockSweepType DEF SequencerStep, SweepInv
<1>4. ASSUME NEW tc \in SweepTimes, NEW dir \in {"down", "up"}, NEW d \in Divisors,
             WriteSweep(tc, dir, d)
      PROVE SweepInv'
  BY <1>4, WriteAssumption DEF WriteSweep, SweepInv, SweepType
<1>5. ASSUME NEW lo \in Los, WriteFreqLow(lo) PROVE SweepInv'
  BY <1>5, WriteAssumption DEF WriteFreqLow, SweepInv
<1>6. ASSUME NEW hi \in His, NEW on \in BOOLEAN, NEW trigger \in BOOLEAN,
             WriteControl0(hi, on, trigger)
      PROVE SweepInv'
  <2>1. hi \in Nat /\ freq.lo \in Nat
    BY WriteAssumption DEF SweepInv
  <2>2. Period(hi, freq.lo) \in Int
    BY <1>1, <2>1 DEF Period
  <2>3. sweep' \in SweepType
    BY <1>6, <2>2 DEF WriteControl0, SweepInv, SweepType
  <2> QED  BY <1>6, <2>1, <2>3 DEF WriteControl0, SweepInv
<1>7. InitHi \in Nat /\ InitPeriod \in Int
  BY <1>1 DEF InitHi, InitPeriod
<1>8. CASE PowerOff \/ NextSubsong
  <2> HIDE DEF InitHi, InitPeriod
  <2> QED
    BY <1>1, <1>7, <1>8 DEF PowerOff, NextSubsong, ResetSweep, SweepInv, SweepType
<1>9. CASE Write
  <2>1. CASE WriteToTone
    BY <2>1, <1>4, <1>5, <1>6 DEF WriteToTone
  <2>2. CASE \E c \in Channel : WriteTo(c)
    BY <1>2, <2>2 DEF WriteTo, WriteLength, WriteEnvelope, WriteControl, sweepVars
  <2>3. CASE WriteToWave
    BY <1>2, <2>3 DEF WriteToWave, WriteWaveMaster, WriteWaveVolume, sweepVars
  <2>4. CASE PowerOn
    BY <1>2, <2>4 DEF PowerOn, sweepVars
  <2> QED  BY <1>8, <1>9, <2>1, <2>2, <2>3, <2>4 DEF Write
<1>10. CASE Fade
  BY <1>2, <1>10 DEF Fade, MasterFade, sweepVars
<1>11. CASE UNCHANGED vars
  BY <1>2, <1>11 DEF vars, sweepVars
<1> QED  BY <1>3, <1>8, <1>9, <1>10, <1>11 DEF Next

\* A clock of the sweep: where the sum would leave the range, it is not made.
LEMMA ClockSweepBounds ==
  ASSUME SweepInv, ClockSweep, sweep.divisor # 1, sweep.shadow \in 0 .. FreqPeriod
  PROVE  /\ sweep'.shadow \in 0 .. FreqPeriod
         /\ div_tc' \in {div_tc} \cup 1 .. FreqPeriod
<1> DEFINE step == SweepBy(sweep)
<1>1. step \in Nat /\ sweep.shadow + step \in 1 .. FreqPeriod
  BY SweepBounds DEF SweepInv
<1>2. FreqPeriod \in Nat
  BY PeriodAssumption
<1>3. CASE UNCHANGED <<sweep, div_tc>>
  BY <1>3
<1>4. CASE \/ sweep' = [sweep EXCEPT !.ctr = @ - 1] /\ UNCHANGED div_tc
           \/ sweep' = [sweep EXCEPT !.ctr = sweep.tc] /\ UNCHANGED div_tc
  <2>1. sweep'.shadow = sweep.shadow
    BY <1>4 DEF SweepInv, SweepType
  <2> QED  BY <1>4, <2>1
<1>5. CASE /\ ~Overflows(sweep)
           /\ \E by \in {step, -step} :
                /\ by = IF sweep.dir = "up" THEN step ELSE -step
                /\ sweep' = [sweep EXCEPT !.ctr = sweep.tc, !.shadow = @ + by]
                /\ div_tc' = sweep.shadow + by
  <2>1. PICK by \in {step, -step} :
          /\ by = IF sweep.dir = "up" THEN step ELSE -step
          /\ sweep' = [sweep EXCEPT !.ctr = sweep.tc, !.shadow = @ + by]
          /\ div_tc' = sweep.shadow + by
    BY <1>5
  <2>2. sweep'.shadow = sweep.shadow + by
    BY <2>1 DEF SweepInv, SweepType
  <2>3. sweep.dir = "down" => sweep.shadow > step
    BY <1>1, <1>5 DEF Overflows
  <2>4. sweep.dir \in {"down", "up"}
    BY DEF SweepInv, SweepType
  <2> HIDE DEF step
  <2>5. sweep.shadow + by \in 1 .. FreqPeriod
    BY <1>1, <1>2, <2>1, <2>3, <2>4
  <2> QED  BY <1>2, <2>1, <2>2, <2>5
<1> QED
  <2> HIDE DEF step
  <2> QED  BY <1>3, <1>4, <1>5 DEF ClockSweep, step

\* A sweep with a shift never leaves 1 .. 2048, for a period of any range and
\* whatever the program has written before (sweep_check_overflow, sequencer_step).
THEOREM SweepStaysInRange == Spec => SweepKeepsPeriod
<1>1. SweepInv /\ [Next]_vars =>
        [ SequencerStep /\ sweep.divisor # 1 /\ sweep.shadow \in 0 .. FreqPeriod =>
            /\ sweep'.shadow \in 0 .. FreqPeriod
            /\ div_tc' \in {div_tc} \cup 1 .. FreqPeriod ]_vars
  BY ClockSweepBounds DEF SequencerStep
<1> QED  BY <1>1, SweepStarts, SweepKept, PTL DEF Spec, SweepKeepsPeriod

-----------------------------------------------------------------------------
\* Different banks are at different offsets.
LEMMA Grows ==
  ASSUME NEW k \in Nat \ {0}, NEW b \in Nat, NEW c \in Nat, b < c
  PROVE  b * k < c * k
<1>1. (b + 1) * k <= c * k
  OBVIOUS
<1>2. (b + 1) * k = b * k + k /\ b * k \in Int /\ c * k \in Int
  OBVIOUS
<1> QED  BY <1>1, <1>2

LEMMA BanksApart ==
  ASSUME NEW b \in Nat, NEW c \in Nat, b # c
  PROVE  MapRom(b).ofs # MapRom(c).ofs
<1>1. BankSize \in Nat \ {0}
  BY MapperAssumption
<1>2. b * BankSize # c * BankSize
  <2>1. b * BankSize \in Int /\ c * BankSize \in Int
    BY <1>1
  <2>2. CASE b < c
    BY <1>1, <2>1, <2>2, Grows
  <2>3. CASE c < b
    BY <1>1, <2>1, <2>3, Grows
  <2> QED  BY <2>2, <2>3
<1> QED  BY <1>2 DEF MapRom, Map

LEMMA FirstBank == MapRom(0).ofs = 0 /\ MapRam(0).ofs = 0
BY MapperAssumption DEF MapRom, MapRam, Map

LEMMA NotFirst ==
  ASSUME NEW b \in Nat \ {0}
  PROVE  MapRom(b).ofs # 0
BY BanksApart, FirstBank

LEMMA OrOneBounds ==
  ASSUME NEW b \in Nat
  PROVE  OrOne(b) \in Nat \ {0} /\ (b # 0 => OrOne(b) = b) /\ (b = 0 => OrOne(b) = 1)
BY DEF OrOne

\* A cartridge with more than one bank of RAM has all that can be selected.
LEMMA RamBanks ==
  ASSUME file \in Files, file.ram > BankSize, NEW b \in 0 .. 3
  PROVE  MapRam(b).ofs < file.ram
<1>1. BankSize \in Nat \ {0} /\ file.ram \in Nat
  BY MapperAssumption DEF File
<1>2. file.ram >= 4 * BankSize
  BY <1>1, RamAssumption
<1>3. b * BankSize < 4 * BankSize
  BY <1>1, Grows
<1>4. b * BankSize < file.ram
  BY <1>1, <1>2, <1>3
<1> QED  BY <1>4 DEF MapRam, Map

-----------------------------------------------------------------------------
\* What the windows show, by the kind of the file: the lower window of a GBS file
\* never moves, and extram shows no bank that the cartridge has not got.
RamBankExists == file.kind # "mbc3" => extram.ofs = 0 \/ extram.ofs < file.ram

MemoryInv ==
  /\ file \in Files
  /\ reg \in [0 .. 3 -> Nat]
  /\ file.kind = "gbs" => rom_lower.ofs = 0
  /\ WindowsDiffer
  /\ RamBankExists
  /\ RamInCartridge

LEMMA MemoryStarts == MapperInit => MemoryInv
<1> SUFFICES ASSUME MapperInit PROVE MemoryInv
  OBVIOUS
<1>1. file \in Files /\ file.lower \in Nat /\ file.upper \in Nat
  BY MapperAssumption DEF MapperInit, File
<1>2. reg \in [0 .. 3 -> Nat] /\ ram = {} /\ extram.ofs = 0
  BY FirstBank DEF MapperInit
<1>3. file.kind # "gbr" => rom_lower.ofs = 0 /\ rom_upper.ofs # 0
  BY <1>1, HeaderAssumption, FirstBank, NotFirst DEF MapperInit
<1> QED  BY <1>1, <1>2, <1>3 DEF MemoryInv, WindowsDiffer, RamBankExists, RamInCartridge

\* Writes to the ROM move the windows apart.
Moved ==
  /\ reg' \in [0 .. 3 -> Nat]
  /\ file.kind = "gbs" => rom_lower'.ofs = 0
  /\ file.kind # "gbr" => rom_upper'.ofs # rom_lower'.ofs
  /\ file.kind # "mbc3" => extram'.ofs = 0 \/ extram'.ofs < file.ram

LEMMA Registers ==
  ASSUME MemoryInv, NEW area \in 0 .. 3, NEW val \in Nat
  PROVE  [reg EXCEPT ![area] = val] \in [0 .. 3 -> Nat]
BY DEF MemoryInv

LEMMA GbsMoved ==
  ASSUME MemoryInv, NEW area \in 0 .. 3, NEW val \in Nat,
         file.kind \in {"gbs", "gbr"}, GbsRomPut(area, val)
  PROVE  Moved
<1>1. OrOne(val) \in Nat \ {0}
  BY OrOneBounds
<1>2. MapRom(OrOne(val)).ofs # 0
  BY <1>1, NotFirst
<1>3. UNCHANGED <<reg, rom_lower, extram>>
  BY DEF GbsRomPut
<1>4. file.kind = "gbs" => rom_upper'.ofs # rom_lower'.ofs
  BY <1>2, <1>3 DEF GbsRomPut, MemoryInv, WindowsDiffer
<1> QED  BY <1>3, <1>4 DEF Moved, MemoryInv, RamBankExists

LEMMA Mbc1Moved ==
  ASSUME MemoryInv, NEW area \in 0 .. 3, NEW val \in Nat,
         file.kind = "mbc1", Mbc1RomPut(area, val)
  PROVE  Moved
<1> DEFINE r == [reg EXCEPT ![area] = val]
           rombank == OrOne(r[1] % Shift)
           rambank == r[2] % 4
           both == rombank + rambank * Shift
<1>1. r \in [0 .. 3 -> Nat] /\ r[1] \in Nat /\ r[2] \in Nat
  BY Registers
<1>2. Shift \in Nat \ {0, 1}
  BY MapperAssumption
<1>3. rambank \in 0 .. 3 /\ r[1] % Shift \in Nat
  BY <1>1, <1>2
<1>4. rombank \in Nat \ {0}
  BY <1>3, OrOneBounds
<1> USE DEF Mbc1RomPut
<1>5. reg' = r
  OBVIOUS
<1>6. CASE r[3] = 1 /\ file.ram > BankSize
  <2>1. rom_lower' = MapRom(0) /\ rom_upper' = MapRom(rombank) /\ extram' = MapRam(rambank)
    BY <1>6
  <2> HIDE DEF rombank, rambank, r, Mbc1RomPut
  <2>2. rom_upper'.ofs # rom_lower'.ofs
    BY <1>4, <2>1, FirstBank, NotFirst
  <2>3. file \in Files
    BY DEF MemoryInv
  <2>4. extram'.ofs < file.ram
    BY <1>3, <1>6, <2>1, <2>3, RamBanks
  <2> QED  BY <1>1, <1>5, <2>2, <2>4 DEF Moved
<1>7. CASE ~(r[3] = 1 /\ file.ram > BankSize)
  <2>1. /\ rom_lower' = MapRom(IF r[3] = 1 THEN rambank * Shift ELSE 0)
        /\ rom_upper' = MapRom(both)
        /\ extram' = MapRam(0)
    BY <1>7
  <2> DEFINE lower == IF r[3] = 1 THEN rambank * Shift ELSE 0
  <2> HIDE DEF rombank, rambank, r, Mbc1RomPut
  <2>2. rambank * Shift \in Nat
    BY <1>2, <1>3
  <2>3. lower \in Nat /\ both \in Nat /\ lower < both
    BY <1>4, <2>2
  <2> HIDE DEF lower, both
  <2>4. rom_lower' = MapRom(lower)
    BY <2>1 DEF lower
  <2>5. rom_upper'.ofs # rom_lower'.ofs
    BY <2>1, <2>3, <2>4, BanksApart
  <2> QED  BY <1>1, <1>5, <2>1, <2>5, FirstBank DEF Moved
<1> QED  BY <1>6, <1>7

LEMMA Mbc3Moved ==
  ASSUME MemoryInv, NEW area \in 0 .. 3, NEW val \in Nat,
         file.kind = "mbc3", Mbc3RomPut(area, val)
  PROVE  Moved
<1> DEFINE r == [reg EXCEPT ![area] = val]
           rombank == r[1] % (4 * Shift)
<1>1. r \in [0 .. 3 -> Nat] /\ r[1] \in Nat
  BY Registers
<1>2. 4 * Shift \in Nat \ {0}
  BY MapperAssumption
<1>3. rombank \in Nat
  BY <1>1, <1>2
<1>4. OrOne(rombank) \in Nat \ {0}
  BY <1>3, OrOneBounds
<1>5. reg' = r /\ rom_lower' = MapRom(0) /\ rom_upper' = MapRom(OrOne(rombank))
  BY DEF Mbc3RomPut
<1> HIDE DEF r, rombank
<1>6. rom_upper'.ofs # rom_lower'.ofs
  BY <1>4, <1>5, FirstBank, NotFirst
<1> QED  BY <1>1, <1>5, <1>6 DEF Moved

LEMMA RomPutMoves ==
  ASSUME MemoryInv, NEW area \in 0 .. 3, NEW val \in Nat, RomPut(area, val)
  PROVE  Moved
BY GbsMoved, Mbc1Moved, Mbc3Moved DEF RomPut

LEMMA MovedInv ==
  ASSUME MemoryInv, Moved, UNCHANGED file, ram' \subseteq ram
  PROVE  MemoryInv'
BY DEF MemoryInv, Moved, WindowsDiffer, RamBankExists, RamInCartridge

LEMMA WriteRomInv ==
  ASSUME MemoryInv, NEW area \in 0 .. 3, NEW val \in Values, WriteRom(area, val)
  PROVE  MemoryInv'
<1>1. val \in Nat
  BY MapperAssumption
<1> QED  BY <1>1, RomPutMoves, MovedInv DEF WriteRom

LEMMA WriteRamInv ==
  ASSUME MemoryInv, NEW maddr \in 0 .. BankSize - 1, WriteRam(maddr)
  PROVE  MemoryInv'
<1>1. file.ram \in Nat \ {0}
  BY MapperAssumption DEF MemoryInv, WriteRam, File
<1>2. file.kind # "mbc3" => extram.ofs < file.ram
  BY <1>1 DEF MemoryInv, RamBankExists
<1>3. RamInCartridge'
  BY <1>2 DEF MemoryInv, RamInCartridge, WriteRam
<1> QED  BY <1>3 DEF MemoryInv, WriteRam, mapVars, WindowsDiffer, RamBankExists

LEMMA WriteLockoutInv ==
  ASSUME MemoryInv, NEW where \in Lockout, WriteLockout(where)
  PROVE  MemoryInv'
BY DEF MemoryInv, WriteLockout, mapVars, WindowsDiffer, RamBankExists, RamInCartridge

LEMMA MapperSubsongInv == MemoryInv /\ MapperSubsong => MemoryInv'
<1> SUFFICES ASSUME MemoryInv, MapperSubsong PROVE MemoryInv'
  OBVIOUS
<1>1. ram' \subseteq ram /\ UNCHANGED file
  BY DEF MapperSubsong
<1>2. CASE file.default # 1
  <2>1. file.default \in Nat
    BY MapperAssumption DEF MemoryInv, File
  <2>2. RomPut(1, file.default)
    BY <1>2 DEF MapperSubsong
  <2> QED  BY <1>1, <2>1, <2>2, RomPutMoves, MovedInv
<1>3. CASE file.default = 1
  BY <1>1, <1>3 DEF MapperSubsong, MemoryInv, mapVars, WindowsDiffer, RamBankExists, RamInCartridge
<1> QED  BY <1>2, <1>3

LEMMA MemoryKept == MemoryInv /\ [MapperNext]_mapperVars => MemoryInv'
<1> SUFFICES ASSUME MemoryInv, [MapperNext]_mapperVars PROVE MemoryInv'
  OBVIOUS
<1>1. CASE UNCHANGED mapperVars
  BY <1>1 DEF mapperVars, mapVars, MemoryInv, WindowsDiffer, RamBankExists, RamInCartridge
<1> QED  BY <1>1, WriteRomInv, WriteRamInv, WriteLockoutInv, MapperSubsongInv DEF MapperNext

THEOREM MapperInvariant == MapperSpec => []MemoryInv
BY MemoryStarts, MemoryKept, PTL DEF MapperSpec

-----------------------------------------------------------------------------
\* The two ROM windows of a cartridge or a GBS file never show the same bank,
\* whatever is written to the registers and in whichever order.
THEOREM WindowsApart == MapperSpec => []WindowsDiffer
BY MapperInvariant, PTL DEF MemoryInv

\* What a program writes to cartridge RAM stays in it, in every banking mode of the
\* MBC1 and for every size of RAM that mapper_gb knows.
THEOREM RamStaysInside == MapperSpec => []RamInCartridge
BY MapperInvariant, PTL DEF MemoryInv

-----------------------------------------------------------------------------
\* Only the header of a GBS file sets a default bank, and nothing moves the lower
\* window of a GBS file.
LowerFixed == file.kind = "gbs" => rom_lower = MapRom(0)

LEMMA LowerStarts == MapperInit => LowerFixed
<1> SUFFICES ASSUME MapperInit, file.kind = "gbs" PROVE rom_lower = MapRom(0)
  BY DEF LowerFixed
<1>1. file.lower = 0
  BY HeaderAssumption DEF MapperInit
<1> QED  BY <1>1 DEF MapperInit

LEMMA LowerKept == LowerFixed /\ [MapperNext]_mapperVars => LowerFixed'
<1> SUFFICES ASSUME LowerFixed, [MapperNext]_mapperVars PROVE LowerFixed'
  OBVIOUS
<1>1. CASE UNCHANGED <<file, rom_lower>>
  BY <1>1 DEF LowerFixed, MapRom
<1>2. ASSUME NEW area, NEW val, RomPut(area, val), UNCHANGED file
      PROVE LowerFixed'
  BY <1>2 DEF RomPut, GbsRomPut, LowerFixed, MapRom
<1>3. CASE \E area \in 0 .. 3, val \in Values : WriteRom(area, val)
  BY <1>2, <1>3 DEF WriteRom
<1>4. CASE MapperSubsong
  BY <1>1, <1>2, <1>4 DEF MapperSubsong, mapVars
<1>5. CASE \/ \E maddr \in 0 .. BankSize - 1 : WriteRam(maddr)
           \/ \E where \in Lockout : WriteLockout(where)
  BY <1>1, <1>5 DEF WriteRam, WriteLockout, mapVars
<1>6. CASE UNCHANGED mapperVars
  BY <1>1, <1>6 DEF mapperVars, mapVars
<1> QED  BY <1>3, <1>4, <1>5, <1>6 DEF MapperNext

\* A subsong of a file with a default bank of its own begins with the memory of a
\* file just opened, whatever ran before (gbs_init).
THEOREM BankedSubsongIsFresh == MapperSpec => BankedStartsFresh
<1>1. MemoryInv /\ LowerFixed /\ [MapperNext]_mapperVars =>
        [ MapperSubsong /\ file.default # 1 =>
            /\ ram' = {}
            /\ rom_lower' = MapRom(0)
            /\ rom_upper' = MapRom(OrOne(file.default)) ]_mapperVars
  <2> SUFFICES ASSUME MemoryInv, LowerFixed, MapperSubsong, file.default # 1
               PROVE  /\ ram' = {}
                      /\ rom_lower' = MapRom(0)
                      /\ rom_upper' = MapRom(OrOne(file.default))
    OBVIOUS
  <2>1. file.kind = "gbs"
    BY HeaderAssumption DEF MemoryInv
  <2>2. ram' = {} /\ RomPut(1, file.default)
    BY DEF MapperSubsong
  <2>3. GbsRomPut(1, file.default)
    BY <2>1, <2>2 DEF RomPut
  <2> QED  BY <2>1, <2>2, <2>3 DEF GbsRomPut, LowerFixed
<1> QED
  BY <1>1, LowerStarts, LowerKept, MapperInvariant, PTL DEF MapperSpec, BankedStartsFresh

-----------------------------------------------------------------------------
\* Integer division by its characteristic inequalities.
LEMMA DivBounds ==
  ASSUME NEW a \in Nat, NEW b \in Nat \ {0}
  PROVE  /\ a \div b \in Nat
         /\ b * (a \div b) <= a
         /\ a < b * (a \div b) + b
OBVIOUS

LEMMA MulMono ==
  ASSUME NEW b \in Nat, NEW x \in Int, NEW y \in Int, x <= y
  PROVE  b * x <= b * y
OBVIOUS

LEMMA DivAtLeast ==
  ASSUME NEW a \in Nat, NEW b \in Nat \ {0}, NEW q \in Nat, b * q <= a
  PROVE  q <= a \div b
<1> DEFINE d == a \div b
<1>1. d \in Nat /\ a < b * d + b
  BY DivBounds
<1> HIDE DEF d
<1>2. SUFFICES ASSUME d + 1 <= q PROVE FALSE
  BY <1>1 DEF d
<1>3. b * (d + 1) <= b * q
  BY <1>1, <1>2, MulMono
<1>4. b * (d + 1) = b * d + b
  BY <1>1
<1>5. b * d \in Int /\ b * q \in Int
  BY <1>1
<1> QED  BY <1>1, <1>3, <1>4, <1>5

LEMMA DivAtMost ==
  ASSUME NEW a \in Nat, NEW b \in Nat \ {0}, NEW q \in Nat, a < b * (q + 1)
  PROVE  a \div b <= q
<1> DEFINE d == a \div b
<1>1. d \in Nat /\ b * d <= a
  BY DivBounds
<1> HIDE DEF d
<1>2. SUFFICES ASSUME q + 1 <= d PROVE FALSE
  BY <1>1 DEF d
<1>3. b * (q + 1) <= b * d
  BY <1>1, <1>2, MulMono
<1>4. b * d \in Int /\ b * (q + 1) \in Int
  BY <1>1
<1> QED  BY <1>1, <1>3, <1>4

-----------------------------------------------------------------------------
\* The constants of the buffer, each within one cycle of the exact value.
LEMMA BlockBounds ==
  /\ BlockCycles \in Nat
  /\ Mult * BlockCycles <= DivTc * Samples
  /\ DivTc * Samples < Mult * BlockCycles + Mult
<1>1. DivTc * Samples \in Nat /\ Mult \in Nat \ {0}
  BY ConstAssumption
<1> QED  BY <1>1, DivBounds DEF BlockCycles

LEMMA ResetBounds ==
  /\ ResetCycles \in Nat
  /\ Mult * ResetCycles <= DivTc * Half
  /\ DivTc * Half < Mult * ResetCycles + Mult
<1>1. DivTc * Half \in Nat /\ Mult \in Nat \ {0}
  BY ConstAssumption
<1> QED  BY <1>1, DivBounds DEF ResetCycles

LEMMA MaxBounds ==
  /\ MaxCycles \in Nat
  /\ Mult * MaxCycles <= DivTc * Samples + DivTc * Half + DivTc
  /\ DivTc * Samples + DivTc * Half + DivTc < Mult * MaxCycles + Mult
<1>1. DivTc * (ImpSamples - Half) = DivTc * Samples + DivTc * Half + DivTc
  BY ConstAssumption DEF ImpSamples
<1>2. DivTc * (ImpSamples - Half) \in Nat /\ Mult \in Nat \ {0}
  BY ConstAssumption DEF ImpSamples
<1> QED  BY <1>1, <1>2, DivBounds DEF MaxCycles

\* The products the bounds are made of are numbers the prover can compare.
LEMMA Products ==
  /\ DivTc * Samples \in Nat /\ DivTc * Half \in Nat
  /\ DivTc * Samples >= DivTc /\ DivTc >= Mult
  /\ Mult \in Nat \ {0} /\ DivTc \in Nat \ {0} /\ Half \in Nat \ {0}
<1>1. DivTc * 1 <= DivTc * Samples
  BY ConstAssumption, MulMono
<1> QED  BY <1>1, ConstAssumption, RateAssumption

\* A block takes at least a cycle, so that flushing makes room.
LEMMA BlockPositive == BlockCycles >= 1
<1>1. SUFFICES ASSUME BlockCycles = 0 PROVE FALSE
  BY BlockBounds
<1>2. DivTc * Samples < Mult
  BY <1>1, BlockBounds, Products
<1> QED  BY <1>2, Products

LEMMA ResetBelowMax == ResetCycles <= MaxCycles
<1>1. SUFFICES ASSUME MaxCycles + 1 <= ResetCycles PROVE FALSE
  BY MaxBounds, ResetBounds
<1>2. Mult * (MaxCycles + 1) <= Mult * ResetCycles
  BY <1>1, MaxBounds, ResetBounds, Products, MulMono
<1>3. Mult * (MaxCycles + 1) = Mult * MaxCycles + Mult
  BY MaxBounds, Products
<1>4. Mult * MaxCycles \in Int /\ Mult * ResetCycles \in Int
  BY MaxBounds, ResetBounds, Products
<1> QED  BY <1>2, <1>3, <1>4, MaxBounds, ResetBounds, Products

\* After a flush the count is at least the impulse's half width.
LEMMA FlushLeavesHalf ==
  ASSUME NEW c \in Nat, c + 1 >= MaxCycles
  PROVE  /\ c + 1 - BlockCycles \in Nat
         /\ Mult * (c + 1 - BlockCycles) >= DivTc * Half
<1>1. Mult * MaxCycles <= Mult * (c + 1)
  BY MaxBounds, Products, MulMono
<1>2. Mult * (c + 1) \in Int /\ Mult * BlockCycles \in Int
      /\ Mult * MaxCycles \in Int
  BY BlockBounds, MaxBounds, Products
<1>3. Mult * (c + 1) - Mult * BlockCycles >= DivTc * Half
  BY <1>1, <1>2, MaxBounds, BlockBounds, Products
<1>4. Mult * (c + 1 - BlockCycles) = Mult * (c + 1) - Mult * BlockCycles
  BY BlockBounds, Products
<1>5. c + 1 - BlockCycles \in Nat
  <2>1. SUFFICES ASSUME c + 1 <= BlockCycles - 1 PROVE FALSE
    BY BlockBounds
  <2>2. Mult * (c + 1) <= Mult * (BlockCycles - 1)
    BY <2>1, BlockBounds, Products, MulMono
  <2>3. Mult * (BlockCycles - 1) = Mult * BlockCycles - Mult
    BY BlockBounds, Products
  <2> QED  BY <1>2, <1>3, <2>2, <2>3, Products
<1> QED  BY <1>3, <1>4, <1>5

\* Where an impulse lands, by the count it is computed from.
LEMMA PositionBounds ==
  ASSUME NEW c \in Nat, c <= MaxCycles, Mult * c >= DivTc * Half
  PROVE  /\ Position(c) \in Nat
         /\ Position(c) >= Half
         /\ Position(c) <= Samples + Half + 1
<1>1. c * Mult = Mult * c /\ c * Mult \in Nat
  BY Products
<1>2. Position(c) \in Nat
  BY <1>1, Products, DivBounds DEF Position
<1>3. Half <= Position(c)
  BY <1>1, Products, DivAtLeast DEF Position
<1>4. Position(c) <= Samples + Half + 1
  <2>1. Mult * c <= Mult * MaxCycles
    BY MaxBounds, Products, MulMono
  <2>2. DivTc * (Samples + Half + 1 + 1)
          = DivTc * Samples + DivTc * Half + DivTc + DivTc
    BY ConstAssumption
  <2>3. Mult * c \in Int /\ Mult * MaxCycles \in Int
    BY MaxBounds, Products
  <2>4. c * Mult < DivTc * (Samples + Half + 1 + 1)
    BY <1>1, <2>1, <2>2, <2>3, MaxBounds, Products
  <2>5. Samples + Half + 1 \in Nat
    BY ConstAssumption
  <2> QED  BY <1>1, <2>4, <2>5, Products, DivAtMost DEF Position
<1> QED  BY <1>2, <1>3, <1>4

-----------------------------------------------------------------------------
\* The inductive invariant: the fast path has room for what is left of the CPU
\* step, and the count is behind half an impulse once any level can change.
BufferInv ==
  /\ BufferTypeOK
  /\ RoomNotNegative
  /\ path = "fast" => impcycles + left <= MaxCycles
  /\ IF levels THEN Mult * impcycles >= DivTc * Half ELSE impcycles = ResetCycles
  /\ at # -1 => at >= Half /\ at <= Samples + Half + 1

\* One cycle after a reset an impulse fits in front already.
LEMMA TickLeavesHalf ==
  ASSUME BufferInv, NEW n \in Nat \ {0}
  PROVE  Mult * (impcycles + n) >= DivTc * Half
<1>1. Mult * (impcycles + 1) <= Mult * (impcycles + n)
  BY Products, MulMono DEF BufferInv, BufferTypeOK
<1>2. Mult * (impcycles + 1) = Mult * impcycles + Mult
  BY Products DEF BufferInv, BufferTypeOK
<1>3. Mult * impcycles \in Int /\ Mult * (impcycles + n) \in Int
  BY Products DEF BufferInv, BufferTypeOK
<1>4. Mult * impcycles + Mult >= DivTc * Half
  <2>1. CASE levels
    BY <2>1, <1>3, Products DEF BufferInv
  <2>2. CASE ~levels
    BY <2>2, <1>3, ResetBounds, Products DEF BufferInv
  <2> QED  BY <2>1, <2>2
<1> QED  BY <1>1, <1>2, <1>3, <1>4, Products

LEMMA BufferStarts == BufferInit => BufferInv
<1> SUFFICES ASSUME BufferInit PROVE BufferInv
  OBVIOUS
<1>1. BufferTypeOK
  BY ResetBounds DEF BufferInit, BufferTypeOK
<1>2. RoomNotNegative /\ path # "fast" /\ at = -1
  BY ResetBelowMax DEF BufferInit, RoomNotNegative
<1>3. levels = FALSE /\ impcycles = ResetCycles
  BY DEF BufferInit
<1> QED  BY <1>1, <1>2, <1>3 DEF BufferInv

LEMMA ResetInv == BufferInv /\ EndOfSubsong => BufferInv'
BY ResetBounds, ResetBelowMax
   DEF EndOfSubsong, Reset, BufferInv, BufferTypeOK, RoomNotNegative

LEMMA BeginInv ==
  ASSUME BufferInv, NEW n \in Steps, Begin(n)
  PROVE  BufferInv'
<1>1. n \in Nat \ {0}
  BY StepsAssumption
<1>2. path' = "fast" => impcycles' + left' <= MaxCycles
  BY <1>1, MaxBounds DEF Begin, BufferInv, BufferTypeOK
<1> QED  BY <1>1, <1>2 DEF Begin, BufferInv, BufferTypeOK, RoomNotNegative

LEMMA FastTickInv ==
  ASSUME BufferInv, NEW n \in {1, 4}, FastTick(n)
  PROVE  BufferInv'
<1>1. n \in Nat \ {0} /\ impcycles' = impcycles + n /\ left' = left - n
      /\ left >= n /\ levels' = TRUE /\ path' = "fast" /\ path = "fast"
      /\ done' = done + n /\ at' = at
  BY DEF FastTick
<1>2. BufferTypeOK'
  BY <1>1 DEF BufferInv, BufferTypeOK
<1>3. impcycles' + left' = impcycles + left
  BY <1>1 DEF BufferInv, BufferTypeOK
<1>4. RoomNotNegative' /\ impcycles' + left' <= MaxCycles
  BY <1>1, <1>2, <1>3, MaxBounds DEF BufferInv, BufferTypeOK, RoomNotNegative
<1>5. Mult * impcycles' >= DivTc * Half
  BY <1>1, TickLeavesHalf
<1> QED  BY <1>1, <1>2, <1>4, <1>5 DEF BufferInv

LEMMA SlowTickInv ==
  ASSUME BufferInv, SlowTick
  PROVE  BufferInv'
<1>1. left > 0 /\ left' = left - 1 /\ done' = done + 1 /\ levels' = TRUE
      /\ path' = "slow" /\ at' = at
  BY DEF SlowTick
<1>2. impcycles \in Nat /\ impcycles <= MaxCycles
  BY DEF BufferInv, BufferTypeOK, RoomNotNegative
<1>3. CASE impcycles + 1 >= MaxCycles
  <2>1. impcycles' = impcycles + 1 - BlockCycles
    BY <1>3 DEF SlowTick
  <2>2. impcycles' \in Nat /\ Mult * impcycles' >= DivTc * Half
    BY <1>2, <1>3, <2>1, FlushLeavesHalf
  <2>3. impcycles' <= MaxCycles
    BY <1>2, <2>1, BlockPositive, BlockBounds, MaxBounds
  <2> QED  BY <1>1, <2>2, <2>3 DEF BufferInv, BufferTypeOK, RoomNotNegative
<1>4. CASE impcycles + 1 < MaxCycles
  <2>1. impcycles' = impcycles + 1
    BY <1>2, <1>4, MaxBounds DEF SlowTick
  <2>2. Mult * impcycles' >= DivTc * Half
    BY <2>1, TickLeavesHalf
  <2>3. BufferTypeOK'
    BY <1>1, <1>2, <2>1 DEF BufferInv, BufferTypeOK
  <2>4. RoomNotNegative'
    BY <1>2, <1>4, <2>1, MaxBounds DEF RoomNotNegative
  <2> QED  BY <1>1, <2>2, <2>3, <2>4 DEF BufferInv
<1> QED  BY <1>2, <1>3, <1>4, MaxBounds

LEMMA ChangeLevelInv ==
  ASSUME BufferInv, ChangeLevel
  PROVE  BufferInv'
<1>1. impcycles \in Nat /\ impcycles <= MaxCycles /\ Mult * impcycles >= DivTc * Half
  BY DEF ChangeLevel, BufferInv, BufferTypeOK, RoomNotNegative
<1>2. at' \in Nat /\ at' >= Half /\ at' <= Samples + Half + 1
  BY <1>1, PositionBounds DEF ChangeLevel
<1> QED  BY <1>2 DEF ChangeLevel, BufferInv, BufferTypeOK, RoomNotNegative

LEMMA BufferKept == BufferInv /\ [BufferNext]_bufferVars => BufferInv'
<1> SUFFICES ASSUME BufferInv, [BufferNext]_bufferVars PROVE BufferInv'
  OBVIOUS
<1>1. CASE \E n \in Steps : Begin(n)
  BY <1>1, BeginInv
<1>2. CASE \E n \in {1, 4} : FastTick(n)
  BY <1>2, FastTickInv
<1>3. CASE SlowTick
  BY <1>3, SlowTickInv
<1>4. CASE End
  BY <1>4 DEF End, BufferInv, BufferTypeOK, RoomNotNegative
<1>5. CASE ChangeLevel
  BY <1>5, ChangeLevelInv
<1>6. CASE EndOfSubsong
  BY <1>6, ResetInv
<1>7. CASE UNCHANGED bufferVars
  BY <1>7 DEF bufferVars, BufferInv, BufferTypeOK, RoomNotNegative
<1> QED  BY <1>1, <1>2, <1>3, <1>4, <1>5, <1>6, <1>7 DEF BufferNext

THEOREM BufferInvariant == BufferSpec => []BufferInv
BY BufferStarts, BufferKept, PTL DEF BufferSpec

\* The counters of gb_sound keep their types.
THEOREM BufferTypeCorrect == BufferSpec => []BufferTypeOK
BY BufferInvariant, PTL DEF BufferInv

\* The unsigned difference in gb_sound never wraps around.
THEOREM RoomIsNotNegative == BufferSpec => []RoomNotNegative
BY BufferInvariant, PTL DEF BufferInv

\* At every rate up to the clock rate no impulse starts before the buffer ...
THEOREM StartsInBuffer == BufferSpec => []ImpulseStartsInBuffer
<1>1. BufferInv => ImpulseStartsInBuffer
  BY Products DEF BufferInv, BufferTypeOK, ImpulseStartsInBuffer
<1> QED  BY <1>1, BufferInvariant, PTL

\* ... and none writes beyond it, at the rates where the assertion fails too.
THEOREM WithinBuffer == BufferSpec => []ImpulseWithinBuffer
<1>1. BufferInv => ImpulseWithinBuffer
  BY ConstAssumption DEF BufferInv, BufferTypeOK, ImpulseWithinBuffer, ImpSamples
<1> QED  BY <1>1, BufferInvariant, PTL

-----------------------------------------------------------------------------
LEMMA DivMod ==
  ASSUME NEW a \in Nat, NEW b \in Nat \ {0}, a % b # 0
  PROVE  b * (a \div b) # a
OBVIOUS

\* When the last position is not a whole number of cycles, the count stops
\* short of it and so does the impulse.
LEMMA PositionShort ==
  ASSUME (DivTc * (ImpSamples - Half)) % Mult # 0,
         NEW c \in Nat, c <= MaxCycles
  PROVE  Position(c) <= Samples + Half
<1>1. DivTc * (ImpSamples - Half) = DivTc * Samples + DivTc * Half + DivTc
  BY ConstAssumption DEF ImpSamples
<1>2. DivTc * (ImpSamples - Half) \in Nat
  BY <1>1, Products
<1>3. Mult * MaxCycles # DivTc * (ImpSamples - Half)
  BY <1>2, Products, DivMod DEF MaxCycles
<1>4. Mult * MaxCycles \in Int /\ Mult * c \in Int /\ c * Mult = Mult * c
      /\ c * Mult \in Nat
  BY MaxBounds, Products
<1>5. Mult * c <= Mult * MaxCycles
  BY MaxBounds, Products, MulMono
<1>6. DivTc * (Samples + Half + 1) = DivTc * Samples + DivTc * Half + DivTc
  BY ConstAssumption
<1>7. c * Mult < DivTc * (Samples + Half + 1)
  BY <1>1, <1>3, <1>4, <1>5, <1>6, MaxBounds, Products
<1>8. Samples + Half \in Nat
  BY ConstAssumption
<1> QED  BY <1>4, <1>7, <1>8, Products, DivAtMost DEF Position

\* The second assertion of gb_change_level holds at every rate for which
\* SOUND_DIV_MULT does not divide the end of the buffer (44100 Hz and 48000 Hz
\* are such rates, 32768 Hz is not: run impulse_even).
THEOREM EndsInBuffer ==
  ASSUME (DivTc * (ImpSamples - Half)) % Mult # 0
  PROVE  BufferSpec => []ImpulseEndsInBuffer
<1> DEFINE Short == at # -1 => at <= Samples + Half
<1>1. BufferInit => Short
  BY DEF BufferInit
<1>2. BufferInv /\ Short /\ [BufferNext]_bufferVars => Short'
  <2> SUFFICES ASSUME BufferInv, Short, [BufferNext]_bufferVars PROVE Short'
    OBVIOUS
  <2>1. CASE ChangeLevel
    <3>1. impcycles \in Nat /\ impcycles <= MaxCycles
      BY DEF BufferInv, BufferTypeOK, RoomNotNegative
    <3> QED  BY <2>1, <3>1, PositionShort DEF ChangeLevel
  <2>2. CASE at' \in {at, -1}
    BY <2>2
  <2> QED
    BY <2>1, <2>2 DEF BufferNext, Begin, FastTick, SlowTick, End, EndOfSubsong,
                      Reset, bufferVars
<1>3. BufferInv /\ Short => ImpulseEndsInBuffer
  BY ConstAssumption DEF BufferInv, BufferTypeOK, ImpulseEndsInBuffer, ImpSamples
<1> QED  BY <1>1, <1>2, <1>3, BufferInvariant, PTL DEF BufferSpec

\* Both assertions together, at those rates.
THEOREM InBuffer ==
  ASSUME (DivTc * (ImpSamples - Half)) % Mult # 0
  PROVE  BufferSpec => []ImpulseInBuffer
BY StartsInBuffer, EndsInBuffer, PTL DEF ImpulseInBuffer

\* A flush keeps every impulse in its place of the stream, to the one sample
\* by which the two divisions may round apart.
LEMMA FlushPlace ==
  ASSUME NEW c \in Nat, c + 1 >= MaxCycles
  PROVE  Position(c + 1) - Position(c + 1 - BlockCycles)
           \in {Samples - 1, Samples}
<1> DEFINE e == c + 1 - BlockCycles
           p == Position(c + 1)
           q == Position(e)
<1>1. e \in Nat /\ Mult * e >= DivTc * Half
  BY FlushLeavesHalf
<1>2. /\ p \in Nat
      /\ DivTc * p <= Mult * (c + 1)
      /\ Mult * (c + 1) < DivTc * p + DivTc
  <2>1. (c + 1) * Mult \in Nat /\ (c + 1) * Mult = Mult * (c + 1)
    BY Products
  <2> QED  BY <2>1, Products, DivBounds DEF Position
<1>3. Mult * e = Mult * (c + 1) - Mult * BlockCycles
  BY BlockBounds, Products
<1>4. e * Mult \in Nat /\ e * Mult = Mult * e /\ q \in Nat
  <2>1. e * Mult \in Nat /\ e * Mult = Mult * e
    BY <1>1, Products
  <2> QED  BY <2>1, Products, DivBounds DEF Position
<1>5. Samples \in Nat /\ Mult * (c + 1) \in Int /\ Mult * BlockCycles \in Int
      /\ DivTc * p \in Int
  BY <1>2, ConstAssumption, BlockBounds, Products
<1> HIDE DEF e, p
<1>6. p - Samples <= q
  <2>1. CASE p - Samples < 0
    BY <1>2, <1>4, <1>5, <2>1
  <2>2. CASE p - Samples \in Nat
    <3>1. DivTc * (p - Samples) = DivTc * p - DivTc * Samples
      BY <1>2, <1>5, Products
    <3>2. DivTc * (p - Samples) <= e * Mult
      BY <1>2, <1>3, <1>4, <1>5, <3>1, BlockBounds, Products
    <3> QED  BY <1>4, <2>2, <3>2, Products, DivAtLeast DEF Position
  <2> QED  BY <1>2, <1>5, <2>1, <2>2
<1>7. q <= p - Samples + 1
  <2>1. DivTc * (p - Samples + 1 + 1) = DivTc * p - DivTc * Samples + DivTc + DivTc
    BY <1>2, <1>5, Products
  <2>2. e * Mult < DivTc * (p - Samples + 1 + 1)
    BY <1>2, <1>3, <1>4, <1>5, <2>1, BlockBounds, Products
  <2>3. p - Samples + 1 \in Nat
    <3>1. SUFFICES ASSUME p - Samples + 1 + 1 <= 0 PROVE FALSE
      BY <1>2, <1>5
    <3>2. DivTc * (p - Samples + 1 + 1) <= DivTc * 0
      BY <1>2, <1>5, <3>1, Products, MulMono
    <3>3. DivTc * 0 = 0 /\ DivTc * (p - Samples + 1 + 1) \in Int
      BY <1>2, <1>5, Products
    <3> QED  BY <1>4, <2>2, <3>2, <3>3
  <2> QED  BY <1>4, <2>2, <2>3, Products, DivAtMost DEF Position
<1> QED  BY <1>2, <1>4, <1>5, <1>6, <1>7 DEF e, p

THEOREM FlushPlaceKept == BufferSpec => FlushKeepsPlace
<1>1. BufferInv /\ [BufferNext]_bufferVars =>
        [ path = "slow" /\ impcycles' < impcycles =>
            Position(impcycles + 1) - Position(impcycles') \in {Samples - 1, Samples}
        ]_bufferVars
  <2> SUFFICES ASSUME BufferInv, BufferNext, path = "slow", impcycles' < impcycles
               PROVE  Position(impcycles + 1) - Position(impcycles')
                        \in {Samples - 1, Samples}
    OBVIOUS
  <2>1. impcycles \in Nat
    BY DEF BufferInv, BufferTypeOK
  <2>2. SlowTick
    BY <2>1 DEF BufferNext, Begin, FastTick, End, ChangeLevel, EndOfSubsong
  <2>3. impcycles + 1 >= MaxCycles /\ impcycles' = impcycles + 1 - BlockCycles
    BY <2>1, <2>2, MaxBounds DEF SlowTick
  <2> QED  BY <2>1, <2>3, FlushPlace
<1> QED  BY <1>1, BufferInvariant, PTL DEF BufferSpec, FlushKeepsPlace


-----------------------------------------------------------------------------
\* What the proofs need of the record's shape.
Fields ==
  {"on", "update_level", "stale", "mute", "running", "vol", "lvl", "div_tc", "div_ctr",
   "duty_val", "duty_ctr", "pos", "next", "ram", "lfsr", "narrow", "leftgate",
   "rightgate", "last"}
Shaped(s) ==
  /\ s = [f \in Fields |-> s[f]]
  /\ s.running \in [Mixed -> BOOLEAN]
  /\ s.div_tc \in [Mixed -> Int]
  /\ s.div_ctr \in [Mixed -> Int]
MixedUp(s) == ~s.update_level /\ ~s.stale => s.last = Levels(s)
Good(s) == Shaped(s) /\ MixedUp(s)

LEMMA WaveAndNoise == 2 \in Mixed /\ 3 \in Mixed
BY DEF Mixed

\* Mixing makes good whatever has changed.
LEMMA MixingIsGood ==
  ASSUME NEW s, Shaped(s)
  PROVE  Good(UpdateLevel(s))
<1> DEFINE t == UpdateLevel(s)
<1>1. Shaped(t)
  BY DEF Shaped, UpdateLevel, Fields
<1>2. /\ t.lvl = s.lvl /\ t.leftgate = s.leftgate /\ t.rightgate = s.rightgate
      /\ t.mute = s.mute /\ t.last = Levels(s)
  BY DEF Shaped, UpdateLevel, Fields
<1>3. Levels(t) = Levels(s)
  BY <1>2 DEF Levels
<1> QED  BY <1>1, <1>2, <1>3 DEF Good, MixedUp

\* What leaves levels, gates and mutes alone keeps what has been mixed current.
Silent(s, t) ==
  /\ t.lvl = s.lvl /\ t.leftgate = s.leftgate /\ t.rightgate = s.rightgate
  /\ t.mute = s.mute /\ t.last = s.last
  /\ t.update_level = s.update_level /\ t.stale = s.stale

LEMMA SilentIsGood ==
  ASSUME NEW s, NEW t, Good(s), Shaped(t), Silent(s, t)
  PROVE  Good(t)
BY DEF Good, MixedUp, Silent, Levels

-----------------------------------------------------------------------------
\* Cycles that only count.
Down(s, n) ==
  [s EXCEPT !.div_ctr = [c \in Mixed |-> IF c \in {2, 3} /\ s.running[c] THEN @[c] - n ELSE @[c]]]

LEMMA DownIsShaped ==
  ASSUME NEW s, Shaped(s), NEW n \in Nat
  PROVE  /\ Shaped(Down(s, n)) /\ Silent(s, Down(s, n))
         /\ Down(s, n).running = s.running
         /\ \A c \in Mixed : Down(s, n).div_ctr[c] =
              IF c \in {2, 3} /\ s.running[c] THEN s.div_ctr[c] - n ELSE s.div_ctr[c]
BY DEF Shaped, Silent, Down, Fields

LEMMA DownTwice ==
  ASSUME NEW s, Shaped(s), NEW n \in Nat
  PROVE  Down(Down(s, n), 1) = Down(s, n + 1)
<1> DEFINE t == Down(s, n)
<1>1. /\ Shaped(t) /\ t.running = s.running
      /\ \A c \in Mixed : t.div_ctr[c] =
           IF c \in {2, 3} /\ s.running[c] THEN s.div_ctr[c] - n ELSE s.div_ctr[c]
  BY DownIsShaped
<1>2. [c \in Mixed |-> IF c \in {2, 3} /\ t.running[c] THEN t.div_ctr[c] - 1 ELSE t.div_ctr[c]]
      = [c \in Mixed |-> IF c \in {2, 3} /\ s.running[c] THEN s.div_ctr[c] - (n + 1)
                         ELSE s.div_ctr[c]]
  BY <1>1 DEF Shaped
<1> DEFINE d == [c \in Mixed |-> IF c \in {2, 3} /\ s.running[c] THEN s.div_ctr[c] - (n + 1)
                                 ELSE s.div_ctr[c]]
<1>3. Down(t, 1) = [t EXCEPT !.div_ctr = d]
  BY <1>2 DEF Down
<1>4. Down(s, n + 1) = [s EXCEPT !.div_ctr = d]
  BY DEF Down
<1> HIDE DEF d
<1>5. [t EXCEPT !.div_ctr = d] = [s EXCEPT !.div_ctr = d]
  BY DEF Down, Shaped, Fields
<1> QED  BY <1>3, <1>4, <1>5

\* A cycle without a tick.
LEMMA SubstepCounts ==
  ASSUME NEW s, Shaped(s), s.div_ctr[2] > 1, s.div_ctr[3] > 1
  PROVE  Substep(s) = Down(s, 1)
<1> DEFINE w == WaveTick(s)
           wave == IF s.running[2] THEN [s.div_ctr EXCEPT ![2] = s.div_ctr[2] - 1]
                                   ELSE s.div_ctr
           both == IF s.running[3] THEN [wave EXCEPT ![3] = wave[3] - 1] ELSE wave
<1>1. s.running[2] \in BOOLEAN /\ s.running[3] \in BOOLEAN
      /\ s.div_ctr[2] \in Int /\ s.div_ctr[3] \in Int
  BY WaveAndNoise DEF Shaped
<1>2. ~Due(s, 2) /\ ~Due(s, 3)
  BY <1>1 DEF Due
<1>3. Substep(s) = NoiseTick(w)
  BY <1>2 DEF Substep
<1>4. w = [s EXCEPT !.div_ctr = wave]
  <2>1. CASE s.running[2]
    BY <2>1, <1>1 DEF WaveTick
  <2>2. CASE ~s.running[2]
    <3>1. s = [s EXCEPT !.div_ctr = s.div_ctr]
      BY DEF Shaped, Fields
    <3> QED  BY <2>2, <3>1 DEF WaveTick
  <2> QED  BY <1>1, <2>1, <2>2
<1>5. w.running = s.running /\ w.div_ctr = wave /\ w = [f \in Fields |-> w[f]]
  BY <1>4 DEF Shaped, Fields
<1>6. wave[3] = s.div_ctr[3]
  BY WaveAndNoise DEF Shaped
<1>7. NoiseTick(w) = [w EXCEPT !.div_ctr = both]
  <2> HIDE DEF w, wave
  <2>1. CASE s.running[3]
    BY <2>1, <1>1, <1>5, <1>6 DEF NoiseTick
  <2>2. CASE ~s.running[3]
    <3>1. w = [w EXCEPT !.div_ctr = wave]
      BY <1>5 DEF Fields
    <3> QED  BY <2>2, <1>5, <3>1 DEF NoiseTick
  <2> QED  BY <1>1, <2>1, <2>2
<1>8. both = [c \in Mixed |-> IF c \in {2, 3} /\ s.running[c] THEN s.div_ctr[c] - 1
                              ELSE s.div_ctr[c]]
  <2>1. /\ wave \in [Mixed -> Int]
        /\ \A c \in Mixed : wave[c] = IF c = 2 /\ s.running[c] THEN s.div_ctr[c] - 1
                                       ELSE s.div_ctr[c]
    BY <1>1, WaveAndNoise DEF Shaped
  <2> HIDE DEF wave
  <2>2. /\ both \in [Mixed -> Int]
        /\ \A c \in Mixed : both[c] = IF c = 3 /\ s.running[c] THEN wave[c] - 1 ELSE wave[c]
    BY <1>1, <2>1, WaveAndNoise DEF Shaped
  <2> HIDE DEF both
  <2> QED  BY <2>1, <2>2
<1>9. [w EXCEPT !.div_ctr = both] = [s EXCEPT !.div_ctr = both]
  <2> HIDE DEF both, wave, w
  <2> QED  BY <1>4 DEF Shaped, Fields
<1> HIDE DEF both, wave, w
<1> QED  BY <1>3, <1>7, <1>8, <1>9 DEF Down

\* What gb_sound skips are four such cycles.
LEMMA SkipIsFourSteps ==
  ASSUME NEW s, Shaped(s), Skippable(s)
  PROVE  Skip(s) = FourSteps(s)
<1>1. s.div_ctr[2] \in Int /\ s.div_ctr[3] \in Int /\ s.div_ctr[2] > 4 /\ s.div_ctr[3] > 4
  BY WaveAndNoise DEF Shaped, Skippable
<1>2. \A n \in 0 .. 3 : Shaped(Down(s, n)) /\ Substep(Down(s, n)) = Down(s, n + 1)
  <2> TAKE n \in 0 .. 3
  <2>1. n \in Nat /\ Shaped(Down(s, n))
    BY DownIsShaped
  <2>2. Down(s, n).div_ctr[2] > 1 /\ Down(s, n).div_ctr[3] > 1
    <3>1. \A c \in Mixed : Down(s, n).div_ctr[c] =
            IF c \in {2, 3} /\ s.running[c] THEN s.div_ctr[c] - n ELSE s.div_ctr[c]
      BY <2>1, DownIsShaped
    <3>2. Down(s, n).div_ctr[2] \in {s.div_ctr[2] - n, s.div_ctr[2]}
          /\ Down(s, n).div_ctr[3] \in {s.div_ctr[3] - n, s.div_ctr[3]}
      BY <3>1, WaveAndNoise
    <3> QED  BY <1>1, <3>2
  <2>3. Substep(Down(s, n)) = Down(Down(s, n), 1)
    BY <2>1, <2>2, SubstepCounts
  <2> QED  BY <2>1, <2>3, DownTwice
<1>3. Substep(s) = Down(s, 1)
  BY <1>1, SubstepCounts
<1>4. /\ Substep(Down(s, 1)) = Down(s, 2) /\ Substep(Down(s, 2)) = Down(s, 3)
      /\ Substep(Down(s, 3)) = Down(s, 4)
  BY <1>2
<1>5. Skip(s) = Down(s, 4)
  BY DEF Skip, Down
<1> QED  BY <1>3, <1>4, <1>5 DEF FourSteps

-----------------------------------------------------------------------------
\* The ticks keep the record's shape; only with one are levels changed.
LEMMA WaveKeeps ==
  ASSUME NEW s, Shaped(s)
  PROVE  /\ Shaped(WaveTick(s)) /\ WaveTick(s).running = s.running
         /\ WaveTick(s).div_ctr[3] = s.div_ctr[3]
         /\ ~Due(s, 2) => Silent(s, WaveTick(s))
<1>1. s.running[2] \in BOOLEAN /\ s.div_ctr[2] \in Int /\ s.div_tc[2] \in Int
  BY WaveAndNoise DEF Shaped
<1>2. CASE ~s.running[2]
  BY <1>2 DEF WaveTick, Silent
<1>3. CASE s.running[2] /\ s.div_ctr[2] > 1
  <2> DEFINE d == [s.div_ctr EXCEPT ![2] = s.div_ctr[2] - 1]
  <2>1. WaveTick(s) = [s EXCEPT !.div_ctr = d]
    BY <1>3 DEF WaveTick
  <2>2. d \in [Mixed -> Int] /\ d[3] = s.div_ctr[3]
    BY <1>1, WaveAndNoise DEF Shaped
  <2> HIDE DEF d
  <2> QED  BY <2>1, <2>2 DEF Shaped, Silent, Fields
<1>4. CASE s.running[2] /\ ~(s.div_ctr[2] > 1)
  <2> DEFINE d == [s.div_ctr EXCEPT ![2] = 2 * s.div_tc[2]]
             l == [s.lvl EXCEPT ![2] = (IF s.vol[2] = 0 THEN 0 ELSE Halved(s.next, s.vol[2] - 1)) - Mid]
             p == (s.pos + 1) % Size
             x == 2 * s.ram[s.pos]
  <2>1. WaveTick(s) = [s EXCEPT !.div_ctr = d, !.pos = p, !.next = x, !.lvl = l]
    BY <1>4 DEF WaveTick
  <2>2. d \in [Mixed -> Int] /\ d[3] = s.div_ctr[3]
    BY <1>1, WaveAndNoise DEF Shaped
  <2>3. Due(s, 2)
    BY <1>1, <1>4 DEF Due
  <2> HIDE DEF d, l, p, x
  <2> QED  BY <2>1, <2>2, <2>3 DEF Shaped, Fields
<1> QED  BY <1>1, <1>2, <1>3, <1>4

LEMMA NoiseKeeps ==
  ASSUME NEW s, Shaped(s)
  PROVE  /\ Shaped(NoiseTick(s))
         /\ ~Due(s, 3) => Silent(s, NoiseTick(s))
<1>1. s.running[3] \in BOOLEAN /\ s.div_ctr[3] \in Int /\ s.div_tc[3] \in Int
  BY WaveAndNoise DEF Shaped
<1>2. CASE ~s.running[3]
  BY <1>2 DEF NoiseTick, Silent
<1>3. CASE s.running[3] /\ s.div_ctr[3] > 1
  <2> DEFINE d == [s.div_ctr EXCEPT ![3] = s.div_ctr[3] - 1]
  <2>1. NoiseTick(s) = [s EXCEPT !.div_ctr = d]
    BY <1>3 DEF NoiseTick
  <2>2. d \in [Mixed -> Int]
    BY <1>1, WaveAndNoise DEF Shaped
  <2> HIDE DEF d
  <2> QED  BY <2>1, <2>2 DEF Shaped, Silent, Fields
<1>4. CASE s.running[3] /\ ~(s.div_ctr[3] > 1)
  <2> DEFINE d == [s.div_ctr EXCEPT ![3] = s.div_tc[3]]
             v == NextValue(s.lfsr, s.narrow)
             l == [s.lvl EXCEPT ![3] = 2 * s.vol[3] * (v % 2) - Mid]
  <2>1. NoiseTick(s) = [s EXCEPT !.div_ctr = d, !.lfsr = v, !.lvl = l]
    BY <1>4 DEF NoiseTick
  <2>2. d \in [Mixed -> Int]
    BY <1>1, WaveAndNoise DEF Shaped
  <2>3. Due(s, 3)
    BY <1>1, <1>4 DEF Due
  <2> HIDE DEF d, l, v
  <2> QED  BY <2>1, <2>2, <2>3 DEF Shaped, Fields
<1> QED  BY <1>1, <1>2, <1>3, <1>4

LEMMA SubstepIsGood ==
  ASSUME NEW s, Good(s)
  PROVE  Good(Substep(s))
<1> DEFINE w == WaveTick(s)
           after == NoiseTick(w)
<1>1. Shaped(s) /\ Shaped(w) /\ Shaped(after)
  BY WaveKeeps, NoiseKeeps DEF Good
<1>2. CASE Due(s, 2) \/ Due(s, 3)
  <2>1. Substep(s) = UpdateLevel(after)
    BY <1>2 DEF Substep
  <2> HIDE DEF after
  <2> QED  BY <1>1, <2>1, MixingIsGood
<1>3. CASE ~(Due(s, 2) \/ Due(s, 3))
  <2>1. Substep(s) = after
    BY <1>3 DEF Substep
  <2>2. Silent(s, w) /\ ~Due(w, 3)
    BY <1>1, <1>3, WaveKeeps DEF Due
  <2>3. Good(w)
    <3> HIDE DEF w
    <3> QED  BY <1>1, <2>2, SilentIsGood
  <2>4. Silent(w, after)
    <3> HIDE DEF w
    <3> QED  BY <1>1, <2>2, NoiseKeeps
  <2> HIDE DEF w, after
  <2> QED  BY <1>1, <2>1, <2>3, <2>4, SilentIsGood
<1> QED  BY <1>2, <1>3

LEMMA FourStepsAreGood ==
  ASSUME NEW s, Good(s)
  PROVE  Good(FourSteps(s))
<1>1. Good(Substep(s))
  BY SubstepIsGood
<1>2. Good(Substep(Substep(s)))
  BY <1>1, SubstepIsGood
<1>3. Good(Substep(Substep(Substep(s))))
  BY <1>2, SubstepIsGood
<1> QED  BY <1>3, SubstepIsGood DEF FourSteps

\* The tones, which mix when a level has changed, whatever the sequencer does
\* in between.
Unmixed(s, t) ==
  /\ t.leftgate = s.leftgate /\ t.rightgate = s.rightgate /\ t.mute = s.mute
  /\ t.last = s.last /\ t.update_level = s.update_level /\ t.stale = s.stale

LEMMA ToneTickKeeps ==
  ASSUME NEW s, Shaped(s)
  PROVE  Shaped(ToneTick(s)) /\ Unmixed(s, ToneTick(s))
<1> DEFINE run == {c \in Tones : s.running[c]}
           ends(c) == c \in run /\ s.div_ctr[c] <= 1
           l == [c \in Mixed |-> IF c \in run THEN Square(s, c) ELSE s.lvl[c]]
           d == [c \in Mixed |-> IF ends(c) THEN s.div_tc[c]
                                 ELSE IF c \in run THEN s.div_ctr[c] - 1 ELSE s.div_ctr[c]]
           y == [c \in Tones |-> IF ends(c) THEN (s.duty_ctr[c] + 1) % 8 ELSE s.duty_ctr[c]]
<1>1. ToneTick(s) = [s EXCEPT !.lvl = l, !.div_ctr = d, !.duty_ctr = y]
  BY DEF ToneTick
<1>2. d \in [Mixed -> Int]
  BY DEF Shaped
<1> HIDE DEF l, d, y
<1> QED  BY <1>1, <1>2 DEF Shaped, Unmixed, Fields

LEMMA SequencedKeeps ==
  ASSUME NEW s, Shaped(s), NEW t \in Sequenced(s)
  PROVE  Shaped(t) /\ Unmixed(s, t) /\ t.lvl = s.lvl
<1>1. ASSUME NEW c \in Mixed, t = [s EXCEPT !.running[c] = FALSE]
      PROVE  Shaped(t) /\ Unmixed(s, t) /\ t.lvl = s.lvl
  BY <1>1 DEF Shaped, Unmixed, Fields
<1>2. ASSUME NEW c \in Mixed, NEW v \in Loud, t = [s EXCEPT !.vol[c] = v]
      PROVE  Shaped(t) /\ Unmixed(s, t) /\ t.lvl = s.lvl
  BY <1>2 DEF Shaped, Unmixed, Fields
<1>3. ASSUME NEW c \in Mixed, NEW p \in TonePeriods, t = [s EXCEPT !.div_tc[c] = p]
      PROVE  Shaped(t) /\ Unmixed(s, t) /\ t.lvl = s.lvl
  <2>1. p \in Int
    BY MixerAssumption
  <2> QED  BY <1>3, <2>1 DEF Shaped, Unmixed, Fields
<1> QED  BY <1>1, <1>2, <1>3 DEF Sequenced, Mixed

LEMMA MixTonesIsGood ==
  ASSUME NEW s, NEW t, Good(s), Shaped(t), Unmixed(s, t)
  PROVE  Good(MixTones(s, t))
<1>1. CASE t.lvl # s.lvl
  BY <1>1, MixingIsGood DEF MixTones
<1>2. CASE t.lvl = s.lvl
  BY <1>2, SilentIsGood DEF MixTones, Silent, Unmixed
<1> QED  BY <1>1, <1>2

-----------------------------------------------------------------------------
LEMMA StepIsGood ==
  ASSUME Good(mix), StepSound
  PROVE  Good(mix')
<1> DEFINE four == IF fast /\ Skippable(mix) THEN Skip(mix) ELSE FourSteps(mix)
           after == ToneTick(four)
<1>1. Good(four)
  BY FourStepsAreGood, SkipIsFourSteps DEF Good
<1> HIDE DEF four
<1>2. Shaped(after) /\ Unmixed(four, after)
  BY <1>1, ToneTickKeeps DEF Good
<1>3. CASE mix' = MixTones(four, after)
  BY <1>1, <1>2, <1>3, MixTonesIsGood
<1>4. ASSUME NEW changed \in Sequenced(after), mix' = MixTones(four, changed)
      PROVE  Good(mix')
  <2>1. Shaped(changed) /\ Unmixed(four, changed)
    BY <1>2, SequencedKeeps DEF Unmixed
  <2> QED  BY <1>1, <1>4, <2>1, MixTonesIsGood
<1> QED  BY <1>3, <1>4 DEF StepSound, four

LEMMA CallIsGood ==
  ASSUME Good(mix), NEW n, NEW quick, CallSound(n, quick)
  PROVE  Good(mix')
BY MixingIsGood DEF CallSound, Good

\* Registers that neither mix nor have to.
LEMMA RegistersAreGood ==
  ASSUME Good(mix),
         \/ \E c \in Mixed : StopChannel(c)
         \/ \E v \in Loud : WriteWaveLevel(v) \/ TriggerNoise(v)
         \/ \E c \in Tones, d \in Duties : WriteDuty(c, d)
         \/ \E c \in Tones, p \in TonePeriods :
              WriteTone(c, p) \/ \E v \in Loud : TriggerTone(c, p, v)
         \/ \E p \in WavePeriods : WriteWave(p) \/ TriggerWave(p)
         \/ \E p \in NoisePeriods, narrow \in BOOLEAN : WriteNoise(p, narrow)
         \/ \E r \in Rams : WriteWaveRam(r)
         \/ SwitchOn
  PROVE  Good(mix')
<1> SUFFICES Shaped(mix') /\ Silent(mix, mix')
  BY SilentIsGood
<1>0. Shaped(mix) /\ Tones \subseteq Mixed
      /\ \A p \in TonePeriods \cup WavePeriods \cup NoisePeriods : p \in Int
  BY MixerAssumption DEF Good, Mixed
<1>1. ASSUME NEW c \in Mixed, StopChannel(c)
      PROVE  Shaped(mix') /\ Silent(mix, mix')
  BY <1>0, <1>1 DEF StopChannel, WrittenOn, Written, Shaped, Silent, Fields
<1>2. ASSUME NEW v \in Loud, WriteWaveLevel(v) \/ TriggerNoise(v)
      PROVE  Shaped(mix') /\ Silent(mix, mix')
  <2>1. CASE WriteWaveLevel(v)
    BY <1>0, <2>1 DEF WriteWaveLevel, WrittenOn, Written, Shaped, Silent, Fields
  <2>2. CASE TriggerNoise(v)
    <3> DEFINE d == [mix.div_ctr EXCEPT ![3] = 0]
               u == [mix.running EXCEPT ![3] = TRUE]
               o == [mix.vol EXCEPT ![3] = v]
    <3>1. mix' = [mix EXCEPT !.div_ctr = d, !.lfsr = Full, !.running = u, !.vol = o]
      BY <2>2 DEF TriggerNoise, WrittenOn, Written
    <3>2. d \in [Mixed -> Int] /\ u \in [Mixed -> BOOLEAN]
      BY <1>0, 0 \in Int DEF Shaped
    <3> HIDE DEF d, u, o
    <3> QED  BY <1>0, <3>1, <3>2 DEF Shaped, Silent, Fields
  <2> QED  BY <1>2, <2>1, <2>2
<1>3. ASSUME NEW c \in Tones, NEW d \in Duties, WriteDuty(c, d)
      PROVE  Shaped(mix') /\ Silent(mix, mix')
  BY <1>0, <1>3 DEF WriteDuty, WrittenOn, Written, Shaped, Silent, Fields
<1>4. ASSUME NEW c \in Tones, NEW p \in TonePeriods,
             WriteTone(c, p) \/ \E v \in Loud : TriggerTone(c, p, v)
      PROVE  Shaped(mix') /\ Silent(mix, mix')
  <2> DEFINE t == [mix.div_tc EXCEPT ![c] = p]
             u == [mix.running EXCEPT ![c] = TRUE]
             o(v) == [mix.vol EXCEPT ![c] = v]
  <2>1. t \in [Mixed -> Int] /\ u \in [Mixed -> BOOLEAN]
    BY <1>0 DEF Shaped
  <2>2. CASE WriteTone(c, p)
    <3>1. mix' = [mix EXCEPT !.div_tc = t]
      BY <2>2 DEF WriteTone, WrittenOn, Written
    <3> HIDE DEF t
    <3> QED  BY <1>0, <2>1, <3>1 DEF Shaped, Silent, Fields
  <2>3. ASSUME NEW v \in Loud, TriggerTone(c, p, v)
        PROVE  Shaped(mix') /\ Silent(mix, mix')
    <3>1. mix' = [mix EXCEPT !.div_tc = t, !.running = u, !.vol = o(v)]
      BY <2>3 DEF TriggerTone, WrittenOn, Written
    <3> HIDE DEF t, u, o
    <3> QED  BY <1>0, <2>1, <3>1 DEF Shaped, Silent, Fields
  <2> QED  BY <1>4, <2>2, <2>3
<1>5. ASSUME NEW p \in WavePeriods, WriteWave(p) \/ TriggerWave(p)
      PROVE  Shaped(mix') /\ Silent(mix, mix')
  <2> DEFINE t == [mix.div_tc EXCEPT ![2] = p]
             u == [mix.running EXCEPT ![2] = TRUE]
  <2>1. t \in [Mixed -> Int] /\ u \in [Mixed -> BOOLEAN]
    BY <1>0 DEF Shaped
  <2>2. CASE WriteWave(p)
    <3>1. mix' = [mix EXCEPT !.div_tc = t]
      BY <2>2 DEF WriteWave, WrittenOn, Written
    <3> HIDE DEF t
    <3> QED  BY <1>0, <2>1, <3>1 DEF Shaped, Silent, Fields
  <2>3. CASE TriggerWave(p)
    <3>1. mix' = [mix EXCEPT !.div_tc = t, !.running = u, !.pos = 0]
      BY <2>3 DEF TriggerWave, WrittenOn, Written
    <3> HIDE DEF t, u
    <3> QED  BY <1>0, <2>1, <3>1 DEF Shaped, Silent, Fields
  <2> QED  BY <1>5, <2>2, <2>3
<1>6. ASSUME NEW p \in NoisePeriods, NEW narrow \in BOOLEAN, WriteNoise(p, narrow)
      PROVE  Shaped(mix') /\ Silent(mix, mix')
  <2> DEFINE t == [mix.div_tc EXCEPT ![3] = p]
             d == [mix.div_ctr EXCEPT ![3] = 0]
  <2>1. t \in [Mixed -> Int] /\ d \in [Mixed -> Int]
    BY <1>0, 0 \in Int DEF Shaped
  <2>2. mix' = [mix EXCEPT !.div_tc = t, !.div_ctr = d, !.narrow = narrow]
    BY <1>6 DEF WriteNoise, WrittenOn, Written
  <2> HIDE DEF t, d
  <2> QED  BY <1>0, <2>1, <2>2 DEF Shaped, Silent, Fields
<1>7. ASSUME NEW r \in Rams, WriteWaveRam(r)
      PROVE  Shaped(mix') /\ Silent(mix, mix')
  BY <1>0, <1>7 DEF WriteWaveRam, Written, Shaped, Silent, Fields
<1>8. ASSUME SwitchOn
      PROVE  Shaped(mix') /\ Silent(mix, mix')
  BY <1>0, <1>8 DEF SwitchOn, Written, Shaped, Silent, Fields
<1> QED  BY <1>1, <1>2, <1>3, <1>4, <1>5, <1>6, <1>7, <1>8

\* What leaves the level last mixed behind says so.
LEMMA GatesAreGood ==
  ASSUME Good(mix),
         \/ \E l, r \in Gates : WriteGates(l, r)
         \/ \E c \in Mixed : Mute(c)
         \/ SwitchOff
  PROVE  Good(mix')
<1>1. Shaped(mix)
  BY DEF Good
<1>2. ASSUME NEW l \in Gates, NEW r \in Gates, WriteGates(l, r)
      PROVE  Good(mix')
  BY <1>1, <1>2 DEF WriteGates, WrittenOn, Written, Good, Shaped, MixedUp, Fields
<1>3. ASSUME NEW c \in Mixed, Mute(c)
      PROVE  Good(mix')
  <2> DEFINE m == IF c \in mix.mute THEN mix.mute \ {c} ELSE mix.mute \cup {c}
  <2>1. mix' = [mix EXCEPT !.mute = m, !.stale = TRUE]
    BY <1>3 DEF Mute, Written
  <2> HIDE DEF m
  <2> QED  BY <1>1, <2>1 DEF Good, Shaped, MixedUp, Fields
<1>4. ASSUME SwitchOff
      PROVE  Good(mix')
  <2> DEFINE off == [c \in Mixed |-> FALSE]
             none == [c \in Mixed |-> 0]
             one == [c \in Mixed |-> 1]
             dv == [c \in Tones |-> {}]
             dc == [c \in Tones |-> 0]
  <2>1. mix' = [mix EXCEPT !.on = FALSE, !.stale = TRUE, !.running = off, !.vol = none,
                           !.lvl = none, !.div_tc = one, !.div_ctr = none,
                           !.duty_val = dv, !.duty_ctr = dc,
                           !.leftgate = {}, !.rightgate = {}]
    BY <1>4 DEF SwitchOff, Written
  <2>2. off \in [Mixed -> BOOLEAN] /\ none \in [Mixed -> Int] /\ one \in [Mixed -> Int]
    OBVIOUS
  <2> HIDE DEF off, none, one, dv, dc
  <2> QED  BY <1>1, <2>1, <2>2 DEF Good, Shaped, MixedUp, Fields
<1> QED  BY <1>2, <1>3, <1>4

LEMMA BeginningIsGood ==
  ASSUME NEW mute
  PROVE  Good(Initially(mute))
<1> DEFINE s == Initially(mute)
           off == [c \in Mixed |-> FALSE]
           none == [c \in Mixed |-> 0]
           periods == [c \in Mixed |-> CASE c \in Tones -> Longest(TonePeriods)
                                        [] c = 2 -> Longest(WavePeriods)
                                        [] c = 3 -> 8]
<1>1. /\ s = [f \in Fields |-> s[f]] /\ s.running = off /\ s.div_ctr = none
      /\ s.div_tc = periods /\ s.update_level
  BY DEF Initially, Fields
<1>2. off \in [Mixed -> BOOLEAN] /\ none \in [Mixed -> Int]
  OBVIOUS
<1>3. periods \in [Mixed -> Int]
  <2>1. Longest(TonePeriods) \in TonePeriods /\ Longest(WavePeriods) \in WavePeriods
    BY MixerAssumption DEF Longest
  <2>2. Longest(TonePeriods) \in Int /\ Longest(WavePeriods) \in Int
    BY <2>1, MixerAssumption
  <2> QED  BY <2>2 DEF Mixed
<1> QED  BY <1>1, <1>2, <1>3 DEF Good, Shaped, MixedUp

MixerInv == Good(mix)

LEMMA NextIsGood == MixerInv /\ [MixerNext]_mixerVars => MixerInv'
<1> SUFFICES ASSUME Good(mix), [MixerNext]_mixerVars PROVE Good(mix')
  BY DEF MixerInv
<1>1. CASE \E n \in Calls, quick \in BOOLEAN : CallSound(n, quick)
  BY <1>1, CallIsGood
<1>2. CASE StepSound
  BY <1>2, StepIsGood
<1>3. CASE MixerSubsong
  BY <1>3, BeginningIsGood DEF MixerSubsong
<1>4. CASE UNCHANGED mixerVars
  BY <1>4 DEF mixerVars
<1> QED
  BY <1>1, <1>2, <1>3, <1>4, RegistersAreGood, GatesAreGood DEF MixerNext

LEMMA AlwaysGood == MixerSpec => []MixerInv
<1>1. MixerInit => MixerInv
  BY BeginningIsGood DEF MixerInit, MixerInv
<1> QED  BY <1>1, NextIsGood, PTL DEF MixerSpec

\* gb_sound's short cut changes nothing but the time it takes, for any periods:
\* the counters alone decide, and they do not come to 0 in between.
THEOREM SkippedCyclesChangeNothing == MixerSpec => []SkipIsExact
<1>1. MixerInv => SkipIsExact
  BY SkipIsFourSteps DEF MixerInv, Good, SkipIsExact
<1> QED  BY <1>1, AlwaysGood, PTL

\* The sum in the buffer is that of the channels' levels, whichever registers
\* are written and whichever channels change, tick and stop in the same cycle.
THEOREM LevelsAreMixed == MixerSpec => []LevelIsMixed
<1>1. MixerInv => LevelIsMixed
  BY DEF MixerInv, Good, MixedUp, LevelIsMixed
<1> QED  BY <1>1, AlwaysGood, PTL
=============================================================================
