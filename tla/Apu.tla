--------------------------------- MODULE Apu ---------------------------------
(***************************************************************************)
(* The control state of the four sound channels in gbhw.c: what a write to *)
(* a sound register does to a channel (io_put), and what the 512 Hz        *)
(* sequencer does to all of them between two writes: length counters, the  *)
(* frequency sweep of channel 0, envelopes and the fade of the master      *)
(* volume.                                                                 *)
(*                                                                         *)
(* Left out, because nothing here depends on it: wave forms, duty cycles,  *)
(* the noise generator and the frequencies of channels 1 to 3, the gates   *)
(* and the levels mixed from all that.                                     *)
(***************************************************************************)
EXTENDS Integers

CONSTANTS
  LenPeriod,   \* len_mask[c] + 1
  FreqPeriod,  \* 2048
  LoPeriod,    \* values of the low frequency register, 256
  MaxVol,      \* largest volume of an envelope, 15
  MaxWaveVol,  \* largest volume of channel 2, 3
  MasterMax,   \* MASTER_VOL_MAX
  FadeUnit,    \* master_fade is in FadeUnit-ths of a volume step, 1024
  \* What the music program writes:
  Lens,        \* length counters
  Volumes,     \* initial volumes of an envelope
  Speeds,      \* envelope periods, 0: constant volume
  SweepTimes,  \* sweep periods, 0: no sweep
  Divisors,    \* 2^shift for a sweep's shift
  Los, His,    \* the two parts of a frequency
  Slopes       \* speeds of a master fade

Channel == 0 .. 3
Wave == 2

ASSUME PeriodAssumption ==
  /\ LenPeriod \in [Channel -> Nat \ {0, 1}]
  /\ FreqPeriod \in Nat \ {0, 1} /\ LoPeriod \in Nat \ {0}
  /\ MaxVol \in Nat \ {0} /\ MaxWaveVol \in 0 .. MaxVol
  /\ MasterMax \in Nat /\ FadeUnit \in Nat \ {0}
ASSUME WriteAssumption ==
  /\ \A c \in Channel : Lens \subseteq 0 .. LenPeriod[c] - 1
  /\ Volumes \subseteq 0 .. MaxVol
  /\ Speeds \subseteq Nat /\ SweepTimes \subseteq Nat
  /\ Divisors \subseteq 1 .. FreqPeriod
  /\ Los \subseteq Nat /\ His \subseteq Nat
  /\ \A lo \in Los \cup {0}, hi \in His \cup {0} :
       hi * LoPeriod + lo \in 0 .. FreqPeriod - 1
  /\ Slopes \subseteq Nat \ {0}

VARIABLES
  apu_on,
  sequence_ctr,   \* modulo 8, of which only three bits are used
  ch,             \* gbhw->ch
  sweep,          \* the sweep unit of channel 0: tc, ctr, dir, divisor, shadow
  freq,           \* ioregs 0x13 and 0x14: lo and hi
  div_tc,         \* ch[0].div_tc
  master_volume, master_fade, master_fade_remainder, master_dstvol

masterVars == <<master_volume, master_fade, master_fade_remainder, master_dstvol>>
sweepVars == <<sweep, freq, div_tc>>
vars == <<apu_on, sequence_ctr, ch, sweepVars, masterVars>>

-----------------------------------------------------------------------------
\* apu_reset: every channel is cleared, but counts as a master.
ResetChannel ==
  [running |-> FALSE, master |-> TRUE, len |-> 0, len_enable |-> FALSE,
   len_gate |-> FALSE, volume |-> 0, env_volume |-> 0, env_dir |-> "down",
   env_tc |-> 0, env_ctr |-> 0]
ResetSweep == [tc |-> 0, ctr |-> 0, dir |-> "down", divisor |-> 1, shadow |-> 0]

\* gbhw_init: that, and then ioregs_initdata is written: length counters at
\* their maximum, triggered, with the volume and so the master at 0.
InitChannel(c) ==
  [ResetChannel EXCEPT !.master = FALSE, !.len = LenPeriod[c] - 1, !.len_gate = TRUE]
InitHi == (FreqPeriod - 1) \div LoPeriod
InitPeriod == FreqPeriod - InitHi * LoPeriod

\* sequencer_update_len
ClockLen(chan, c) ==
  IF ~(chan.len_enable /\ chan.len_gate) THEN chan
  ELSE IF (chan.len + 1) % LenPeriod[c] = 0
  THEN [chan EXCEPT !.len = 0, !.env_volume = 0, !.env_tc = 0,
                    !.running = FALSE, !.len_gate = FALSE]
  ELSE [chan EXCEPT !.len = @ + 1]

\* The sequencer's next step does not clock the length counters.
FirstHalf == sequence_ctr % 2 = 1

\* Slip: a channel without volume can be triggered.
Trigger_NoMaster(chan, c, enable) ==
  [chan EXCEPT !.len_enable = enable, !.len_gate = TRUE, !.env_volume = chan.volume,
               !.running = TRUE]

\* A write to NRx4 with bit 7 set: the length counter thaws, and is clocked
\* for it if it was enabled and stays so.
Trigger(chan, c, enable) ==
  LET thawed == [chan EXCEPT !.len_enable = enable, !.len_gate = TRUE,
                             !.env_volume = chan.volume]
      clocked == IF ~chan.len_gate /\ chan.len_enable /\ enable /\ FirstHalf
                 THEN ClockLen(thawed, c) ELSE thawed
  IN  [clocked EXCEPT !.running = @ \/ clocked.master]

\* NRx4: enabling the counter in the first half of a period clocks it, too.
Control(chan, c, enable, trigger) ==
  LET after == IF trigger THEN Trigger(chan, c, enable)
                          ELSE [chan EXCEPT !.len_enable = enable]
  IN  IF ~chan.len_enable /\ enable /\ FirstHalf THEN ClockLen(after, c) ELSE after

\* NRx2: a channel with neither a volume nor a rising one is off.
Envelope(chan, vol, dir, speed) ==
  LET master == vol # 0 \/ dir = "up"
  IN  [chan EXCEPT !.volume = vol, !.env_dir = dir, !.env_tc = speed,
                   !.env_ctr = speed, !.master = master, !.running = @ /\ master]

\* The amount a sweep moves a period, and sweep_check_overflow: whether it
\* would be moved to 0 or below.  A shift of 0 is never found to overflow.
SweepBy(s) == (FreqPeriod - s.shadow) \div s.divisor
\* Slip: a period of 0 is let through.
Overflows_Strict(s) == s.divisor # 1 /\ s.dir = "down" /\ s.shadow < SweepBy(s)

Overflows(s) == s.divisor # 1 /\ s.dir = "down" /\ s.shadow <= SweepBy(s)

Period(hi, lo) == FreqPeriod - (hi * LoPeriod + lo)

-----------------------------------------------------------------------------
\* io_put, one action per register.  While the APU is off, writes to registers
\* other than NR52 are ignored.
WriteSweep(tc, dir, divisor) ==        \* NR10
  /\ apu_on
  /\ sweep' = [sweep EXCEPT !.tc = tc, !.ctr = tc, !.dir = dir, !.divisor = divisor]
  /\ UNCHANGED <<apu_on, sequence_ctr, ch, freq, div_tc, masterVars>>

WriteLength(c, n) ==                   \* NR11, NR21, NR31, NR41
  /\ apu_on
  /\ ch' = [ch EXCEPT ![c].len = n, ![c].len_gate = TRUE]
  /\ UNCHANGED <<apu_on, sequence_ctr, sweepVars, masterVars>>

WriteEnvelope(c, vol, dir, speed) ==   \* NR12, NR22, NR42
  /\ apu_on /\ c # Wave
  /\ ch' = [ch EXCEPT ![c] = Envelope(@, vol, dir, speed)]
  /\ UNCHANGED <<apu_on, sequence_ctr, sweepVars, masterVars>>

WriteWaveMaster(master) ==             \* NR30
  /\ apu_on
  /\ ch' = [ch EXCEPT ![Wave].master = master, ![Wave].running = @ /\ master]
  /\ UNCHANGED <<apu_on, sequence_ctr, sweepVars, masterVars>>

WriteWaveVolume(vol) ==                \* NR32
  /\ apu_on
  /\ ch' = [ch EXCEPT ![Wave].volume = vol, ![Wave].env_volume = vol]
  /\ UNCHANGED <<apu_on, sequence_ctr, sweepVars, masterVars>>

WriteFreqLow(lo) ==                    \* NR13
  /\ apu_on
  /\ freq' = [freq EXCEPT !.lo = lo]
  /\ div_tc' = Period(freq.hi, lo)
  /\ UNCHANGED <<apu_on, sequence_ctr, ch, sweep, masterVars>>

WriteControl(c, enable, trigger) ==    \* NR24, NR34, NR44
  /\ apu_on /\ c # 0
  /\ ch' = [ch EXCEPT ![c] = Control(@, c, enable, trigger)]
  /\ UNCHANGED <<apu_on, sequence_ctr, sweepVars, masterVars>>

WriteControl0(hi, enable, trigger) ==  \* NR14
  /\ apu_on
  /\ freq' = [freq EXCEPT !.hi = hi]
  /\ div_tc' = Period(hi, freq.lo)
  /\ sweep' = IF trigger THEN [sweep EXCEPT !.shadow = Period(hi, freq.lo)] ELSE sweep
  /\ LET after == Control(ch[0], 0, enable, trigger)
     IN  ch' = [ch EXCEPT ![0] = [after EXCEPT
                  !.running = @ /\ ~(trigger /\ Overflows(sweep'))]]
  /\ UNCHANGED <<apu_on, sequence_ctr, masterVars>>

PowerOn == apu_on' = TRUE /\ UNCHANGED <<sequence_ctr, ch, sweepVars, masterVars>>

PowerOff ==
  /\ apu_on' = FALSE
  /\ sequence_ctr' = 0
  /\ ch' = [c \in Channel |-> ResetChannel]
  /\ sweep' = ResetSweep
  /\ freq' = [lo |-> 0, hi |-> 0]
  /\ div_tc' = 1
  /\ UNCHANGED masterVars

-----------------------------------------------------------------------------
\* sequencer_step, in parts.
ClockSweep ==
  IF sequence_ctr \notin {2, 6} \/ sweep.tc = 0 THEN UNCHANGED <<sweep, div_tc>>
  ELSE IF sweep.ctr > 0
  THEN sweep' = [sweep EXCEPT !.ctr = @ - 1] /\ UNCHANGED div_tc
  ELSE LET by == IF sweep.dir = "up" THEN SweepBy(sweep) ELSE -SweepBy(sweep)
       IN  IF Overflows(sweep)
           THEN sweep' = [sweep EXCEPT !.ctr = sweep.tc] /\ UNCHANGED div_tc
           ELSE /\ sweep' = [sweep EXCEPT !.ctr = sweep.tc, !.shadow = @ + by]
                /\ div_tc' = sweep.shadow + by
SweptOut == sequence_ctr \in {2, 6} /\ sweep.tc # 0 /\ sweep.ctr <= 0 /\ Overflows(sweep)

\* Slip: an envelope that has come to 0 is taken for ended.
ClockEnvelope_ZeroEnds(chan) ==
  IF chan.env_tc = 0 \/ ~chan.running \/ chan.env_volume = 0 THEN chan
  ELSE [chan EXCEPT !.env_volume = IF chan.env_dir = "down" THEN @ - 1
                                   ELSE IF @ < MaxVol THEN @ + 1 ELSE @]

ClockEnvelope(chan) ==
  IF chan.env_tc = 0 THEN chan
  ELSE IF chan.env_ctr > 1 THEN [chan EXCEPT !.env_ctr = @ - 1]
  ELSE [chan EXCEPT !.env_ctr = chan.env_tc,
          !.env_volume = IF ~chan.running THEN @
                         ELSE IF chan.env_dir = "down" THEN IF @ > 0 THEN @ - 1 ELSE @
                         ELSE IF @ < MaxVol THEN @ + 1 ELSE @]

ClockChannel(c) ==
  LET chan == [ch[c] EXCEPT !.running = @ /\ ~(c = 0 /\ SweptOut)]
  IN  IF sequence_ctr % 2 = 0 THEN ClockLen(chan, c)
      ELSE IF sequence_ctr = 7 THEN ClockEnvelope(chan) ELSE chan

\* Division truncates towards 0 in C.
Truncated(a) == IF a >= 0 THEN a \div FadeUnit ELSE -((-a) \div FadeUnit)

ClockFade ==
  IF master_fade = 0 THEN UNCHANGED masterVars
  ELSE LET fade == master_fade + master_fade_remainder
           volume == master_volume + Truncated(fade)
           done == \/ master_fade > 0 /\ volume >= master_dstvol
                   \/ master_fade < 0 /\ volume <= master_dstvol
       IN  /\ master_fade_remainder' = fade - FadeUnit * Truncated(fade)
           /\ master_volume' = IF done THEN master_dstvol ELSE volume
           /\ master_fade' = IF done THEN 0 ELSE master_fade
           /\ UNCHANGED master_dstvol

SequencerStep ==
  /\ ClockSweep
  /\ ch' = [c \in Channel |-> ClockChannel(c)]
  /\ ClockFade
  /\ sequence_ctr' = (sequence_ctr + 1) % 8
  /\ UNCHANGED <<apu_on, freq>>

\* gbhw_master_fade
MasterFade(slope, dstvol) ==
  /\ master_dstvol' = dstvol
  /\ master_fade_remainder' = 0
  /\ master_fade' = IF dstvol > master_volume THEN slope ELSE -slope
  /\ UNCHANGED <<apu_on, sequence_ctr, ch, sweepVars, master_volume>>

\* gbhw_init, when the next subsong begins.
NextSubsong ==
  /\ apu_on' = TRUE
  /\ sequence_ctr' = 0
  /\ ch' = [c \in Channel |-> InitChannel(c)]
  /\ sweep' = [ResetSweep EXCEPT !.shadow = InitPeriod]
  /\ freq' = [lo |-> 0, hi |-> InitHi]
  /\ div_tc' = InitPeriod
  /\ master_volume' = MasterMax
  /\ master_fade' = 0
  /\ UNCHANGED <<master_fade_remainder, master_dstvol>>

Init ==
  /\ apu_on = TRUE
  /\ sequence_ctr = 0
  /\ ch = [c \in Channel |-> InitChannel(c)]
  /\ sweep = [ResetSweep EXCEPT !.shadow = InitPeriod]
  /\ freq = [lo |-> 0, hi |-> InitHi]
  /\ div_tc = InitPeriod
  /\ master_volume = MasterMax
  /\ master_fade = 0
  /\ master_fade_remainder = 0
  /\ master_dstvol = 0

\* The registers of a channel.
WriteTo(c) ==
  \/ \E n \in Lens : WriteLength(c, n)
  \/ \E vol \in Volumes, dir \in {"down", "up"}, s \in Speeds :
       WriteEnvelope(c, vol, dir, s)
  \/ \E enable, trigger \in BOOLEAN : WriteControl(c, enable, trigger)
WriteToTone ==
  \/ \E tc \in SweepTimes, dir \in {"down", "up"}, d \in Divisors : WriteSweep(tc, dir, d)
  \/ \E lo \in Los : WriteFreqLow(lo)
  \/ \E hi \in His, enable, trigger \in BOOLEAN : WriteControl0(hi, enable, trigger)
WriteToWave ==
  \/ \E master \in BOOLEAN : WriteWaveMaster(master)
  \/ \E vol \in 0 .. MaxWaveVol : WriteWaveVolume(vol)
Write ==
  \/ \E c \in Channel : WriteTo(c)
  \/ WriteToTone \/ WriteToWave
  \/ PowerOn \/ PowerOff
Fade == \E slope \in Slopes, dstvol \in 0 .. MasterMax : MasterFade(slope, dstvol)

Next == Write \/ SequencerStep \/ NextSubsong \/ Fade

Spec == Init /\ [][Next]_vars

\* gb_sound_mainstep calls the sequencer every 2048th time: it goes on for as
\* long as the CPU is not locked up.
FairSpec == Spec /\ WF_vars(SequencerStep)

-----------------------------------------------------------------------------
TypeOK ==
  /\ apu_on \in BOOLEAN
  /\ sequence_ctr \in 0 .. 7
  /\ ch \in [Channel -> [running: BOOLEAN, master: BOOLEAN, len: Nat,
                         len_enable: BOOLEAN, len_gate: BOOLEAN,
                         volume: Nat, env_volume: Nat, env_dir: {"down", "up"},
                         env_tc: Nat, env_ctr: Nat]]
  /\ sweep \in [tc: Nat, ctr: Nat, dir: {"down", "up"}, divisor: Nat \ {0}, shadow: Int]
  /\ freq \in [lo: Nat, hi: Nat]
  /\ div_tc \in Int
  /\ {master_volume, master_dstvol} \subseteq Nat
  /\ {master_fade, master_fade_remainder} \subseteq Int

\* A channel runs only while the sound is on and the channel's register with the
\* volume (NR30 for the wave) leaves it on, whichever of trigger, sweep, length,
\* NR52 and that register came last (io_put, "if (ch.master) ch.running = 1").
RunningHasMaster == \A c \in Channel : ch[c].running => ch[c].master /\ apu_on

\* A length counter is frozen only at 0 and only when its channel is off, so
\* that neither a channel plays on with a frozen counter, nor the extra clock
\* of the trigger that thaws a counter ends the note it starts.
FrozenIsOff ==
  \A c \in Channel :
    /\ ch[c].len \in 0 .. LenPeriod[c] - 1
    /\ ~ch[c].len_gate => ch[c].len = 0 /\ ~ch[c].running

\* A sweep with a shift never moves the period out of 1 .. 2048: where it
\* would, sweep_check_overflow ends the note.
SweepKeepsPeriod ==
  [][ SequencerStep /\ sweep.divisor # 1 /\ sweep.shadow \in 0 .. FreqPeriod =>
        /\ sweep'.shadow \in 0 .. FreqPeriod
        /\ div_tc' \in {div_tc} \cup 1 .. FreqPeriod ]_vars

\* The program has written its last: only the sequencer goes on.
Quiet == <>[][SequencerStep]_vars

\* Then every note with its length counter enabled ends, every envelope ends at
\* the volume it runs to, and every fade comes to the volume it was told and not
\* beyond it; the next subsong begins at the full one.
SoundsEnd ==
  Quiet =>
    /\ \A c \in Channel :
         <>[] /\ ch[c].len_enable => ~ch[c].running
              /\ ch[c].running /\ ch[c].env_tc # 0 =>
                   ch[c].env_volume = IF ch[c].env_dir = "down" THEN 0 ELSE MaxVol
    /\ <>[](master_fade = 0 /\ master_volume \in {master_dstvol, MasterMax})
=============================================================================
