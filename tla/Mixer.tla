-------------------------------- MODULE Mixer --------------------------------
(***************************************************************************)
(* What the sound channels of gbhw.c add up to, cycle by cycle (gb_sound,  *)
(* gb_sound_substep, gb_sound_mainstep): the wave channel reads its samples, *)
(* the noise channel shifts its register (gblfsr.c), the tone channels go  *)
(* through their duty cycles, and whenever a level changes they are mixed  *)
(* through the gates.  gb_sound goes on in steps of four cycles and skips  *)
(* the cycles in which neither wave nor noise can change.                  *)
(*                                                                         *)
(* When channels run, and how loud, is module Apu's: here the sequencer    *)
(* and the writes may stop a channel or set its volume at any step.        *)
(***************************************************************************)
EXTENDS Integers
LOCAL INSTANCE FiniteSetsExt

CONSTANTS
  Tones,         \* the tone channels, 0 and 1
  Mid,           \* 15: the volume of a level of 0
  Width,         \* bits of the noise register, 15
  NarrowBit,     \* the bit that a narrow register feeds, too, 6
  Size,          \* samples of the wave, 32
  Rams,          \* contents of the wave's registers
  TonePeriods, WavePeriods, NoisePeriods,  \* values of div_tc
  Loud,          \* volumes
  Duties,        \* values of duty_val: the set of the eighths that are high
  Gates,         \* sets of channels
  Calls,         \* lengths of calls of gb_sound, in steps of four cycles
  MaxTime,       \* bound on the steps since gbhw_init
  MaxWrites      \* bound on the changes made to the channels since then

Mixed == Tones \cup {2, 3}

ASSUME MixerAssumption ==
  /\ Tones \subseteq {0, 1}
  /\ Mid \in Nat /\ NarrowBit \in Nat /\ Width \in Nat /\ NarrowBit < Width
  /\ Size \in Nat \ {0} /\ Rams \subseteq [0 .. Size - 1 -> 0 .. 15]
  /\ TonePeriods \cup WavePeriods \cup NoisePeriods \subseteq Nat \ {0}
  /\ \A periods \in {TonePeriods, WavePeriods} :
       \E p \in periods : \A q \in periods : q <= p
  /\ Loud \subseteq Nat /\ 0 \in Loud
  /\ \A d \in Duties : d \subseteq 0 .. 7
  /\ \A g \in Gates : g \subseteq Mixed
  /\ Calls \subseteq Nat \ {0} /\ MaxTime \in Nat /\ MaxWrites \in Nat

VARIABLES
  mix,    \* the state of the channels, and what has last been mixed
  steps,  \* that the call of gb_sound still has to do
  fast,   \* it is on the path that does not flush
  time,   \* steps since gbhw_init
  writes  \* and changes, by registers or by the sequencer

mixerVars == <<mix, steps, fast, time, writes>>

-----------------------------------------------------------------------------
\* gblfsr_next_value
Full == 2^Width - 1
BitAt(v, i) == (v \div 2^i) % 2
NextValue(v, narrow) ==
  LET shifted == v \div 2
      xor_out == (BitAt(v, 0) + BitAt(v, 1)) % 2
      wide == shifted + xor_out * 2^(Width - 1)
  IN  IF narrow THEN wide + (xor_out - BitAt(wide, NarrowBit)) * 2^NarrowBit
                ELSE wide

\* gb_sound_update_level: stale is a history variable, the channels may differ
\* from what has last been mixed and no mixing is due.
Sum(lvl, open) == MapThenSumSet(LAMBDA c : lvl[c], open)
Levels(s) == [l |-> Sum(s.lvl, s.leftgate \ s.mute), r |-> Sum(s.lvl, s.rightgate \ s.mute)]

\* Slip: the right side is written only when the left one has changed.
UpdateLevel_Left(s) ==
  [s EXCEPT !.update_level = FALSE, !.stale = FALSE,
            !.last = IF @.l = Levels(s).l THEN @ ELSE Levels(s)]

UpdateLevel(s) ==
  [s EXCEPT !.update_level = FALSE, !.stale = FALSE, !.last = Levels(s)]

\* gb_sound_substep: one cycle of the wave, of the noise, and the level.
Halved(val, times) == val \div 2^times

WaveTick(s) ==
  IF ~s.running[2] THEN s
  ELSE IF s.div_ctr[2] > 1 THEN [s EXCEPT !.div_ctr[2] = @ - 1]
  ELSE [s EXCEPT
          !.div_ctr[2] = 2 * s.div_tc[2],
          !.pos = (@ + 1) % Size,
          !.next = 2 * s.ram[s.pos],
          !.lvl[2] = (IF s.vol[2] = 0 THEN 0 ELSE Halved(s.next, s.vol[2] - 1)) - Mid]

NoiseTick(s) ==
  IF ~s.running[3] THEN s
  ELSE IF s.div_ctr[3] > 1 THEN [s EXCEPT !.div_ctr[3] = @ - 1]
  ELSE LET value == NextValue(s.lfsr, s.narrow)
       IN  [s EXCEPT !.div_ctr[3] = s.div_tc[3],
                     !.lfsr = value,
                     !.lvl[3] = 2 * s.vol[3] * (value % 2) - Mid]

Due(s, c) == s.running[c] /\ s.div_ctr[c] <= 1
Substep(s) ==
  LET after == NoiseTick(WaveTick(s))
  IN  IF Due(s, 2) \/ Due(s, 3) THEN UpdateLevel(after) ELSE after

\* gb_sound_mainstep: a quarter of the cycles of the tone channels.
Bit(s, c) == IF s.duty_ctr[c] \in s.duty_val[c] THEN 1 ELSE 0
Square(s, c) == 2 * Bit(s, c) * s.vol[c] - Mid
ToneTick(s) ==
  LET run == {c \in Tones : s.running[c]}
      ends(c) == c \in run /\ s.div_ctr[c] <= 1
  IN  [s EXCEPT
         !.lvl = [c \in Mixed |-> IF c \in run THEN Square(s, c) ELSE @[c]],
         !.div_ctr = [c \in Mixed |-> IF ends(c) THEN s.div_tc[c]
                                      ELSE IF c \in run THEN @[c] - 1 ELSE @[c]],
         !.duty_ctr = [c \in Tones |-> IF ends(c) THEN (@[c] + 1) % 8 ELSE @[c]]]

\* sequencer_step, where it is due, stops a channel, changes its volume, or the
\* period of channel 0.
Sequenced(s) ==
  {[s EXCEPT !.running[c] = FALSE] : c \in Mixed}
  \cup {[s EXCEPT !.vol[c] = v] : c \in Mixed \ {2}, v \in Loud}
  \cup {[s EXCEPT !.div_tc[c] = p] : c \in Tones \cap {0}, p \in TonePeriods}

MixTones(before, after) == IF after.lvl # before.lvl THEN UpdateLevel(after) ELSE after

\* Four cycles of gb_sound, one by one ...
FourSteps(s) == Substep(Substep(Substep(Substep(s))))

\* Slip: only the noise is looked at.
Skippable_Noise(s) == s.div_ctr[3] > 4

\* ... or at once.
Skippable(s) == s.div_ctr[2] > 4 /\ s.div_ctr[3] > 4
Skip(s) ==
  [s EXCEPT !.div_ctr = [c \in Mixed |-> IF c \in {2, 3} /\ s.running[c] THEN @[c] - 4 ELSE @[c]]]

-----------------------------------------------------------------------------
\* gb_sound: a call of n steps begins; which path it takes is module
\* ImpulseBuffer's.
CallSound(n, path) ==
  /\ steps = 0 /\ time + n <= MaxTime
  /\ steps' = n /\ fast' = path
  /\ mix' = IF mix.update_level THEN UpdateLevel(mix) ELSE mix
  /\ UNCHANGED <<time, writes>>

StepSound ==
  /\ steps > 0
  /\ steps' = steps - 1 /\ time' = time + 1
  /\ UNCHANGED fast
  /\ LET four == IF fast /\ Skippable(mix) THEN Skip(mix) ELSE FourSteps(mix)
         after == ToneTick(four)
     IN  \/ mix' = MixTones(four, after) /\ UNCHANGED writes
         \/ /\ writes < MaxWrites /\ writes' = writes + 1
            /\ \E changed \in Sequenced(after) : mix' = MixTones(four, changed)

-----------------------------------------------------------------------------
\* io_put, between two calls.
Written(after) ==
  /\ steps = 0 /\ writes < MaxWrites
  /\ writes' = writes + 1
  /\ mix' = after
  /\ UNCHANGED <<steps, fast, time>>

\* A register of a channel, while the sound is on.
WrittenOn(after) == mix.on /\ Written(after)

\* NRx2 or NR30 without a volume, NR32, NRx1
StopChannel(c) == WrittenOn([mix EXCEPT !.running[c] = FALSE])
WriteWaveLevel(v) == WrittenOn([mix EXCEPT !.vol[2] = v])
WriteDuty(c, d) == WrittenOn([mix EXCEPT !.duty_val[c] = d])

\* NRx3 and NRx4 of the tones and the wave, perhaps with a trigger, which takes
\* the volume of NRx2.
WriteTone(c, p) == WrittenOn([mix EXCEPT !.div_tc[c] = p])
TriggerTone(c, p, v) ==
  WrittenOn([mix EXCEPT !.div_tc[c] = p, !.running[c] = TRUE, !.vol[c] = v])
WriteWave(p) == WrittenOn([mix EXCEPT !.div_tc[2] = p])
TriggerWave(p) == WrittenOn([mix EXCEPT !.div_tc[2] = p, !.running[2] = TRUE, !.pos = 0])

\* NR43, and NR44 with a trigger: either makes the register shift in the next
\* cycle.
WriteNoise(p, narrow) ==
  WrittenOn([mix EXCEPT !.div_tc[3] = p, !.div_ctr[3] = 0, !.narrow = narrow])
TriggerNoise(v) ==
  WrittenOn([mix EXCEPT !.div_ctr[3] = 0, !.lfsr = Full, !.running[3] = TRUE, !.vol[3] = v])

\* NR51
WriteGates(l, r) ==
  WrittenOn([mix EXCEPT !.leftgate = l, !.rightgate = r, !.update_level = TRUE])

\* NR52: apu_reset clears the channels and their gates, but for what is muted,
\* and neither the noise's register nor the wave's position.
SwitchOff ==
  Written([mix EXCEPT
    !.on = FALSE, !.stale = TRUE,
    !.running = [c \in Mixed |-> FALSE], !.vol = [c \in Mixed |-> 0],
    !.lvl = [c \in Mixed |-> 0],
    !.div_tc = [c \in Mixed |-> 1], !.div_ctr = [c \in Mixed |-> 0],
    !.duty_val = [c \in Tones |-> {}], !.duty_ctr = [c \in Tones |-> 0],
    !.leftgate = {}, !.rightgate = {}])
SwitchOn == ~mix.on /\ Written([mix EXCEPT !.on = TRUE])

\* The wave's registers take values with the sound off, too.
WriteWaveRam(ram) == Written([mix EXCEPT !.ram = ram])

\* gbs_toggle_mute
Mute(c) ==
  Written([mix EXCEPT !.mute = IF c \in @ THEN @ \ {c} ELSE @ \cup {c}, !.stale = TRUE])

\* gbhw_init: the registers of ioregs_initdata, with the longest period and no
\* volume, and the right side of the tones only.
Longest(periods) == CHOOSE p \in periods : \A q \in periods : q <= p
SomeRam == CHOOSE r \in Rams : TRUE

Initially(mute) ==
  [on |-> TRUE, update_level |-> TRUE, stale |-> FALSE, mute |-> mute,
   running |-> [c \in Mixed |-> FALSE], vol |-> [c \in Mixed |-> 0],
   lvl |-> [c \in Mixed |-> 0],
   div_tc |-> [c \in Mixed |-> CASE c \in Tones -> Longest(TonePeriods)
                                   [] c = 2 -> Longest(WavePeriods)
                                   [] c = 3 -> 8],
   div_ctr |-> [c \in Mixed |-> 0],
   duty_val |-> [c \in Tones |-> 0 .. 3], duty_ctr |-> [c \in Tones |-> 0],
   pos |-> 0, next |-> 0, ram |-> SomeRam, lfsr |-> Full, narrow |-> FALSE,
   leftgate |-> Mixed, rightgate |-> Tones, last |-> [l |-> 0, r |-> 0]]

MixerSubsong ==
  /\ steps = 0
  /\ mix' = Initially(mix.mute)
  /\ time' = 0 /\ writes' = 0
  /\ UNCHANGED <<steps, fast>>

MixerInit ==
  /\ mix = Initially({})
  /\ steps = 0 /\ fast = FALSE /\ time = 0 /\ writes = 0

MixerNext ==
  \/ \E n \in Calls, path \in BOOLEAN : CallSound(n, path)
  \/ StepSound
  \/ \E c \in Mixed : StopChannel(c) \/ Mute(c)
  \/ \E c \in Tones, d \in Duties : WriteDuty(c, d)
  \/ \E c \in Tones, p \in TonePeriods :
       WriteTone(c, p) \/ \E v \in Loud : TriggerTone(c, p, v)
  \/ \E v \in Loud : WriteWaveLevel(v) \/ TriggerNoise(v)
  \/ \E p \in WavePeriods : WriteWave(p) \/ TriggerWave(p)
  \/ \E p \in NoisePeriods, narrow \in BOOLEAN : WriteNoise(p, narrow)
  \/ \E l, r \in Gates : WriteGates(l, r)
  \/ \E r \in Rams : WriteWaveRam(r)
  \/ SwitchOff \/ SwitchOn \/ MixerSubsong

MixerSpec == MixerInit /\ [][MixerNext]_mixerVars

-----------------------------------------------------------------------------
MixerTypeOK ==
  /\ mix.running \in [Mixed -> BOOLEAN]
  /\ mix.lvl \in [Mixed -> Int]
  /\ mix.div_ctr \in [Mixed -> Int]
  /\ mix.duty_ctr \in [Tones -> 0 .. 7]
  /\ mix.pos \in 0 .. Size - 1
  /\ mix.lfsr \in 0 .. Full
  /\ steps \in Nat /\ fast \in BOOLEAN

\* gb_sound skips cycles ("can skip calling gb_sound_substep, only update
\* counters") only where going through them one by one comes to the same.
SkipIsExact == Skippable(mix) => Skip(mix) = FourSteps(mix)

\* What goes to the buffer is always the sum of the levels through the gates,
\* each side its own: no change of a level, of a gate or of a volume is left
\* unmixed when gb_sound returns, whichever channels change in whichever cycles.
\* Only what is switched off or muted may sound on until the next change.
LevelIsMixed == ~mix.update_level /\ ~mix.stale => mix.last = Levels(mix)
=============================================================================
