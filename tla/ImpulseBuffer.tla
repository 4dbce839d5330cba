---------------------------- MODULE ImpulseBuffer ----------------------------
(***************************************************************************)
(* The sound buffer's clock in gbhw.c: gb_sound counts emulated cycles in  *)
(* impbuf->CYC, gb_change_level turns that count into a position and    *)
(* adds an impulse around it, and gbhw_flush_buffer hands a block of       *)
(* samples to the plugout and moves what overlaps to the front.            *)
(*                                                                         *)
(* All positions come from integer divisions that round down, and gb_sound *)
(* takes a short cut when the buffer has room for a whole CPU step; the    *)
(* assertions in gb_change_level depend on both.                           *)
(***************************************************************************)
EXTENDS Integers

CONSTANTS
  DivTc,    \* sound_div_tc: cycles per sample, times Mult
  Mult,     \* SOUND_DIV_MULT
  Samples,  \* soundbuf->samples: samples per block
  Half,     \* IMPULSE_WIDTH / 2
  Steps,    \* numbers of cycles a CPU step can take
  MaxDone   \* bound on the number of cycles emulated since gbhw_init

ASSUME ConstAssumption ==
  /\ Mult \in Nat \ {0}
  /\ DivTc \in Nat \ {0}
  /\ Samples \in Nat \ {0}
  /\ Half \in Nat \ {0}
  /\ MaxDone \in Nat
\* The sample rate is at most the clock rate: a sample takes a cycle or more.
ASSUME RateAssumption == DivTc >= Mult
\* The first assertion of gb_sound.
ASSUME StepsAssumption == \A n \in Steps : n \in Nat \ {0} /\ n % 4 = 0

ImpSamples == Samples + 2 * Half + 1            \* impbuf->samples

\* Slip: a sample is forgotten.
BlockCycles_Short == (DivTc * (Samples - 1)) \div Mult

\* Slip: the position is rounded up.
Position_Up(c) == (c * Mult + DivTc - 1) \div DivTc

ResetCycles == (DivTc * Half) \div Mult         \* gbhw_impbuf_reset
MaxCycles == (DivTc * (ImpSamples - Half)) \div Mult
BlockCycles == (DivTc * Samples) \div Mult      \* what a flush takes off
Position(c) == (c * Mult) \div DivTc            \* in gb_change_level

VARIABLES
  impcycles,   \* impbuf->cycles
  path,     \* "idle" between CPU steps, then "fast" or "slow"
  left,     \* cycles of the CPU step still to be emulated
  at,       \* the position of the last impulse, or -1
  levels,   \* some channel's level may differ from the one last written
  done      \* cycles emulated since gbhw_init

bufferVars == <<impcycles, path, left, at, levels, done>>

-----------------------------------------------------------------------------
\* gbhw_init: the channels are silent, and so is last_l_value.
Reset ==
  /\ impcycles' = ResetCycles
  /\ path' = "idle"
  /\ left' = 0
  /\ at' = -1
  /\ levels' = FALSE
  /\ done' = 0

\* gb_sound is called for n cycles; the room left decides on the path.
Begin(n) ==
  /\ path = "idle" /\ left = 0
  /\ done + n <= MaxDone
  /\ path' = IF MaxCycles - impcycles >= n THEN "fast" ELSE "slow"
  /\ left' = n
  /\ UNCHANGED <<impcycles, at, levels, done>>

\* With room enough the count is not compared with the maximum any more.  Four
\* cycles may be skipped at once when neither channel 3 nor 4 is due.
FastTick(n) ==
  /\ path = "fast" /\ left >= n
  /\ n = 4 => left % 4 = 0
  /\ impcycles' = impcycles + n
  /\ left' = left - n
  /\ done' = done + n
  /\ levels' = TRUE
  /\ UNCHANGED <<path, at>>

\* Otherwise the block is flushed as soon as the count reaches the maximum.
SlowTick ==
  /\ path = "slow" /\ left > 0
  /\ impcycles' = IF impcycles + 1 >= MaxCycles THEN impcycles + 1 - BlockCycles
                                          ELSE impcycles + 1
  /\ left' = left - 1
  /\ done' = done + 1
  /\ levels' = TRUE
  /\ UNCHANGED <<path, at>>

End ==
  /\ path # "idle" /\ left = 0
  /\ path' = "idle"
  /\ UNCHANGED <<impcycles, left, at, levels, done>>

\* gb_change_level: after a substep, a main step, or a write to a gate or mute.
ChangeLevel ==
  /\ levels
  /\ at' = Position(impcycles)
  /\ UNCHANGED <<impcycles, path, left, levels, done>>

\* gbs_step ends the subsong between two CPU steps: gbhw_flush_buffer takes a
\* block off whatever the count is, and gbs_init resets it before it is used.
EndOfSubsong == path = "idle" /\ left = 0 /\ Reset

BufferInit ==
  /\ impcycles = ResetCycles
  /\ path = "idle"
  /\ left = 0
  /\ at = -1
  /\ levels = FALSE
  /\ done = 0

BufferNext ==
  \/ \E n \in Steps : Begin(n)
  \/ \E n \in {1, 4} : FastTick(n)
  \/ SlowTick \/ End \/ ChangeLevel \/ EndOfSubsong

BufferSpec == BufferInit /\ [][BufferNext]_bufferVars

-----------------------------------------------------------------------------
BufferTypeOK ==
  /\ impcycles \in Nat
  /\ path \in {"idle", "fast", "slow"}
  /\ left \in Nat
  /\ at \in Nat \cup {-1}
  /\ levels \in BOOLEAN
  /\ done \in Nat

\* assert(pos + imp_l >= 0): an impulse starts in the buffer, so a flush has
\* moved no less than the part that still changes to the front.
ImpulseStartsInBuffer == at # -1 => at - Half >= 0

\* assert(pos + imp_r < gbhw->impbuf->samples), as gb_change_level states it.
ImpulseEndsInBuffer == at # -1 => at + Half < ImpSamples

\* Both of gb_change_level's assertions.
ImpulseInBuffer == ImpulseStartsInBuffer /\ ImpulseEndsInBuffer

\* What that assertion protects: the last sample written, at + Half - 1, is one
\* of the buffer's, whatever the rate.
ImpulseWithinBuffer == at # -1 => at + Half <= ImpSamples

\* MaxCycles - cycles is unsigned in gb_sound: it must not wrap around, or the
\* fast path would be taken with a full buffer.
RoomNotNegative == impcycles <= MaxCycles

\* A flush moves the position back by the samples it hands out, or by one less
\* (both divisions round down): impulses keep their place in the stream.
FlushKeepsPlace ==
  [][ path = "slow" /\ impcycles' < impcycles =>
        Position(impcycles + 1) - Position(impcycles') \in {Samples - 1, Samples}
    ]_bufferVars
=============================================================================
