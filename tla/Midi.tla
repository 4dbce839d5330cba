--------------------------------- MODULE Midi ---------------------------------
(***************************************************************************)
(* The MIDI writers: plugout_midi.c follows the registers that the program *)
(* writes, plugout_altmidi.c what the channels of the emulation do, and    *)
(* both write events through midifile.c, which keeps the note that each    *)
(* channel has on and the time of the last event.                          *)
(*                                                                         *)
(* Volumes are 0 or 1; a frequency is a pair of register values, of which  *)
(* only the note it rounds to matters.  The status that the alternative    *)
(* writer sees is any status.                                              *)
(***************************************************************************)
EXTENDS Integers, SequencesExt

CONSTANTS
  Plugins,     \* a subset of {"midi", "altmidi"}
  Resolution,  \* 2^CYCLE_RESOLUTION_BIT_SHIFT
  Los, His,    \* the two parts of a frequency
  NoteOf,      \* NOTE, from the parts of a frequency
  Delays,      \* cycles of an instruction
  MaxCycles,   \* bound on the cycles of a subsong
  Base,        \* 128: what fits in a byte of a number of variable length
  OpenMayFail  \* whether files may fail to be opened

Channel == 0 .. 3
Wave == 2
Freq == His \X Los

InRange(n) == n >= 0 /\ n < 128

ASSUME TimeAssumption ==
  /\ Resolution \in Nat \ {0} /\ Delays \subseteq Nat \ {0} /\ MaxCycles \in Nat
  /\ Base \in Nat \ {0, 1}
ASSUME NoteAssumption ==
  /\ Plugins \subseteq {"midi", "altmidi"} /\ OpenMayFail \in BOOLEAN
  /\ 0 \in Los /\ 0 \in His
  /\ NoteOf \in [Freq -> Nat \ {0}]   \* at least 24, for the longest period

VARIABLES
  plugin,
  phase,    \* "opened", then "playing", then "closed" or "failed"
  cycles,   \* sum_cycles
  m,        \* midifile.c: open, note, mute, prev (cycles_prev), and the events
            \* written by the last call
  div, volume, running, master,   \* static in midi_io
  playing   \* of plugout_altmidi.c

chanVars == <<div, volume, running, master, playing>>
vars == <<plugin, phase, cycles, m, chanVars>>

-----------------------------------------------------------------------------
\* midi_write_varlen: the groups of 7 bits that are not 0, and the last one.
Group(value, i) == (value \div Base^i) % Base
Varlen(value) ==
  SelectSeq([i \in 1 .. 3 |-> Group(value, 4 - i)], LAMBDA v : v # 0)
    \o <<Group(value, 0)>>

\* Slip: the time of the event is the time of the next one's reference.
Event_Drift(f, at, what, chan, n) ==
  LET delta == (at - f.prev) \div Resolution
  IN  [f EXCEPT !.prev = at,
                !.written = Append(@, [what |-> what, chan |-> chan, note |-> n,
                                       delta |-> delta])]

\* midi_write_event
Event(f, at, what, chan, n) ==
  LET delta == (at - f.prev) \div Resolution
  IN  [f EXCEPT !.prev = @ + delta * Resolution,
                !.written = Append(@, [what |-> what, chan |-> chan, note |-> n,
                                       delta |-> delta])]

\* Slip: mute stops what would end a note, too.
NoteOff_Muted(f, at, c) ==
  IF f.note[c] = 0 THEN f
  ELSE IF f.mute[c] THEN [f EXCEPT !.note[c] = 0]
  ELSE [Event(f, at, "off", c, f.note[c]) EXCEPT !.note[c] = 0]

NoteOff(f, at, c) ==
  IF f.note[c] = 0 THEN f
  ELSE [Event(f, at, "off", c, f.note[c]) EXCEPT !.note[c] = 0]

NoteOn(f, at, c, n) ==
  IF f.mute[c] THEN f ELSE [Event(f, at, "on", c, n) EXCEPT !.note[c] = n]

Pan(f, at, c) == IF f.mute[c] THEN f ELSE Event(f, at, "pan", c, 0)

\* A note is only written if MIDI has it.
NoteOnInRange(f, at, c, n) == IF InRange(n) THEN NoteOn(f, at, c, n) ELSE f

File == [m EXCEPT !.written = <<>>]   \* what a call begins with

\* Loops over the first three channels and over all of them.
Tones(Do(_, _), f) == Do(Do(Do(f, 0), 1), 2)
Channels(Do(_, _), f) == Do(Tones(Do, f), 3)

Off(f) == Channels(LAMBDA g, c : NoteOff(g, g.prev + 1, c), f)

-----------------------------------------------------------------------------
\* midi_io, one action per kind of register.
IsMidi == plugin = "midi" /\ phase = "playing" /\ m.open

\* The volume of a channel, after its master has been set: a running channel
\* gets its note back, or loses it.
NewVolume(f, c, vol) ==
  IF vol = 0 THEN NoteOff(f, cycles, c)
  ELSE IF running'[c] /\ f.note[c] = 0
  THEN NoteOnInRange(f, cycles, c, NoteOf[div[c]]) ELSE f

SetMaster(c, on) ==
  /\ master' = [master EXCEPT ![c] = on]
  /\ running' = [running EXCEPT ![c] = @ /\ on]
Masterless(c, on) ==
  IF ~on /\ running[c] THEN NoteOff(File, cycles, c) ELSE File

WriteEnvelope(c, vol, up) ==        \* NR12, NR22
  /\ IsMidi
  /\ volume' = [volume EXCEPT ![c] = vol]
  /\ SetMaster(c, vol # 0 \/ up)
  /\ m' = NewVolume(Masterless(c, vol # 0 \/ up), c, vol)
  /\ UNCHANGED <<plugin, phase, cycles, div, playing>>

WriteWaveMaster(on) ==              \* NR30
  /\ IsMidi
  /\ SetMaster(Wave, on)
  /\ m' = Masterless(Wave, on)
  /\ UNCHANGED <<plugin, phase, cycles, div, volume, playing>>

WriteWaveVolume(vol) ==             \* NR32
  /\ IsMidi
  /\ volume' = [volume EXCEPT ![Wave] = vol]
  /\ UNCHANGED <<plugin, phase, cycles, div, running, master, playing>>
  /\ m' = NewVolume(File, Wave, vol)

\* A new frequency of a running channel: portamento.
Glide(c, n) ==
  IF running[c] /\ n # m.note[c]
  THEN NoteOnInRange(NoteOff(File, cycles, c), cycles, c, n) ELSE File

\* Slip: the frequency is compared with what it was.
WriteFreqLow_Late(c, lo) ==
  /\ IsMidi
  /\ div' = [div EXCEPT ![c] = <<@[1], lo>>]
  /\ m' = Glide(c, NoteOf[div[c]])
  /\ UNCHANGED <<plugin, phase, cycles, volume, running, master, playing>>

WriteFreqLow(c, lo) ==              \* NR13, NR23, NR33
  /\ IsMidi
  /\ div' = [div EXCEPT ![c] = <<@[1], lo>>]
  /\ m' = Glide(c, NoteOf[div'[c]])
  /\ UNCHANGED <<plugin, phase, cycles, volume, running, master, playing>>

WriteControl(c, hi, trigger) ==     \* NR14, NR24, NR34
  /\ IsMidi
  /\ div' = [div EXCEPT ![c] = <<hi, @[2]>>]
  /\ LET n == NoteOf[div'[c]]
         starts == trigger /\ InRange(n) /\ master[c]
         off == NoteOff(File, cycles, c)
     IN  /\ m' = IF starts THEN NoteOn(off, cycles, c, n)
                 ELSE IF trigger THEN off ELSE Glide(c, n)
         /\ running' = [running EXCEPT ![c] = @ \/ starts]
  /\ UNCHANGED <<plugin, phase, cycles, volume, master, playing>>

\* Slip: the notes go on ("fix 'sound off' (NR52) to affect all channels").
PowerOff_KeepNotes ==
  /\ IsMidi
  /\ div' = [c \in Channel |-> <<0, 0>>]
  /\ volume' = [c \in Channel |-> 0]
  /\ running' = [c \in Channel |-> FALSE]
  /\ master' = [c \in Channel |-> TRUE]
  /\ m' = NoteOff(File, cycles, 2)
  /\ UNCHANGED <<plugin, phase, cycles, playing>>

PowerOff ==                         \* NR52
  /\ IsMidi
  /\ div' = [c \in Channel |-> <<0, 0>>]
  /\ volume' = [c \in Channel |-> 0]
  /\ running' = [c \in Channel |-> FALSE]
  /\ master' = [c \in Channel |-> TRUE]
  /\ m' = Channels(LAMBDA f, c : NoteOff(f, cycles, c), File)
  /\ UNCHANGED <<plugin, phase, cycles, playing>>

WritePan ==                         \* NR51, of both writers
  /\ phase = "playing" /\ m.open
  /\ m' = Channels(LAMBDA f, c : Pan(f, cycles, c), File)
  /\ UNCHANGED <<plugin, phase, cycles, chanVars>>

-----------------------------------------------------------------------------
\* plugout_altmidi.c: a trigger ends the note, and the next step begins it.
AltVolume(c, vol) ==
  /\ plugin = "altmidi" /\ phase = "playing" /\ m.open
  /\ volume' = [volume EXCEPT ![c] = vol]
  /\ m' = File
  /\ UNCHANGED <<plugin, phase, cycles, div, running, master, playing>>

AltTrigger(c) ==
  /\ plugin = "altmidi" /\ phase = "playing" /\ m.open
  /\ m' = NoteOff(File, cycles, c)
  /\ playing' = [playing EXCEPT ![c] = FALSE]
  /\ UNCHANGED <<plugin, phase, cycles, div, volume, running, master>>

\* The channel plays or not, at the note n.
AltNote(f, at, c, plays, n) ==
  IF ~playing[c] THEN IF plays THEN NoteOnInRange(f, at, c, n) ELSE f
  ELSE IF ~plays THEN NoteOff(f, at, c)
  ELSE IF n # f.note[c] THEN NoteOnInRange(NoteOff(f, at, c), at, c, n) ELSE f

\* gbhw_step calls back after an instruction: mutes are read, and the
\* alternative writer looks at the channels 0 to 2.  It does not ask whether
\* the file is open.
Step(n, mute, plays, freq) ==
  LET f == [File EXCEPT !.mute = mute]
      note == [c \in 0 .. 2 |-> NoteOf[freq[c]]]
  IN  /\ phase = "playing" /\ cycles + n <= MaxCycles
      /\ cycles' = cycles + n
      /\ IF plugin = "midi" THEN m' = f /\ UNCHANGED playing
         ELSE /\ m' = Tones(LAMBDA g, c : AltNote(g, cycles', c, plays[c], note[c]), f)
              /\ playing' = [c \in Channel |->
                   IF c = 3 THEN playing[c]
                   ELSE plays[c] /\ (playing[c] \/ InRange(note[c]))]
      /\ UNCHANGED <<plugin, phase, div, volume, running, master>>

-----------------------------------------------------------------------------
EndOfTrack(f) == [Event(f, f.prev, "end", 0, 0) EXCEPT !.open = FALSE]

\* play_subsong: midi_skip ends the track, if there is one, and begins another.
\* The player exits if it cannot; gbs_init sets the cycles to 0.
Skip(opens) ==
  /\ phase \in {"opened", "playing"}
  /\ m' = [(IF m.open THEN EndOfTrack(File) ELSE File) EXCEPT
             !.open = opens, !.prev = 0, !.note = [c \in Channel |-> 0]]
  /\ phase' = IF opens THEN "playing" ELSE "failed"
  /\ cycles' = 0
  /\ UNCHANGED <<plugin, chanVars>>

\* midi_close
Close ==
  /\ phase = "playing"
  /\ m' = IF m.open THEN EndOfTrack(Off(File)) ELSE File
  /\ phase' = "closed"
  /\ UNCHANGED <<plugin, cycles, chanVars>>

Init ==
  /\ plugin \in Plugins
  /\ phase = "opened"
  /\ cycles = 0
  /\ m = [open |-> FALSE, note |-> [c \in Channel |-> 0],
          mute |-> [c \in Channel |-> FALSE], prev |-> 0, written |-> <<>>]
  /\ div = [c \in Channel |-> <<0, 0>>]
  /\ volume = [c \in Channel |-> 0]
  /\ running = [c \in Channel |-> FALSE]
  /\ master = [c \in Channel |-> FALSE]
  /\ playing = [c \in Channel |-> FALSE]

\* The registers of a channel.
WriteTo(c) ==
  \/ c # Wave /\ \E vol \in {0, 1}, up \in BOOLEAN : WriteEnvelope(c, vol, up)
  \/ c = Wave /\ \E on \in BOOLEAN : WriteWaveMaster(on)
  \/ c = Wave /\ \E vol \in {0, 1} : WriteWaveVolume(vol)
  \/ \E lo \in Los : WriteFreqLow(c, lo)
  \/ \E hi \in His, trigger \in BOOLEAN : WriteControl(c, hi, trigger)
  \/ \E vol \in {0, 1} : AltVolume(c, vol)
  \/ AltTrigger(c)

Next ==
  \/ \E c \in 0 .. 2 : WriteTo(c)
  \/ PowerOff \/ WritePan
  \/ \E n \in Delays, mute \in [Channel -> BOOLEAN], plays \in [0 .. 2 -> BOOLEAN],
        freq \in [0 .. 2 -> Freq] : Step(n, mute, plays, freq)
  \/ \E opens \in {TRUE, ~OpenMayFail} : Skip(opens)
  \/ Close

Spec == Init /\ [][Next]_vars

-----------------------------------------------------------------------------
TypeOK ==
  /\ plugin \in Plugins
  /\ phase \in {"opened", "playing", "closed", "failed"}
  /\ cycles \in 0 .. MaxCycles
  /\ m.open \in BOOLEAN /\ m.prev \in Nat
  /\ m.note \in [Channel -> 0 .. 127] /\ m.mute \in [Channel -> BOOLEAN]
  /\ \A i \in 1 .. Len(m.written) : m.written[i].delta \in Nat
  /\ div \in [Channel -> Freq] /\ volume \in [Channel -> {0, 1}]
  /\ {running, master, playing} \subseteq [Channel -> BOOLEAN]

\* A note is on only while its channel runs, with its master on, or plays:
\* whatever stops a channel ends its note, in every order of triggers, volumes,
\* masters and power ("track DAC and running status", HISTORY).
NoteHasChannel ==
  \A c \in Channel : m.note[c] # 0 =>
    IF plugin = "midi" THEN running[c] /\ master[c] ELSE playing[c]

\* The note that is on is the one of the channel's frequency, whichever of its
\* two registers was written last ("export portamenti as separate notes").
NoteIsCurrent ==
  plugin = "midi" =>
    \A c \in Channel : m.note[c] # 0 => m.note[c] = NoteOf[div[c]]

\* midi_write_varlen, "Highest allowed value is 0x0fffffff": a reader that takes
\* the bytes as the digits of a number gets the time that was written.
Read(bytes) == FoldLeft(LAMBDA v, b : v * Base + b, 0, bytes)
TimeCanBeRead ==
  \A i \in 1 .. Len(m.written) :
    m.written[i].delta < Base^4 => Read(Varlen(m.written[i].delta)) = m.written[i].delta
=============================================================================
