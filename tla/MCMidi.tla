-------------------------------- MODULE MCMidi --------------------------------
(***************************************************************************)
(* Midi for TLC: a program that uses one channel, and, as history, what a  *)
(* reader of the file knows: the notes that are on and the time.           *)
(***************************************************************************)
EXTENDS Midi, Accumulation

CONSTANT Used   \* channels, of which one is used

ASSUME UsedAssumption == Used \subseteq 0 .. 2

VARIABLES
  used,
  sounding,     \* the note that is on in each channel, 0, or Overlap
  clock         \* the sum of the times in the file

hist == <<used, sounding, clock>>

\* Two notes, and a frequency that is too high.
MCNoteOf == [f \in Freq |-> IF f[1] = 0 THEN 24 + f[2] ELSE IF f[2] = 0 THEN 25 ELSE 128]

WrittenEvent == [what: {"on", "off", "pan", "end"}, chan: Channel, note: Nat, delta: Int]

\* A note that begins while another one is on, or the end of one that is not on.
Overlap == -1
Hear ==
  [p \in [Channel -> Int] \X WrittenEvent |->
     LET s == p[1]
         e == p[2]
     IN  IF e.what = "on" THEN [s EXCEPT ![e.chan] = IF @ = 0 THEN e.note ELSE Overlap]
         ELSE IF e.what = "off"
         THEN [s EXCEPT ![e.chan] = IF @ = e.note THEN 0 ELSE Overlap]
         ELSE s]
Tick == [p \in Int \X WrittenEvent |-> p[1] + p[2].delta]

Silence == [c \in Channel |-> 0]
Heard == Accumulated(Hear, sounding, m'.written)
Time == Accumulated(Tick, clock, m'.written)

MCInit == Init /\ used \in Used /\ sounding = Silence /\ clock = 0

\* What a step may see: only the channel that is used plays or changes.
OneStep ==
  \E n \in Delays, mute, plays \in BOOLEAN, freq \in Freq :
    Step(n, [c \in Channel |-> c = used /\ mute], [c \in 0 .. 2 |-> c = used /\ plays],
         [c \in 0 .. 2 |-> freq])
NewTrack == \E opens \in {TRUE, ~OpenMayFail} : Skip(opens)

MCNext ==
  \/ /\ WriteTo(used) \/ PowerOff \/ WritePan \/ OneStep \/ Close
     /\ sounding' = Heard /\ clock' = Time
     /\ UNCHANGED used
  \/ NewTrack /\ sounding' = Silence /\ clock' = 0 /\ UNCHANGED used
MCSpec == MCInit /\ [][MCNext]_<<vars, hist>>

\* In the file, a channel's notes begin and end in turns, and the note that
\* midifile.c takes to be on is the one that is: no note is left hanging by one
\* that begins over it or by the mute of its channel, and none is on when the
\* player has exited (HISTORY, "end pending notes when closing track").
NotesTakeTurns ==
  /\ m.open => sounding = m.note
  /\ phase = "closed" => sounding = Silence

\* midi_write_event, "so we don't accumulate errors": the times in the file add
\* up to the time of the event, rounded down once.
TimesAddUp ==
  m.open /\ m.written # <<>> => clock = cycles \div Resolution
=============================================================================
