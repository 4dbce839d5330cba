------------------------------- MODULE MCPlugins -------------------------------
(***************************************************************************)
(* All output plugins, one of them chosen at the start: the MIDI writers,  *)
(* the writers of recordings with, as history, the time that a reader of   *)
(* the file has come to, and those that play.                              *)
(***************************************************************************)
EXTENDS MCMidi, Recorder, MCOutput

VARIABLES
  family,   \* "midi", "recording" or "playing"
  waited    \* the sum of the waits in the file

midiVars == <<vars, hist>>
recordingVars == <<recVars, waited>>
pluginVars == <<midiVars, recordingVars, outputVars, family>>

\* Names of up to seven characters, which is one too many, and two broken ones.
MCTemplates ==
  {<<"%s">>, <<"c", "c", "%S">>, <<"c", "%s", "%e">>, <<"c", "%%", "%S", "c">>,
   <<"%e", "%s">>, <<"%S", "%e">>, <<"c", "%S", "%e">>, <<"%?">>, <<"%S", "%?">>,
   <<"c", "c", "c", "c", "c", "c">>}

Command == [op : {"short", "long", "cycles", "write", "block"}, n : Int]
Passing ==
  [p \in Int \X Command |->
     IF p[2].op \in {"short", "long", "cycles"} THEN p[1] + p[2].n ELSE p[1]]
NewFile == life' # life \/ now' < now \/ header' # NoHeader
Waited == Accumulated(Passing, IF NewFile THEN 0 ELSE waited, output')

\* The variables of the other families keep one of their initial values.
PluginInit ==
  /\ MCInit /\ RecInit /\ waited = 0 /\ OutputInit
  /\ family \in {"midi", "recording", "playing"}
  /\ family # "midi" => plugin = "midi" /\ used = 0
  /\ family # "recording" => format = "vgm" /\ template = <<"%s">>
  /\ family # "playing" => driver = "alsa"

PluginNext ==
  /\ UNCHANGED family
  /\ \/ family = "midi" /\ MCNext /\ UNCHANGED <<recordingVars, outputVars>>
     \/ /\ family = "recording" /\ RecNext /\ waited' = Waited
        /\ UNCHANGED <<midiVars, outputVars>>
     \/ family = "playing" /\ OutputNext /\ UNCHANGED <<midiVars, recordingVars>>

PluginSpec == PluginInit /\ [][PluginNext]_pluginVars /\ OutputFairness

\* plugout_vgm.c, "keeping fractional part for further accumulation": whatever the
\* gaps between the writes, the waits before one add up to its time in whole
\* samples, rounded once, also when they take several commands and in each file
\* anew; the dumper's add up to its time in cycles.  The number of samples in the
\* header of a finished VGM file is the sum of the file's waits, up to its last
\* write.
WaitsAddUp ==
  [][ /\ life' = "playing" /\ output' # <<>> =>
           waited' = CASE format = "vgm" -> (now' * Num) \div Den
                       [] format = "iodumper" -> now'
                       [] OTHER -> 0
      /\ format = "vgm" /\ header' # NoHeader => header' = waited ]_pluginVars

\* expand_filename: a file that is opened has the name that its pattern gives, to
\* the last character, and the name always ends within its buffer.
Widening(song) == [p \in Nat \X STRING |-> p[1] + Width(p[2], song)]
FullWidth(song) == Accumulated(Widening(song), 0, template)
NameIsWhole ==
  /\ name <= NameSize
  /\ life = "playing" /\ name # 0 => \E song \in Songs : name = FullWidth(song) + 1
=============================================================================
