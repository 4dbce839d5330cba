-------------------------------- MODULE Config --------------------------------
(***************************************************************************)
(* The configuration: cfg_parse reads the system's file and then the       *)
(* user's, and parseopts takes the options of the command line after them, *)
(* of which -c reads another file.  The parser is a machine of four states *)
(* that looks at one character, c, and goes on after an error as it can.   *)
(*                                                                         *)
(* A file is a sequence of tokens: words, numbers, spaces, line ends and   *)
(* others of one character.  nextchar has removed the comments.  A token   *)
(* whose first character is skipped is cut.                                *)
(***************************************************************************)
EXTENDS Integers, SequencesExt

CONSTANT Sources   \* sequences of files and options, in the order of their use

Keywords == {"none", "range", "single"}          \* loop_mode_map
Words == Keywords \cup {"loop", "loop_mode", "fadeout", "output_filename",
                        "other", "rest", "s"}
Numbers == {"0", "1", "2", "12"}
Spaces == {" ", "\n"}
Token == Words \cup Numbers \cup Spaces \cup {"=", "%"}

VARIABLES
  given,      \* the sources, all of them
  sources,    \* those that are still to be read
  text,       \* what is left of the file that is being read: c is its first token
  state, nextstate, option,
  stale,          \* what cfg_string has last put on the stack, "" at first
  cfg         \* three of the settings: loop_mode, fadeout and output_filename

parserVars == <<state, nextstate, option, stale>>
configVars == <<given, sources, text, parserVars, cfg>>

-----------------------------------------------------------------------------
\* The place of the first token of t that is in the set, and what is before it
\* and from it on.
Place(t, set) == Min({i \in 1 .. Len(t) : t[i] \in set} \cup {Len(t) + 1})
Before(t, set) == SubSeq(t, 1, Place(t, set) - 1)
From(t, set) == SubSeq(t, Place(t, set), Len(t))

Cut(token) ==
  IF token = "12" THEN <<"2">>
  ELSE IF token \in Words \ {"s"} THEN <<"rest">> ELSE <<>>

\* c = nextchar()
Skip1(t) == IF t = <<>> THEN t ELSE Cut(Head(t)) \o Tail(t)

c == Head(text)

\* Once an item is read, spaces follow, and then the next state.
Then(next) == state' = 0 /\ nextstate' = next

\* Slip: the next character is skipped, too.
Expected_Twice(t) == text' = Skip1(Skip1(t)) /\ Then(1)

\* err_expect: a character is skipped, and an option expected.
Expected(t) == text' = Skip1(t) /\ Then(1)

-----------------------------------------------------------------------------
\* The four states of cfg_parse.
SkipSpaces ==
  /\ state = 0
  /\ text' = From(text, Token \ Spaces)
  /\ state' = nextstate
  /\ UNCHANGED <<nextstate, option, stale, cfg>>

ReadOption ==
  /\ state = 1
  /\ IF c \in Words THEN option' = c /\ text' = Tail(text) /\ Then(2)
     ELSE Expected(text) /\ UNCHANGED option
  /\ UNCHANGED <<stale, cfg>>

ReadEquals ==
  /\ state = 2
  /\ IF c = "=" THEN text' = Tail(text) /\ Then(3) ELSE Expected(text)
  /\ UNCHANGED <<option, stale, cfg>>

Amount(number) ==
  CASE number = "0" -> 0 [] number = "1" -> 1 [] number = "2" -> 2 [] OTHER -> 12

Set(settings, name, value) ==
  CASE name = "loop_mode" /\ value \in Keywords -> [settings EXCEPT !.loop_mode = value]
    [] name = "loop" ->
         [settings EXCEPT !.loop_mode = IF Amount(value) = 0 THEN "none" ELSE "range"]
    [] name = "fadeout" -> [settings EXCEPT !.fadeout = Amount(value)]
    [] name = "output_filename" -> [settings EXCEPT !.output_filename = value]
    [] OTHER -> settings

\* cfg_long and cfg_bool_as_int
ReadNumber ==
  /\ option \in {"loop", "fadeout"}
  /\ IF c \in Numbers
     THEN cfg' = Set(cfg, option, c) /\ text' = Skip1(Tail(text))
     ELSE UNCHANGED cfg /\ text' = Skip1(Skip1(text))

\* cfg_loop_mode, like cfg_endian and cfg_play_mode.  If there is no word they look
\* up a pointer that nobody has set: it points anywhere, or to the word before.
ReadKeyword ==
  /\ option = "loop_mode"
  /\ IF c \in Words
     THEN cfg' = Set(cfg, option, c) /\ stale' = c /\ text' = Skip1(Tail(text))
     ELSE /\ cfg' \in {cfg, Set(cfg, option, stale)} /\ UNCHANGED stale
          /\ text' = Skip1(Skip1(text))

\* cfg_string_until_newline
ReadLine ==
  /\ option = "output_filename"
  /\ cfg' = Set(cfg, option, Before(text, {"\n"}))
  /\ text' = Skip1(From(text, {"\n"}))

\* The rest of the line is skipped.
ReadUnknown ==
  /\ option \notin {"loop", "fadeout", "loop_mode", "output_filename"}
  /\ text' = Skip1(From(Skip1(text), {"\n"}))
  /\ UNCHANGED cfg

ReadValue ==
  /\ state = 3
  /\ \/ ReadKeyword
     \/ (ReadNumber \/ ReadLine \/ ReadUnknown) /\ UNCHANGED stale
  /\ Then(1) /\ UNCHANGED option

ParseStep ==
  /\ text # <<>>
  /\ SkipSpaces \/ ReadOption \/ ReadEquals \/ ReadValue
  /\ UNCHANGED <<given, sources>>

\* The file is at its end: the next file or option.
NextSource ==
  /\ text = <<>> /\ sources # <<>>
  /\ LET source == Head(sources)
     IN  IF source.kind = "file" THEN text' = source.text /\ UNCHANGED cfg
         ELSE cfg' = Set(cfg, source.name, source.value) /\ UNCHANGED text
  /\ sources' = Tail(sources)
  /\ Then(1) /\ UNCHANGED <<given, option, stale>>

Defaults == [loop_mode |-> "none", fadeout |-> 3, output_filename |-> <<>>]

ConfigInit ==
  /\ given \in Sources /\ sources = given
  /\ text = <<>> /\ state = 0 /\ nextstate = 1 /\ option = "" /\ stale = ""
  /\ cfg = Defaults

ConfigNext == ParseStep \/ NextSource

-----------------------------------------------------------------------------
ConfigTypeOK ==
  /\ \A i \in DOMAIN text : text[i] \in Token
  /\ state \in 0 .. 3 /\ nextstate \in 1 .. 3
  /\ cfg.loop_mode \in Keywords /\ cfg.fadeout \in Nat

\* test_invalid_loop_mode, "old setting is kept, warning in stderr": a value that
\* is no loop mode leaves the loop mode as it was.
OldSettingIsKept ==
  [][ state = 3 /\ option = "loop_mode" /\ text # <<>> /\ text[1] \notin Keywords =>
        UNCHANGED cfg ]_configVars
=============================================================================
