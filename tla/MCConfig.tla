------------------------------- MODULE MCConfig -------------------------------
(***************************************************************************)
(* Configurations for TLC: files of lines as the man page describes them,  *)
(* each line with the settings that it makes, and commands.                *)
(***************************************************************************)
EXTENDS Config, Accumulation

\* A setting is an option and its value, of which only the kinds matter that the
\* parser has: numbers, words, the rest of a line, and what it does not know.  What
\* err_expect reports sets nothing.
Known == {"loop", "fadeout", "loop_mode", "output_filename"}
Nothing == <<"", "">>
Setting ==
  ({"loop", "fadeout"} \X Numbers) \cup ({"loop_mode"} \X Words)
    \cup ({"output_filename"} \X Seq(Token)) \cup ((Words \ Known) \X {""})
    \cup {Nothing}

Line(tokens, settings) == [text |-> tokens, sets |-> settings]
Blank == Line(<<"\n", " ", "\n">>, <<>>)
Lines ==
  {Blank,
   Line(<<"loop_mode", "=", "single", "\n">>, <<<<"loop_mode", "single">>>>),
   Line(<<"loop_mode", " ", "=", " ", "other", "\n">>, <<<<"loop_mode", "other">>>>),
   Line(<<" ", "loop", "=", "0", " ", "\n">>, <<<<"loop", "0">>>>),
   Line(<<"fadeout", "=", "12", "s", "\n">>, <<<<"fadeout", "12">>>>),
   Line(<<"loop", "=", "1", " ", "fadeout", "=", "1", "\n">>,
        <<<<"loop", "1">>, <<"fadeout", "1">>>>),
   Line(<<"other", "=", "2", " ", "loop", "=", "1", "\n">>, <<<<"other", "">>>>),
   Line(<<"output_filename", "=", "%", "s", " ", "loop", "\n">>,
        <<<<"output_filename", <<"%", "s", " ", "loop">>>>>>),
   Line(<<"%", "1", "loop", "%", "fadeout", "=", "%", " ", "loop_mode", "=", "range", "\n">>,
        <<Nothing, Nothing, Nothing, Nothing, <<"loop_mode", "range">>>>)}

\* A number where a loop mode is expected.
Wrong == Line(<<"loop_mode", "=", "1", "\n">>, <<>>)

\* What is between the settings of a file is spaces.  So the place of a setting, that
\* of its equals sign, and that of its value are those of the first other token.
Find(t, set, i) == Min({j \in i .. Len(t) : t[j] \in set} \cup {Len(t) + 1})
AfterSpaces(t, i) == Find(t, Token \ Spaces, i)
LineEnd(t, i) == Find(t, {"\n"}, i)
EqualsOf(t, k) == AfterSpaces(t, k + 1)
ValueOf(t, k) == AfterSpaces(t, EqualsOf(t, k) + 1)

\* Characters that no option begins with, in place of one, of an equals sign, or of
\* the number of an option that takes one.
Stray == {"0", "1", "2", "=", "%"}
Ends(t, v) == v < Len(t) => t[v + 1] \in Spaces \cup {"s"}
NoName(t, k) == k <= Len(t) /\ t[k] \in Stray
NoEquals(t, k) ==
  EqualsOf(t, k) <= Len(t) /\ t[EqualsOf(t, k)] \in Stray \ {"="} /\ t[k] \in Words
NoNumber(t, k) ==
  LET v == ValueOf(t, k)
  IN  /\ v <= Len(t) /\ t[EqualsOf(t, k)] = "=" /\ t[k] \in {"loop", "fadeout"}
      /\ t[v] \in Stray \ Numbers /\ Ends(t, v)

\* A number or a word ends with a space or a unit of one letter, the rest with the
\* line, and an error with the character that is wrong.
AfterSetting(t, k) ==
  LET v == ValueOf(t, k)
  IN  AfterSpaces(t, IF NoName(t, k) THEN k + 1
                     ELSE IF NoEquals(t, k) THEN EqualsOf(t, k) + 1
                     ELSE IF t[k] \in {"loop", "fadeout", "loop_mode"} THEN v + 2
                     ELSE LineEnd(t, v) + 1)
IsSetting(t, k, set) ==
  LET v == ValueOf(t, k)
  IN  /\ v <= Len(t) /\ t[EqualsOf(t, k)] = "=" /\ set[1] = t[k]
      /\ set[1] \in {"loop", "fadeout", "loop_mode"} =>
           set[2] = t[v] /\ Ends(t, v)
      /\ set[1] = "output_filename" => set[2] = SubSeq(t, v, LineEnd(t, v) - 1)
Says(t, k, set) ==
  IF set = Nothing THEN NoName(t, k) \/ NoEquals(t, k) \/ NoNumber(t, k)
  ELSE IsSetting(t, k, set)

\* The places of n settings, and the end of the file after them
PlacesOf(t, n) ==
  LET place[i \in 1 .. n + 1] ==
        IF i = 1 THEN AfterSpaces(t, 1) ELSE AfterSetting(t, place[i - 1])
  IN  place

\* A file says what its settings are, and an option of the command line is one.
FileSource == [kind: {"file"}, text: Seq(Token), sets: Seq(Setting), places: Seq(Nat)]
OptionSource == [kind: {"option"}, name: Words, value: Token, sets: Seq(Setting)]
Source == FileSource \cup OptionSource
SaysItsSettings(file) ==
  LET n == Len(file.sets)
  IN  /\ Len(file.places) = n + 1 /\ file.places[1] = AfterSpaces(file.text, 1)
      /\ file.places[n + 1] = Len(file.text) + 1
      /\ \A i \in 1 .. n : /\ Says(file.text, file.places[i], file.sets[i])
                           /\ file.places[i + 1] = AfterSetting(file.text, file.places[i])
WellFormed(source) ==
  IF source.kind = "file" THEN SaysItsSettings(source)
  ELSE source.sets = <<<<source.name, source.value>>>>

\* A file of two lines, the last of which need not have an end.
File(line1, line2, ends) ==
  LET all == line1.text \o line2.text
      tokens == IF ends THEN all ELSE Front(all)
      settings == line1.sets \o line2.sets
  IN  [kind |-> "file", text |-> tokens, sets |-> settings,
       places |-> PlacesOf(tokens, Len(settings))]
Option(n, v) == [kind |-> "option", name |-> n, value |-> v, sets |-> <<<<n, v>>>>]

\* -l -f 2, and -f 0 with a file that -c names.
Commands ==
  {<<Option("loop", "1"), Option("fadeout", "2")>>,
   <<Option("fadeout", "0"), File(Blank, Line(<<"fadeout", "=", "1">>, <<<<"fadeout", "1">>>>), TRUE)>>}

NoFile == File(Blank, Blank, TRUE)
NothingSet == <<NoFile, NoFile, Option("loop", "1"), Option("fadeout", "2")>>
MCSources ==
  {<<File(Blank, line, TRUE), File(own1, own2, ends)>> \o command :
     line \in Lines, own1 \in Lines, own2 \in Lines, ends \in BOOLEAN, command \in Commands}
MCWrong == {<<File(line1, line2, TRUE), File(Wrong, Blank, TRUE)>> :
              line1 \in Lines, line2 \in Lines}

\* What the settings of a source make of a configuration
Settings == [loop_mode: Keywords, fadeout: Nat, output_filename: Seq(Token)]
Making == [p \in Settings \X Setting |-> Set(p[1], p[2][1], p[2][2])]
ReadingOf == [p \in Settings \X Source |-> Accumulated(Making, p[1], p[2].sets)]

\* A line means what it says whatever the lines around it are: blanks, options and
\* values that the parser does not know, characters where it expects others, and its
\* own way of going on after them neither lose the next setting nor make another.
\* Of two settings the later one counts: the user's file comes after the system's,
\* and the options come last.
LaterSettingsCount ==
  text = <<>> /\ sources = <<>> => cfg = Accumulated(ReadingOf, Defaults, given)

ConfigSpec == ConfigInit /\ [][ConfigNext]_configVars
=============================================================================
