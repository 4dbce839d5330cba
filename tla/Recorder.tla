------------------------------- MODULE Recorder -------------------------------
(***************************************************************************)
(* The writers of recordings: plugout_vgm.c (register writes and the waits *)
(* between them, in samples), plugout_iodumper.c (the same in cycles) and  *)
(* plugout_wav.c (sound), with the names of their files (filewriter.c).    *)
(*                                                                         *)
(* The samples of plugout_vgm.c are doubles; their fractions are powers of *)
(* 2, so that they are exact, and counted here in parts of Den to a sample. *)
(***************************************************************************)
EXTENDS Integers, Accumulation

CONSTANTS
  Formats,     \* a subset of {"vgm", "iodumper", "wav"}
  Num, Den,    \* samples per cycle: VGM_TICKS_PER_SECOND / VGM_DMG_CLOCK
  WaitMax,     \* VGM_WAITSAMPLES_MAX
  ShortMax,    \* 16, the longest wait in a byte
  Regs,        \* registers that are written, less 0xff00
  Gaps,        \* cycles between two writes
  MaxNow,      \* bound on the cycles of a subsong
  WavMax,      \* 0xffffffff, in blocks
  NameSize,    \* FILENAME_SIZE
  Templates,   \* output filename patterns, as sequences of their parts
  Songs        \* subsong numbers

SoundRegs == 16 .. 63      \* 0xff10 .. 0xff3f

ASSUME RecorderAssumption ==
  /\ Formats \subseteq {"vgm", "iodumper", "wav"}
  /\ Num \in Nat \ {0} /\ Den \in Nat \ {0}
  /\ ShortMax \in 1 .. WaitMax /\ WaitMax \in Nat
  /\ Regs \subseteq Nat /\ Gaps \subseteq Nat /\ MaxNow \in Nat /\ WavMax \in Nat
  /\ NameSize \in Nat \ {0} /\ Songs \subseteq Nat /\ Templates \subseteq Seq(STRING)

VARIABLES
  format, template,
  life,     \* "opened", then "playing", then "closed" or "failed"
  now,      \* sum_cycles
  file,     \* whether one is open, and its blocks of sound
  vgm,      \* samples_total, samples_prev and sample_diff_acc
  last,     \* cycles_prev of plugout_iodumper.c
  output,   \* commands that the last call has written
  header,   \* the count that it has written to a header, or NoHeader
  name      \* characters of filename that are filled, its end included

NoHeader == -1
recVars == <<format, template, life, now, file, vgm, last, output, header, name>>

-----------------------------------------------------------------------------
\* expand_filename: what a part of the pattern becomes.
Digits(n) == IF n < 10 THEN 1 ELSE IF n < 100 THEN 2 ELSE 3
Known == {"c", "%%", "%s", "%S", "%e"}
Width(part, song) ==
  CASE part = "%s" -> Digits(song + 1)
    [] part \in {"%S", "%e"} -> 3
    [] OTHER -> 1

NameLast == NameSize - 1   \* last: where the name must end

\* The loop stops at an unknown placeholder, and once the name is full.  dst may
\* have run ahead of what snprintf has written.
Partial == [dst : Nat, src : Nat, bad : BOOLEAN]
Expanding(song) ==
  [p \in Partial \X STRING |->
     LET e == p[1]
         part == p[2]
     IN  IF e.bad \/ e.dst >= NameLast THEN e
         ELSE IF part \notin Known THEN [e EXCEPT !.bad = TRUE]
         ELSE [e EXCEPT !.dst = @ + Width(part, song), !.src = @ + 1]]
Expansion(song) ==
  Accumulated(Expanding(song), [dst |-> 0, src |-> 0, bad |-> FALSE], template)

\* Slip: a name is only too long if its pattern could not be read to its end.
Expands_Read(song) == LET e == Expansion(song) IN ~e.bad /\ e.src = Len(template)

Expands(song) ==
  LET e == Expansion(song)
  IN  ~e.bad /\ e.dst <= NameLast /\ e.src = Len(template)
Filled(song) ==
  LET e == Expansion(song) IN (IF e.dst > NameLast THEN NameLast ELSE e.dst) + 1

-----------------------------------------------------------------------------
Wait(n) == [op |-> IF n <= ShortMax THEN "short" ELSE "long", n |-> n]

\* The loop of vgm_io: chunks of WaitMax samples, and the rest.
WaitsOf(n) ==
  [i \in 1 .. (n + WaitMax - 1) \div WaitMax |->
     Wait(IF i * WaitMax <= n THEN WaitMax ELSE n % WaitMax)]

Write(reg) == [op |-> "write", n |-> reg - 16]

\* "dump the register write if register is valid for VGM dump"
Dumped(reg) == IF reg >= 16 THEN <<Write(reg)>> ELSE <<>>

\* Slip: every difference is rounded for itself.
Carry_None(acc) == 0

Carry(acc) == acc % Den     \* what is kept of sample_diff_acc

VgmIo(at, reg) ==
  LET acc == vgm.acc + at * Num - vgm.prev
  IN  /\ vgm' = [total |-> at * Num, prev |-> at * Num, acc |-> Carry(acc)]
      /\ output' = WaitsOf(acc \div Den) \o Dumped(reg)
      /\ UNCHANGED last

\* A line of the dump: the cycles since the last one, and the register.
Line(gap, reg) == <<[op |-> "cycles", n |-> gap], [op |-> "write", n |-> reg]>>

DumpIo(at, reg) ==
  /\ output' = Line(at - last, reg)
  /\ last' = at
  /\ UNCHANGED vgm

\* The program writes a register, and iocallback passes it on.
Io(gap, reg) ==
  /\ life = "playing" /\ now + gap <= MaxNow
  /\ now' = now + gap
  /\ \/ format = "vgm" /\ VgmIo(now', reg)
     \/ format = "iodumper" /\ DumpIo(now', reg)
  /\ header' = NoHeader
  /\ UNCHANGED <<format, template, life, file, name>>

\* wav_write: a block of sound.
WavWrite ==
  /\ format = "wav" /\ life = "playing" /\ file.blocks <= WavMax
  /\ file' = [file EXCEPT !.blocks = @ + 1]
  /\ output' = <<[op |-> "block", n |-> 1]>> /\ header' = NoHeader
  /\ UNCHANGED <<format, template, life, now, vgm, last, name>>

-----------------------------------------------------------------------------
\* wav_write_header refuses files whose size it could not write.
CanClose == format = "wav" => file.blocks <= WavMax

\* vgm_finalize and wav_write_header.
Count == IF format = "vgm" THEN vgm.total \div Den ELSE file.blocks

\* vgm_open_file; samples_total stays until the first write.
Fresh == [vgm EXCEPT !.prev = 0, !.acc = 0]

\* gbs_init follows, whose own writes (TMA, TAC and IE) are passed on at 0.
FirstWrites ==
  <<Write(38), Write(37), Write(36)>> \o Dumped(6) \o Dumped(7) \o Dumped(255)
FirstLines == Line(0, 6) \o Line(0, 7) \o Line(0, 255)

\* The skip functions: the file that is open is finished, and another opened.
\* The player exits if either fails.
SkipFile(song, opens) ==
  LET closes == file.open => CanClose
      opened == closes /\ Expands(song) /\ opens
  IN  /\ format # "iodumper"
      /\ life' = IF opened THEN "playing" ELSE "failed"
      /\ file' = [open |-> opened \/ ~closes,
                  blocks |-> IF closes THEN 0 ELSE file.blocks]
      /\ header' = IF file.open /\ closes THEN Count ELSE NoHeader
      /\ name' = IF closes THEN Filled(song) ELSE name
      /\ vgm' = IF ~opened \/ format # "vgm" THEN vgm ELSE [Fresh EXCEPT !.total = 0]
      /\ output' = IF opened /\ format = "vgm" THEN FirstWrites ELSE <<>>
      /\ UNCHANGED last

SkipDump ==
  /\ format = "iodumper"
  /\ life' = "playing" /\ last' = 0 /\ output' = FirstLines
  /\ UNCHANGED <<file, header, name, vgm>>

RecSkip(song, opens) ==
  /\ life \in {"opened", "playing"}
  /\ SkipFile(song, opens) \/ SkipDump
  /\ now' = 0
  /\ UNCHANGED <<format, template>>

\* The close functions, when the player exits.
RecClose ==
  /\ life = "playing"
  /\ life' = "closed" /\ output' = <<>>
  /\ header' = IF file.open /\ CanClose THEN Count ELSE NoHeader
  /\ file' = [file EXCEPT !.open = @ /\ ~CanClose]
  /\ UNCHANGED <<format, template, now, vgm, last, name>>

RecInit ==
  /\ format \in Formats /\ template \in Templates
  /\ life = "opened" /\ now = 0
  /\ file = [open |-> FALSE, blocks |-> 0]
  /\ vgm = [total |-> 0, prev |-> 0, acc |-> 0]
  /\ last = 0 /\ output = <<>> /\ header = NoHeader /\ name = 0

RecNext ==
  \/ \E gap \in Gaps, reg \in Regs : Io(gap, reg)
  \/ WavWrite
  \/ \E song \in Songs, opens \in BOOLEAN : RecSkip(song, opens)
  \/ RecClose

-----------------------------------------------------------------------------
RecTypeOK ==
  /\ format \in Formats /\ template \in Templates
  /\ life \in {"opened", "playing", "closed", "failed"}
  /\ now \in 0 .. MaxNow /\ last \in 0 .. MaxNow
  /\ file.open \in BOOLEAN /\ file.blocks \in 0 .. WavMax + 1
  /\ vgm.total \in Nat /\ vgm.prev \in Nat /\ vgm.acc \in 0 .. Den - 1
  /\ header \in Nat \cup {NoHeader} /\ name \in 0 .. NameSize

\* "dump the register write if register is valid for VGM dump": the registers of
\* a VGM file are those of the sound.
OnlySoundRegisters ==
  format = "vgm" =>
    \A i \in DOMAIN output :
      output[i].op = "write" => output[i].n + 16 \in SoundRegs
=============================================================================
