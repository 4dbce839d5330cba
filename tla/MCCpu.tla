-------------------------------- MODULE MCCpu ---------------------------------
(***************************************************************************)
(* The CPU for TLC, with three kinds of programs: any arithmetic, the      *)
(* routines of GBS files, and the code made of VGM files.                  *)
(***************************************************************************)
EXTENDS Routines, Vgm

CONSTANT Programs   \* which of "alu", "gbs" and "vgm"

VARIABLE program

gbsOnly == <<rom, frames, willing>>
vgmOnly == <<song, parsed, trans, machineVars>>
control == <<pc, sp, de, hl, ram, ime, halted, clock, requested>>
allVars == <<cpuVars, gbsOnly, vgmOnly, program>>

\* Three instructions are enough for routines that call each other.
MCCode == {1024, 1025, 1027}

\* ugetab, with its two handlers; and a cartridge, with play called by the timer.
MCHandlers ==
  { [vblank |-> <<1027, 1025>>, timer |-> <<1027>>, replayer |-> FALSE],
    [vblank |-> <<>>, timer |-> <<1025>>, replayer |-> TRUE] }

\* The cartridges of them.
MCCartridges == {h \in MCHandlers : h.replayer}

\* All recordings of up to four commands, waits of 1 and 5 samples among them, and
\* some that take many banks, or whose waits take two bytes or two delays.
WaitFor(samples) == [op |-> \h61, n |-> samples]
Brief == [op |-> \h74, n |-> 0]
Write(r, v) == [op |-> \hB3, reg |-> r, val |-> v]
MCRecordings ==
  UNION {[1 .. n -> {WaitFor(1), Brief, Write(2, 7)}] : n \in 0 .. 4}
  \cup { <<WaitFor(150), Write(2, 1), WaitFor(70), Write(3, 2), WaitFor(300), Write(0, 255)>>,
         <<Write(2, 1), [op |-> \h62, n |-> 0], Write(2, 2), [op |-> \h63, n |-> 0], Write(2, 3)>>,
         [i \in 1 .. 9 |-> Write(i, i)],
         [i \in 1 .. 60 |-> IF i % 3 = 0 THEN WaitFor(3) ELSE Write(i % 48, i)] }

NoGbs == rom = <<>> /\ frames = <<>> /\ willing = FALSE
NoVgm ==
  /\ song = <<>> /\ parsed = 0 /\ trans = [code |-> <<>>, codelen |-> 0]
  /\ bank = 1 /\ written = <<>> /\ delays = 0
NoControl ==
  /\ pc = 0 /\ sp = 0 /\ de = 0 /\ hl = 0 /\ ram = <<>>
  /\ ime = FALSE /\ halted = FALSE /\ clock = Untimed /\ requested = {}

MCInit ==
  /\ program \in Programs
  /\ \/ program = "alu" /\ AluInit /\ NoControl /\ NoGbs /\ NoVgm
     \/ program = "gbs" /\ RoutinesInit /\ NoVgm
     \/ program = "vgm" /\ VgmInit /\ NoGbs

MCNext ==
  /\ \/ program = "alu" /\ Arithmetic /\ UNCHANGED <<control, gbsOnly, vgmOnly>>
     \/ program = "gbs" /\ RoutinesNext /\ UNCHANGED vgmOnly
     \/ program = "vgm" /\ VgmNext /\ UNCHANGED gbsOnly
  /\ UNCHANGED program
MCSpec == MCInit /\ [][MCNext]_allVars

\* Sums, differences and decimal numbers are exact, in whatever order programs
\* compute them (see Alu).
ArithmeticIsExact ==
  program = "alu" => SumIsExact /\ DifferenceIsExact /\ BcdIsExact
=============================================================================
