# gbsplay in TLA+

gbsplay plays the music of Game Boy programs: it emulates the CPU, the timers
and the sound channels, decides which subsong is played when and for how long,
and hands samples or register writes to an output plugin. This directory models
the parts of it whose correctness is a matter of order, state kept from one
operation to the next, or arithmetic at a boundary. TLC checks every model on
small instances; TLAPS proves the safety properties that these runs check, and
of the order of subsongs and the realtime outputs that they implement their
abstract specifications, for all values of the constants.
`PROJECT.json` maps every definition to the lines it stands for.

## 1. The system

The program is one thread; signals interrupt it, and some output plugins play
on a thread of their own or let the device read memory that the player writes:

```
main (gbsplay.c, xgbsplay.c)
 └─ loop: step_emulation ─ gbs_step ─ gbhw_step ─ gbcpu_step ─ io_put / rom_put
          │                  │           ├─ gb_sound (buffers) ─ plugin.write
          │                  │           └─ callbacks: plugin.io, plugin.step
          │                  └─ nextsubsong_cb (player.c): the next subsong, or exit
          └─ handleuserinput: n, p, l, q, space, mutes
```

| component | state it keeps | operations | what makes it correct |
|---|---|---|---|
| subsong order (`player.c`, `util.c`) | play and loop mode, range, playlist, index, seed | end of a subsong, n, p, l, q, building a playlist | the order the man page promises; playlists are permutations given by their seeds; p undoes n; searches end; ranges come round |
| player loop (`gbs.c`, `gbsplay.c`) | time, silence, fade, pause | `gbs_step`, keys, `gbs_init` | nothing is skipped or faded early, whatever was left from the subsong before; the program ends |
| sound buffer clock (`gbhw.c`) | cycles and samples of the impulse buffer | `gb_sound`, `gb_change_level`, `gbhw_flush_buffer` | no impulse leaves the buffer (the assertions hold); flushes move no sound |
| sound channels (`gbhw.c`) | length, sweep, envelope, master, power, master volume | `io_put`, `sequencer_step`, `gbhw_master_fade` | no channel runs that should not; values keep their ranges; notes, envelopes and fades end |
| levels and noise (`gbhw.c`, `gblfsr.c`) | wave, duty and noise positions, levels, gates, mutes, what was last mixed | `gb_sound`, `gb_sound_substep`, `gb_sound_mainstep`, NRx1-NRx4, NR51, NR52 | what goes to the buffer is the sum of the levels; the short cut over quiet cycles changes nothing |
| emulated time (`gbhw.c`) | counters of vertical blank and timer, requests, halt | `gbhw_step`, writes to TAC, TIMA, TMA, IF, IE | no cycle is lost; steps end; halted CPUs wake; a lock-up is final |
| memory map (`mapper.c`) | bank registers, windows, cartridge RAM, boot ROM lock | `*_rom_put`, `bank_put`, `gbs_init` | windows differ, RAM stays in the cartridge, subsongs begin fresh |
| CPU instructions (`gbcpu.c`) | registers, program counter, stack, IME, halt | 500 opcodes, interrupts, `gbcpu_step` | flags are those of the exact result; every return finds its caller and its stack, whatever interrupts it; the breakpoint leaves a CPU that can be woken |
| replayer and handlers (`gbs.c`) | code in the ROM | `gbs_open_internal`, `gbr_open`, `gbs_add_rom_replayer`, `gbs_init` | play is called after init and once at a time |
| VGM input (`gbs.c`) | code made of a recording, bank, time waited | `vgm_open`, `emit`, the routines it writes | all writes, in order, on time, over any number of banks |
| MIDI writers (`midifile.c`, `plugout_midi.c`, `plugout_altmidi.c`) | notes on, mutes, time of the last event, static channel state | `midi_io`, `midi_step`, `midi_skip`, `midi_close` | notes begin and end in turns, at times that add up, in an open file |
| recordings (`plugout_vgm.c`, `plugout_iodumper.c`, `plugout_wav.c`, `filewriter.c`) | open file, carried fractions, counts, names | io, write, skip, close | waits and headers add up; names are whole |
| realtime output (`plugout_*.c`) | rings and queues shared with a device or its thread | write, pause, skip | what is heard is what was played, in order; no call waits for ever |
| configuration (`cfgparser.c`, `player.c`) | parser state, settings | `cfg_parse`, options | of two settings the later one counts, whatever stands around them |
| terminal (`terminal_posix.c`, `gbsplay.c`) | saved mode, flags, handlers active | `setup_terminal`, `restore_terminal`, signals | keys arrive one by one; the terminal is given back as it was |
| file formats, graphics, impulse tables | see `PROJECT.json` | | not modelled; reasons in section 7 |

They meet in five places. `gbs_step` decides that a subsong is over and calls
`nextsubsong_cb`, which ends in `gbs_init` or the exit (module `Player` extends
`PlayOrder`). `gbs_init` resets a part of each component below it, and what it
does not reset is carried into the next subsong (`NextSubsong`, `GbsInit`,
`Skip` in the modules). A register write ends the inner loop of `gbhw_step` and
changes the channels (`HwStep!WriteIo`, `Apu`). Plugins see register writes and
steps (`Midi`, `Recorder`). A full buffer goes to the output plugin
(`ImpulseBuffer`'s flush, `Output!WriteBlock`), between keys that pause it or
skip to another subsong.

Hard behaviours: a device that plays on while its ring is written; signals
between any two calls, also within the handler of another one; calls that fail or
end early and whose result nobody looks at; state that outlives what it belongs to (silence, fade, seed,
banks, notes); keys between any two steps; searches and loops that end only for
a reason; order of register writes; counters that are brought up to date late;
integer divisions that round separately; unsigned results used as signed. Every
such place is a hazard in `PROJECT.json`, with its line and its properties.

## 2. Modules and how they correspond to the code

**`PlayOrder`** (`player.c`, `util.c`) - the variables bear the names of
`player.c`'s static ones. `SongEnds` is `gbs_nextsubsong` and `nextsubsong_cb`;
`KeyNext`, `KeyPrev`, `KeyLoop`, `KeyQuit` are `handleuserinput`'s cases;
`SetupPlayMode`, `ShuffleStep`, `NewRound`, `ModeReady` are the steps of
building a playlist: a swap of `shuffle_long` is a step, since `setup_play_mode`
may build any number of playlists. The generator is a function `Draw` from seeds
to draws of `rand_long`, with any values in its range.

**`LoopModes`** - the abstract specification: which subsong may follow which, as
the man page says, without playlists and seeds: the first subsong is
START-AT-SUBSONG or the first one in the file, and in every play mode the last
one ends the program. The code departs from the page in two cases (section 6),
which `MCPlayOrder!Departs` spells out as steps of their own.
`MCPlayOrder!KeepsPromise` states that every other step of `PlayOrder` is one of
`LoopModes` or a stutter, with history variables for what led to a subsong. A
plugout that cannot prepare a subsong ends the program (`pc = "failed"`), which
is a `Quit`.

**`Player`** extends `PlayOrder` with `gbs_step` (`GbsStep`), the pause, and the
reset of `gbs_init` (`GbsInit`), by which every operation that starts a subsong
ends. The program that plays is any: silent or not in each step, and locked up
from any step on.

**`ImpulseBuffer`** (`gbhw.c`, 653-765, 832-930) - times are counted in cycles
times `Mult`, positions in samples; the actions are the steps of `gb_sound`:
`Begin` (gates, choice of the path), `FastTick`, `SlowTick` with its flush,
`ChangeLevel`, `End`. The sample values are left out.

**`Mixer`** (`gbhw.c`, 652-770, `gblfsr.c`) - the other half of `gb_sound`: what
the channels' levels are and when they are mixed. The record `mix` holds the
fields of `gbhw_channel` and `gbhw` that bear on it, under their names.
`CallSound` begins a call, `StepSound` is four cycles of it: `FourSteps` goes
through them by `gb_sound_substep`, `Skip` is the short cut of the path that does
not flush, and `ToneTick` is `gb_sound_mainstep`, in which the sequencer may stop
a channel or change its volume. Which path a call takes is open here, and is
`ImpulseBuffer`'s business; when channels run is open, and `Apu`'s. `stale` is a
history variable: power-off and mutes change levels without asking for a mixing.

**`Apu`** (`gbhw.c`, 205-650) - `ch` is `gbhw->ch`; one action per register, and
`SequencerStep` is the whole `sequencer_step` in the code's order: sweep,
lengths, envelopes, fade. **`HwStep`** (`gbhw.c`, 1084-1161) - the program
counter `pc` says in which loop of `gbhw_step` the code is; `RunCpu` is
`gbhw_check_if` and one instruction of any program. **`Mapper`** (`mapper.c`) -
a window is the offset and the size that `mapper_map` stores. **`Midi`** - the
record `m` is the static state of `midifile.c`, with the events the last call
has written; an action is one call of `midi_io`, `midi_step`, `midi_skip` or
`midi_close`.

**`Alu`** (`gbcpu.c`) - an operator per arithmetic instruction gives value and
flags; the state is the accumulator and the flags. **`Cpu`** extends it with the
program counter, the stack in memory, IME, the halt and the time, one operator
per instruction that moves them, with `gbcpu_step` (`Execute`, `Goes`) and
`gbhw_check_if` with `gbcpu_intr` (`Interrupt`). It leaves open what the program
is; two modules say it:

- **`Routines`**: GBS and GBR files. The ROM holds the handlers and the replayer
  byte by byte, as `gbs.c` writes them (`KnownCode`); at every address of `Code`
  is any instruction of the file (`FileCode`), as long as its routines pop what
  they have pushed, and no more, before they return. `frames` records who called whom; no
  action's effect depends on it but for that restriction.
- **`Vgm`**: `Translate` and `EndTranslation` are `vgm_open`'s loop, with `emit`;
  then `Step` runs the code on the CPU, with the routines `vgm_open` adds, and
  `written` and `clock` tell which register got what at which cycle.

`MCCpu` puts the three kinds of programs side by side for TLC.

**`SampleQueue`** is what a realtime output promises, in terms of frames taken,
given up and heard. No plugin promises that its device does not run dry
(`RunDry`): the program may be slow. What a dry device plays then, silence or old
frames, is not the stream; and if it is ahead of the plugin when that goes on, it
misses the frames whose places it has passed (`Miss`). The variable `dry` says
that the device has found nothing new since the last frame heard. **`Output`** is
the player's side of it (`sound_write`, `sound_pause`), and three modules extend it
with a plugin and its device, which is external:

- **`DirectSound`** (`plugout_dsound.c`): a ring that the device plays without
  end, old frames as well as new ones. `Ask` reads its cursor, `Copy` fills what
  was found free, in two parts at the end of the ring, and the device goes on in
  between (`RingSounds`) as fast as it likes: it may come to the offset and run
  over it, also between the question and the copy. `Passed` are the frames of a
  copy whose places it has passed by then. Lock, the copies and Unlock are one
  step.
- **`PipeWire`** (`plugout_pipewire.c`): three buffers that go round between
  `pipewire_write` (`Fill`) and the server's thread (`StreamSounds`), and the
  buffers without memory, which do not come back (`NoMemory`).
- **`BlockingOutput`**: the plugins whose device has a call that waits
  (`plugout_alsa.c` with its two kinds of repair, `plugout_nas.c`,
  `plugout_devdsp.c`, `plugout_pulse.c`, `plugout_stdout.c`), and `plugout_sdl.c`,
  which sleeps once for an estimated time and then queues the block in any case:
  its queue has no bound, and `SdlWrite` no guard. A queue that is empty is silent;
  nothing is missed there, and `dry` does not follow that silence.

`MCOutput!PlaysInOrder` states that each implements `SampleQueue`.

**`Recorder`** (`plugout_vgm.c`, `plugout_iodumper.c`, `plugout_wav.c`,
`filewriter.c`) - `Io` is the plugins' `io` function with all the commands it
writes (`output`), `RecSkip` and `RecClose` finish and open files, and
`Expansion` is the loop of `expand_filename`. `MCPlugins` adds the sum of the
waits that a reader of the file would make.

**`Config`** (`cfgparser.c`) - one action per state of `cfg_parse`; a value is
read by the parser of its kind (`ReadNumber`, `ReadKeyword`, `ReadLine`,
`ReadUnknown`), with the characters that each skips, and `NextSource` is
`main`'s order of files and options. A file is a sequence of words, numbers and
single characters, so that what is lost after an error can be told.

**`Terminal`** (`terminal_posix.c`, `gbsplay.c`) - `calls` is the stack of main
and the handlers that interrupt it, each at its next step; `ShellSets` is what
the shell may do to the terminal while the player is stopped. `tty` says whether
the standard input is a terminal at all: if it is a pipe or a file, `tcgetattr`
fails and `setup_terminal` returns having set nothing (`SaveMode`), so that the
main loop runs without raw mode and O_NONBLOCK and waits for what it reads.

`MC*` modules add what TLC needs: history variables (they are read by no action
of the code) and constants. `MCHardware`, `MCProgram` and `MCPlugins` put parts
side by side that do not read one another's state: a behaviour is about one of
them, chosen by `part` or `family` at the start, while the others keep one
initial state. `*Proofs` modules hold the theorems.

## 3. Runs

| run | question | bounds |
|---|---|---|
| `PlayOrder_keys` | all modes, options and keys together, and plugouts that refuse a subsong; seven properties, among them what `LoopModes` promises and two of liveness | 3 subsongs, default the second, 3 seeds |
| `PlayOrder_first` | does the search for a playlist that begins with subsong 0 end? **No** | 3 subsongs, 2 seeds |
| `Program` | the player's loop: timeouts, silence, fade, gap, pause and keys in every order; configuration: two files and options; terminal: signals anywhere, with and without a terminal | 2 subsongs, 7 ticks; 2 lines a file; 5 signals |
| `Player_lockup` | does a locked up CPU end the playback? **No** | 2 subsongs |
| `Config_invalid` | does a value that is no loop mode keep the old one? **No** | 3 lines |
| `Terminal_continue` | does a player that was continued give the terminal back? **No** | 2 signals |
| `Hardware` | channels: registers and the sequencer in every order, fades; mixer: are skipped cycles exact and levels mixed in time; memory map: four kinds of file; buffer: do impulses stay in it and in their place? Time: whatever the program, is it kept, do steps end, do CPUs wake? | periods of 3, 4 and 8, volumes to 2; 4 steps of four cycles with 2 changes; 12 to 32 banks of 2 bytes; a sample of 1.7 cycles; frames of 4 clocks, instructions of 1 and 2, calls for 2 |
| `ImpulseBuffer_even` | the buffer for a sample of a whole even number of cycles. Do impulses stay in it? **No** | sample of 4 cycles |
| `Plugins` | MIDI: notes, time, open files; recordings: waits, headers, names; realtime output: does it implement `SampleQueue`, does every write end? | 8 cycles; 15 cycles; 9 frames in blocks of up to 4, 2 errors |
| `Midi_varlen` | can the times be read back? **No** | digits to base 2 |
| `Cpu_cartridge` | is the CPU of a cartridge made by `gbs_add_rom_replayer` ready for interrupts when it waits for play? **No** | as `Cpu_programs` |
| `Cpu_programs` | are arithmetic and flags exact; do routines and interrupts return to their callers; is a recording played in order and on time? | arithmetic: none, all bytes and flags; routines: three addresses, three words on the stack; recordings: all of up to four commands and four longer ones |

Why these bounds are enough. *Three subsongs and three seeds*: both playlists
without a fixed point occur, a seed without a successor (they wrap around), and
every option can be at either end, in the middle, or left out. *A period of 3*
is the shortest that distinguishes a counter's first, middle and last value;
the wave channel's is longer, as in the code. `Apu`'s `Fading` and the used
channel are separate because no step lets one channel read another.
*Frames of 4 clocks* make an instruction half a frame, so that it can run over
the end of a period, with timers shorter than an instruction and longer than a
part of a frame. *A sample of 1.7 cycles* is shorter than an instruction, and 10
subdivisions make all rounding cases occur; `MaxDone` lets the buffer be flushed
many times. *MIDI times*: the resolution of 3 does not divide the times. `Base`
2 makes numbers of three digits; the code's is 128.

*Mixer*: the noise's register has 4 bits, so that it comes round, and its narrow
form 2; the wave has 4 samples, so that its position wraps, and periods of 2 and
12 cycles lie on both sides of the four that are skipped at once. A second
initial state has every channel triggered, so that the two changes a behaviour
may make are made to sounding channels; what two changes and four steps (16
cycles) do not reach is the proofs' (section 5). *Output*: a ring of 4 frames is
filled and emptied twice, with the device overtaking the writer anywhere, and blocks are shorter than, as long as, and not a
divisor of it; `MaxFaults` is 2, since with the third lost buffer PipeWire has
none left (section 6). *Recordings*: 3/4 of a sample a cycle leaves fractions,
and a gap of 7 cycles takes two waits of `WaitMax`; names have up to seven
characters for a buffer of seven, the end included. *Configuration*: all pairs of
nine kinds of line, one of them with each error of one character, with and without the last line's end, after one line of the
system's file. *Signals*: two handlers can be interrupted by each other and by a
stop, with the shell changing the mode each time.

*Routines*: `MaxWords` bounds the stack: with that many words on it the file's code
neither calls nor pushes, nor turns interrupts on. Three are enough for a routine
with a word on the stack that calls another one and is interrupted there by
handlers that are interrupted in turn; for deeper stacks see section 5. The file's data is left out: the flags never change, and of each
two opposite conditions one is true. Words that have been popped are forgotten,
for none of these programs looks below the stack pointer; time is not counted
(`clock` is `Untimed`). *Recordings*: `BankSize` is 16, so that calls, counts and
writes meet the end of a bank in every way, and the longest recording takes more than a
dozen banks; `MaxUnits` is 1000, the code's 65536. Registers are 0 .. 47, those of the
sound: a write to a higher one could reach RAM, where the number of the bank is kept.
Recordings that need more than 255 banks are left out by the properties
(`FitsInBanks`, see section 6).

Bounds in guards are `MaxTicks` (`Player`: the time of a subsong without a
timeout), `MaxDone` (`ImpulseBuffer`), `MaxTime` and `MaxWrites` (`Mixer`),
`MaxCycles` (`Midi`), `MaxNow` (`Recorder`), `MaxFrames`, `MaxFaults` and
`MaxErrors` (the output plugins), `MaxSignals` (`Terminal`) and `MaxWords`
(`Routines`); everything else is finite by itself. In particular the code of a
recording is: since its clock only runs forward and the run finds finitely many
states and no deadlock, every recording comes to its end and can be played again.

Deadlock is allowed where the program may exit (`PlayOrder`, `Program`, the
terminal, the configuration once it is read), and where `Plugins` has come to a
bound or to the exit. That no write waits for ever there is `WriteEnds`.

Every property has a mutant, an operator whose comment begins with "Slip:", which
stands before the definition it changes: the plausible bug that the property is
there to find.

## 4. Fairness

The main loop calls `gbs_step` again and again, and the program is a single
thread, so that what it has begun it goes on with: weak fairness of `Internal`
and of `GbsStep` or `SongEnds` (of a `SongEnds` that the plugout does not refuse: a
subsong that is played again changes no variable, which must not force a failure). The keys have no fairness: liveness properties
of the order speak of behaviours in which from some time on no key is pressed
(`Undisturbed`), those of `Apu` of a program that has written its last register
(`Quiet`), the last start of a fade included. `sequencer_step` is called every 2048th time of `gb_sound_mainstep`,
hence weak fairness of `SequencerStep`. Emulated time needs fairness only of the code's
own loops (`Work`) and of `gbs_step` calling again (`Call`), never of what the
emulated program does.

Of the output plugins (`OutputFairness`): their loops go on, devices play what is
queued or what is in the ring while they are not paused, and a suspended stream can be resumed in the
end. `dsound_write` asks for the cursor many times while the ring is played once,
and cannot miss for ever the moments at which there is room: strong fairness of
`Ask`. Errors and pauses have none; a call that waits belongs to a player that is
not paused, for the pause comes between two steps.

## 5. Proofs

Eight modules, checked by tlapm, for all values of the constants that the named
assumptions admit.

**`Recursion`** holds what the others need of recursive functions. The library's
induction theorems take a predicate as a parameter, which no installed prover can
instantiate; here a property is the set of the numbers that have it, and
`Induction` follows from the smallest number outside that set (`Smallest`).
`PrimitiveRecursion` says that a recursive function exists, which TLA+ does not
take for granted, and `AccumulatedEmpty`, `AccumulatedAppend`, `AccumulatedBy` are
the rules for loops over sequences. The model writes such loops with
`Accumulated` (module `Accumulation`): it says the same as `FoldLeft`, of which
nothing can be proved.

**`PlayOrderProofs`**

- `TypeCorrect`, `PlaylistPermutation`, `SubsongAlwaysInFile`, `FirstIsNeverFirst`:
  for any number of subsongs and seeds and any generator. The permutation is
  inductive together with the types: a swap of two positions is injective. That
  the first subsong is never first needs a stronger invariant: while the loop is
  at `k`, positions above `k` are final, and a position `0 < i <= k` that has not
  been swapped still holds its own number, so the first swap with position 0
  moves its subsong away for good.
- `SearchForFirstNeverEnds`, `StartAtFirstNeverPlays`: what the run `PlayOrder_first`
  finds for three subsongs holds for any number above one and any generator, and
  of whole behaviours. A player that searches for a playlist beginning with the
  first subsong (`SearchesFirst`) does so in every later state, through all seeds
  (`SearchGoesOn`, from `FirstIsNeverFirst`); one that was started so never plays.
- `PlaylistFromSeed`: the list is what the seed alone makes of the identity, in
  each round of the shuffle (`Seeded`), by induction over the rounds.
- `PlaylistIsFollowed`, `PrevTakesNextBack`: about the histories of `MCPlayOrder`.
  `Calm` follows the index while the loop mode is off; `Undone` says where the
  player is after n, and after n and p: at the next index of the same seed, or at
  the first one of the next seed's list, and back; while a list is being
  shuffled, which seed and which end of it are to come.
- `OrderKeepsPromise`: every step of the play order is one that module `LoopModes`
  allows, one of the two departures, or a stutter, whatever the plugout refuses. The
  refinement mapping is that of the run: the subsong, once one has begun. Its
  invariant (`Flow`) says what a player that waits for a playlist will do with it:
  the first one is asked for before any subsong has begun, and a range starts
  over only at its last subsong. Every way of asking for a subsong ends in
  `PlaySubsong`, `SetupPlaylist`, the failure of the plugout or the exit, each of which maps to a step or a
  stutter, so that the search for a playlist, which need not end, is a stutter of
  any length.

**`ProgramProofs`**

- `NoFadeLeftOver`, `NoEarlySkip`: for any number of subsongs, timeouts and any
  length of a step, as long as the CPU does not lock up (what happens then is
  finding 2). `gbs_init` resets the time and the fade but not `silence_start`. The
  invariant (`Measured`) says why that skips nothing early: a start of a silence
  is never before the end of a first step, so that the one left over lies ahead
  of the new subsong's time until its own silence has lasted as long as what
  `gbs_step` computes. `DivMono` and `FullSeconds` carry this through the rounding
  to seconds.
- `KeysAlwaysArrive`: for any number of signals. The invariant speaks of the stack
  of handlers: what is not set yet (raw mode, O_NONBLOCK) will be, by a call that
  is active on the stack or by a signal that waits (`WillBeSet`). A second signal
  only waits for one that is being handled. Without a terminal nothing is ever set
  (`LeftAlone`).
- `LaterSettingsWin`: for any number of files and options, and files of any number of
  lines. `SourcesAssumption` says what such a file is, independently of the parser
  (`MCConfig!Says`): a setting is a name, an equals sign and a value of the name's
  kind, with any spaces and line ends between them. A number or a word is followed by
  a space, a unit of one letter or the end of the file; the value of an unknown option
  is anything up to the end of the line. Between the settings there may be single
  characters where a name, an equals sign or a number should be: they set nothing, and
  the next setting comes right after them (`NoName`, `NoEquals`, `NoNumber`).
  TLC evaluates it for the files of the run. The
  invariant (`ConfigInv`) says that all sources before the present one count in
  their order (`UpTo`), and the first few settings of the present one (`Within`); and
  that the parser is on its way to the next token it expects, or has come to it
  (`Expecting`): where `SkipSpaces` stops is where the next setting, its equals
  sign or its value is (`Goal`). `ReadsValue` shows for each kind of value that what
  the parser skips behind it is never a part of the next setting, and `ReadsNoNumber`
  and `SkipsStray` that `err_expect` skips the wrong character and no more. At the end of a file
  nothing can be expected any more (`ReadEnd`).

**`HwStepProofs`**: `NothingOverdue`, `StepReturnsExact`, `LockupStays`,
`CountersStayInPeriod`, `FramesInTime`, for frames, timers and instructions of any
length and any program. The invariant (`Running`) bounds what the CPU runs at once
by what is left of the budget and of the frame, and less than one instruction
more. TIMA counts ticks by a recursive function, whose range is an induction.
The time since the last frame is what its counter has come down by, plus what
the CPU has run since (`FrameInv`); only a CPU that gets stuck loses cycles
(`Lost`), and it does not run again.

**`HardwareProofs`**

- `RunsWithMaster`, `FrozenCounterIsOff`: for length counters and volumes of any
  range, any program and all four channels. The invariant is the same for each
  channel (`Sound`); the only subtle step is the trigger that thaws a counter and
  clocks it at once: since a frozen counter is at 0 and has at least two steps,
  that clock cannot freeze it again.
- `SweepStaysInRange`: for any range of periods and any divisors. A shadow in the
  range moves up by at most what is left of it, and by at least 1 from 0; down
  it moves only where the code sees no overflow (`SweepBounds`). The invariant
  (`SweepInv`) keeps the divisor above 0.
- `WindowsApart`, `RamStaysInside`: for banks of any size, any number of them and
  any program. Inductive once the lower window of a GBS file is at 0 and the RAM
  window shows a bank that exists. `RamAssumption` is needed: cartridges have one
  bank of RAM or at least four, as the sizes that `mapper_gb` knows.
- `BankedSubsongIsFresh`: for any number of banks; nothing moves the lower window of
  a GBS file, and only such a file has a default bank (`HeaderAssumption`).

- `BufferTypeCorrect`, `RoomIsNotNegative`, `StartsInBuffer`, `WithinBuffer`, `InBuffer`,
  `FlushPlaceKept`: for every rate, buffer size and instruction length. The
  inductive invariant bounds the cycles since the last flush by `MaxCycles` and
  one more; that impulses end in the buffer (`InBuffer`) has as a hypothesis what
  `ImpulseBuffer_even` violates: that the room is not a whole number of samples at
  the last cycle.
- `SkippedCyclesChangeNothing`: the four cycles skipped at once are those gone
  through one by one, in any state at all: each cycle that only counts takes 1
  from the counters of the channels that run (`Down`), and none of four such
  cycles brings one that was above 4 to its end. `LevelsAreMixed`: an invariant of
  the record's shape (`Shaped`) and of what is mixed (`MixedUp`), which every
  action keeps because it either leaves levels, gates and mutes alone, mixes at
  once, asks for it, or is one of the two that the property excludes.

**`OutputProofs`**

- `NotesHaveChannels`, `NotesAreCurrent`: for both writers, any table of notes and
  any length of a subsong. The invariant (`MidiInv`) adds the file's type and
  that a channel runs only with its master on. A call of `midi_io` is a
  composition of `NoteOn`, `NoteOff`, `Pan`; a lemma about each says which note of
  which channel it changes (`Renoted`), and that compositions add up.
- `NotesBeginAndEnd`, `TimesAreExact`: about a reader of the file, with the
  histories of `MCMidi`, in which one of the channels is used (`UsedAssumption`).
  `HistInv` says that the reader's time is `prev`, the time of the last event in
  whole ticks, and that what it hears is `note`. `NoteOn` over a note would break
  that, but `midi_io` always ends the one before.
- `OutputImplementsQueue`: all realtime plugins implement `SampleQueue`, for blocks,
  buffers, rings and devices of any size, with errors and pauses. Each kind of
  device has its invariant, and the initial states and every step map to those of
  `SampleQueue` or to a stutter. *A device with a queue* (`DeviceInv`): its queue is
  the frames from `heard + 1` to `taken` without those of `gone`, in order. *PipeWire*
  (`StreamInv`): the same of the concatenation of its buffers, and the free, the
  queued and the lost ones are all there are. *DirectSound* (`RingInv`): a position
  of the ring holds the last frame written there, which its distance from the
  offset tells (`Back`). All frames up to some `w` have been heard or given up, and
  none behind `w` is (`TurnsOver`); those that still wait are at most the way from the
  play cursor to the offset, and exactly that way unless the device has run dry
  (`Asks`). Between the question and the copy there is room for what is copied, or the
  device is dry and nothing waits (`Copies`): so a copy either keeps the rest, or misses
  the frames whose places have been passed. Nothing is assumed of the device's speed.
- `RecordedWaitsAddUp`: for any ratio of samples to cycles and any limit of a wait.
  `RecInv`: waits so far and the carried fraction are exactly the time
  (`Den * waited + vgm.acc = now * Num`, with `acc < Den`), so that no rounding
  accumulates; the loop that splits a wait is an induction over its parts. A file
  that is closed and opened anew starts both at 0.
- `NamesAreWhole`: for any pattern, buffer and subsong; `expand_filename`'s loop
  either comes to the end of the pattern with all it has expanded, or reports
  that it has not.

**`RoutineProofs`**: `StackInOrder`, `ReturnsLeadBack`, `IdleAwaitsFrame`,
`PlayTakesItsTurn`, `CartridgeNeverPlays`, for any code of the file at any addresses, any handlers of up
to two calls, any interrupts and any `MaxWords`. `RoutinesInv` says of the
routines that run

- where each may stand (`Stands`): in the file's code, at a `rst`, in a handler if
  that is what it is and it has pushed nothing, in the replayer if it is the first
  of a cartridge; and where it was called from (`Entered`);
- that the stack holds them (`Stacked`): below each routine's stack pointer lie its
  return address and the words it has pushed, down to the next one's. The
  replayer is left out, for it begins a stack of its own in the middle;
- how many words there may be where the code is (`Room`, `IrqRoom`): an interrupt
  and the call of its handler do not ask how full the stack is, so that two words
  more than the file's code may fill are kept for them (`FileAssumption`);
- that interrupts are on nowhere but at the breakpoint unless the file's code has
  turned them on, and that a handler is then the outermost routine (`InTurn`). From
  this follows `CartridgeNeverPlays`, too: a cartridge never comes to the breakpoint.

The ROM is known byte by byte: `RomIsKnown` derives from `gbs_open_internal`'s and
`gbs_add_rom_replayer`'s writes which instruction stands at which address. Then
each instruction goes on in a routine, enters one, leaves one, or pushes or pops
(`MoveKeepsInv`, `EnterKeepsInv`, `LeaveKeepsInv`, `PushedKeepsInv`); the file's
(`FileKeepsInv`), the handlers', the `rst`s' and the replayer's are mapped to these
one by one. Only the outermost routine
of a file that is no cartridge returns to the breakpoint, where `gbcpu_step` halts
the CPU and turns interrupts on.

**`CpuProofs`**

- `VgmPlaysInOrder`, `VgmPlaysOnTime`: for recordings of any length and any commands,
  banks of 8 to 16384 bytes and delays of up to any `MaxUnits` that two bytes can
  count. The code is a sequence of units (`Unit`): a delay, a write, or the end of a
  bank. A layout is a function `at` from the places where a unit begins to an `Entry`:
  the bank, the writes and the cycles of delays before it. `Layout` says that every
  place leads to the next one within its bank, and that each write lies within 32
  cycles of its time. While the recording is translated there is such a layout of
  the code so far, with the fields of `vgm_open` at its end (`OpenAt`): each of
  `emit`'s two cases appends to it (`EmitNext`, `LayoutGrows`), and its byte to spare
  is what keeps a `RET` in every bank (`Roomy`). That a write is due on time follows
  from `total_clocks` being the sum of all the delays, so that what one write
  is early or late is made up for by the next (`ToUnits`).
  Then the CPU goes through the layout (`Machine`): it is in the loop over the banks,
  at the beginning of a unit, in the middle of one (`Writing`, `Reading`, `Counting`),
  or in the trap; and it has done exactly the writes before that place, in the cycles
  that these take (`Paid`). `MachineStep` has one lemma for each kind of unit, and
  these one for each kind of instruction. The routines' bytes are known as
  `vgm_open` writes them (`LowerIs`); what the CPU stores lies apart from the words on
  the stack and from the number of the bank, for the stack is high enough
  (`VgmAssumption`). `OR E` finds the count at zero only if both of its bytes are
  (`OrIsZero`, from the sum of bits that `Or` is).
- `ArithmeticExact`: after any arithmetic with any operands (the run has three of them,
  which are enough to reach all bytes and flags). The accumulator stays a
  byte, for every instruction is one of values below 256 (`ArithmeticKeepsBytes`); a
  byte is the sum of its bits (`BitsAddUp`). The exactness of sums and differences
  is linear arithmetic. For `DAA` the digits are taken apart (`SumOfDigits`,
  `DifferenceOfDigits`): the correction of the lower digit and its carry into the
  upper one are followed through both wraps.

Only model-checked:

- every liveness property (`SearchEnds`, `RangeComesRound`, `PlaysToTheEnd`,
  `SoundsEnd`, `StepEnds`, `WakesUp`, `WriteEnds`): fairness and `ENABLED` are out of
  the prover's reach.

## 6. What the code does differently from what it says

Runs that end in a violation, as findings:

1. `player.c:240`: shuffle mode with START-AT-SUBSONG 1 never begins to play.
   `shuffle_long` never leaves an element in its place, so no playlist begins
   with subsong 0.
2. `gbs.c:411`: a locked up CPU does not end the playback, for `cycles < 0` is
   never true of a `cycles_t`.
3. `gbhw.c:846`: with a sample of a whole even number of cycles the last cycle
   of the room is one too far, and `gb_change_level`'s assertion fails.
4. `midifile.c:107`: a time with an inner group of seven zero bits is written
   without it and reads as a shorter one.
5. `cfgparser.c:202`: a value without a letter, where a loop mode (or a play mode
   or byte order) is expected, leaves the pointer to it unset; the word of an
   earlier line may still be there and becomes the setting.
6. `terminal_posix.c:63`: continuing the player saves the player's own raw mode as
   the one to restore, if the shell has not changed it meanwhile.
7. `gbs.c:633`: the cartridge that `gbs_add_rom_replayer` makes ("Enable interrupts
   now") sets IE but not IME. Its loop of halt and jump never takes an interrupt,
   and play is not called, unless the file's own code executes EI
   (`CartridgeNeverPlays` proves it for any code that does not).

Observed while modelling; the models do what the code does, and the properties
leave these cases out by a stated condition:

- `player.c:271`: when a range starts over in shuffle mode, the playlist is
  searched for the subsong that has just ended, and the result is dropped. So
  `PlaylistFollowed` speaks of behaviours with the loop mode off.
- `gbs.c:248`: without START-AT-SUBSONG a range restarts at the default subsong;
  the man page says at the first one in the file. It is the first case of
  `MCPlayOrder!Departs`.
- `player.c:135`: in shuffle and random mode loop mode none never exits by
  itself unless STOP-AFTER-SUBSONG is set (the man page: "gbsplay will exit"), and
  a range never starts over. It is the second case of `Departs`.
- `gbs.c:428`: `gbs_init` does not reset `silence_start`: a silence at the
  beginning of a subsong after a silent one is skipped late, though never early.
- `gbs.c:442`: a fade that has begun goes on after a switch to loop mode single.
- `gbhw.c:590`: with a sweep shift of 0 the period may leave its range;
  `SweepKeepsPeriod` asks for a shift.
- `gbhw.c:1138`: LY and STAT are as old as the last update of the counters; a
  program that only reads sees them stand still until the next interrupt.
- `gbs.c:254`: a file whose default bank is 1 begins a subsong with the banks
  the last one left; `BankedStartsFresh` speaks of the other files.
- `mapper.c:79`: a bank out of range is mapped all the same, after the warning.
- `gbhw.c:549`: writing 1 to P1, NR50 or the wave pattern locks the boot ROM
  out, like 0xff50.
- `midifile.c:225`: a track ended by a change of the subsong keeps its notes on;
  only the last one's are ended (HISTORY: "end pending notes when closing
  track"). `NotesTakeTurns` asks for it at the exit only.
- `gbs.c:1141`: the loop over the banks of a recording counts them in a byte and
  `gbs_rom_put` takes bank 0 for bank 1, so that a recording of more than 255 banks
  begins again after the 255th. `WritesInOrder` and `WritesOnTime` leave such
  recordings out (`FitsInBanks`).
- `gbs.c:1089`: a delay takes 32 cycles more than its rounds, each write 20 and a
  change of the bank 104, which `vgm_open` does not count: a recording is
  played that much late. `WritesOnTime` states the difference exactly.
- `plugout_midi.c:20`: running channels, masters and volumes are kept from one
  track to the next.
- `gbhw.c:757`: what is switched off by NR52, or muted, is mixed only with the next
  change of a level; until then it sounds on. `LevelIsMixed` excludes that time.
- `gblfsr.c:30`: a register that has become 0 in its narrow form stays 0, and the
  channel silent, until the next trigger.
- `plugout_dsound.c:118`: nothing keeps the device from overtaking the writer. It
  then plays the ring's old frames again, and of frames that are copied behind its
  cursor those that it has passed are heard a round later, after newer ones.
  `SampleQueue!Miss` is that case: they count as given up. It also happens if the
  player is paused and resumed after a skip and before the first write.
- `plugout_sdl.c:76`: the sleep may be too short or be cut short by a signal; the
  queue then grows, for nothing bounds it.
- `terminal_posix.c:60`: with a standard input that is no terminal the main loop
  runs without O_NONBLOCK, and waits for input while it should play.
- `plugout_alsa.c:134`: a stream whose resumption fails for another reason than
  EAGAIN is asked again for ever; `Resume` succeeds in the end.
- `plugout_alsa.c:131`, `plugout_devdsp.c`, `plugout_stdout.c`: a write that returns
  early loses the rest of its block, for nobody looks at the count.
- `plugout_pipewire.c:143`: a buffer without memory is neither filled nor returned;
  after the third the loop at line 137 never ends.
- `plugout_vgm.c:141`: `addr >= 0xff10` lets IE through, so that every file begins
  with a write to register 0xef. `Recorder!OnlySoundRegisters` states that it
  does not, and is not among the runs' properties.
- `plugout_vgm.c`: the number of samples in the header leaves out the time after
  the last write.
- `terminal_posix.c:21`: a player that is terminated by a signal does not
  close its plugin: recordings keep the header of an empty file.
- `player.c`, `play_subsong`: a plugin that cannot go on to another subsong ends
  the program with `exit(1)`, and a signal between `tcsetattr` and
  `terminit = 1` with the handler: both leave the terminal in raw mode.
  O_NONBLOCK is never taken back.
- `terminal_posix.c`: the handler for SIGSTOP is never called, since that signal
  cannot be caught; SIGTSTP has none. That of SIGABRT restores the terminal while
  the player goes on.
- `player.c:309`: with a refresh delay of a second or more
  `nanosleep` gets an invalid time and a paused player does not sleep.
- `cfgparser.c`: an empty value takes the next line for the value, and a word of
  three letters or more where a number is expected costs the next line, too.
- `cfgparser.c`: words are compared by `strncmp` with the size of a pointer, so
  that only seven characters count.

## 7. Not modelled, and the plan

Not modelled, because the code is a calculation without control: the low pass
and the capacitor through which `gbhw_flush_buffer` sends the samples, the
impulse tables (`impulsegen.c`), the values that MIDI and VGM files hold beside
notes, registers and times. Not modelled, because it runs once on constant data:
header parsing (`gbs.c`'s GBS, GBR, VGM and GZIP headers, `gbsinfo.c`,
`gbs2gb.c`, `crc32.c`) and the negotiation of formats in the `open` functions of
the output plugins; what these decide on is a constant of the modules. Not
modelled, because it is another face of what is: `xgbsplay.c`, the same player
loop in a window whose state is the X server's; `terminal_windows.c`, a console
without signals; the CPU's loads that no code of `gbs.c` uses.

Simplified within the modules: `Config` leaves out comments, escapes and limits of
length; `Mixer` runs with one of the two tone channels and a small register; a
call of `gb_sound` is bounded there; `Output` counts frames, not bytes; `Recorder`
leaves out the values of registers.

Built, in the order of the plan: `PlayOrder`, `LoopModes`, `Player`,
`ImpulseBuffer`, `Apu`, `HwStep`, `Mapper`, `Midi`, `Alu`, `Cpu`, `Routines`,
`Vgm`; then `Recorder`, `SampleQueue` with `Output` and its three plugins,
`Config`, `Terminal`, `Mixer`; and eight modules of proofs.

What could come next:

1. `Apu` and `Mixer` as one machine, in which the registers that stop and trigger
   channels are the same actions.
2. `Recorder` as the inverse of `Vgm`: that a recording read back makes the writes
   it was made of.
