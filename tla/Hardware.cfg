\* Registers in every order, and fades; every kind of file; a sample of an odd
\* number of cycles, shorter than an instruction; and any program.
SPECIFICATION HardwareSpec
CONSTANTS
  LenPeriod <- MCLenPeriod
  FreqPeriod = 8
  LoPeriod = 4
  MaxVol = 2
  MaxWaveVol = 1
  MasterMax = 7
  FadeUnit = 3
  Lens = {1}
  Volumes = {0, 2}
  Speeds = {0, 1, 2}
  SweepTimes = {1}
  Divisors = {4}
  Los = {3}
  His = {0, 1}
  Slopes = {1, 2, 3, 7}
  Uses = {0, 2, 3, 4}
  Files <- MCFiles
  BankSize = 2
  Shift = 4
  Wrap = 256
  Values = {0, 1, 3, 4, 10}
  EnableValue = 10
  DivTc = 17
  Mult = 10
  Samples = 6
  Half = 2
  Tones = {0}
  Mid = 15
  Width = 4
  NarrowBit = 1
  Size = 4
  Rams <- MCRams
  TonePeriods = {3}
  WavePeriods = {1, 6}
  NoisePeriods = {8, 16}
  Loud = {0, 2}
  Duties <- MCDuties
  Gates <- MCGates
  Calls = {1, 3}
  MaxTime = 4
  MaxWrites = 2
  Steps = {4, 8, 24}
  MaxDone = 150
  LineClocks = 2
  Lines = 2
  VblankLines = 1
  TimerTcs = {1, 3}
  TimaPeriod = 2
  Tmas = {0}
  Budget = 2
  StepCycles = {1, 2}
  HaltCycles = 2
  CanStop = TRUE
INVARIANTS
  RunningHasMaster
  WindowsDiffer
  SkipIsExact
  LevelIsMixed
  ImpulseInBuffer
  CountersInPeriod
  StepIsExact
  FramesKeepTime
PROPERTIES
  SweepKeepsPeriod
  SoundsEnd
  BankedStartsFresh
  FlushKeepsPlace
  StepEnds
  WakesUp
