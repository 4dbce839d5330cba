\* Keys, silence and timeouts in every order; two files and the options after them;
\* signals at any point of the setup of the terminal.
SPECIFICATION ProgramSpec
CONSTANTS
  Songs = 2
  DefaultSong = 0
  Seeds = 2
  Draw <- MCDraw
  PlayModes = {"LINEAR", "SHUFFLE"}
  LoopModes = {"OFF"}
  Starts <- AnySubsong
  Stops = {1}
  UserKeys = TRUE
  SkipMayFail = TRUE
  StepTicks = 1
  Second = 1
  subsong_timeout = 5
  silence_timeout = 2
  fadeout = 1
  gap = 1
  CanLockUp = FALSE
  MaxTicks = 7
  Sources <- MCSources
  Signals = {"TERM", "STOP", "CONT"}
  MaxSignals = 5
  SkipMayExit = TRUE
INVARIANTS
  FadesOnlyLate
  LaterSettingsCount
  KeysArrive
PROPERTIES
  NeverSkipsEarly
  PlaysToTheEnd
CHECK_DEADLOCK FALSE
