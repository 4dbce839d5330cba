\* The CPU may lock up.
SPECIFICATION FairMCSpec
CONSTANTS
  Songs = 2
  DefaultSong = 0
  Seeds = 2
  Draw <- MCDraw
  PlayModes = {"LINEAR"}
  LoopModes = {"OFF"}
  Starts = {0}
  Stops = {1}
  UserKeys = FALSE
  SkipMayFail = FALSE
  StepTicks = 2
  Second = 2
  subsong_timeout = 3
  silence_timeout = 1
  fadeout = 0
  gap = 0
  CanLockUp = TRUE
  MaxTicks = 9
PROPERTY LockupEndsPlayback
CHECK_DEADLOCK FALSE
