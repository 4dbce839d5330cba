\* The player is continued, and exits later.
SPECIFICATION TerminalSpec
CONSTANTS
  Signals = {"STOP", "CONT"}
  MaxSignals = 2
  SkipMayExit = FALSE
INVARIANT TerminalGivenBack
CHECK_DEADLOCK FALSE
