\* A number where a loop mode is expected.
SPECIFICATION ConfigSpec
CONSTANTS
  Sources <- MCWrong
PROPERTY OldSettingIsKept
CHECK_DEADLOCK FALSE
