\* Times of up to three digits.
SPECIFICATION MCSpec
CONSTANTS
  Plugins = {"midi"}
  Resolution = 1
  Los = {0, 1}
  His = {0, 1}
  NoteOf <- MCNoteOf
  Delays = {1}
  MaxCycles = 8
  Base = 2
  OpenMayFail = FALSE
  Used = {0}
INVARIANTS
  TimeCanBeRead
CHECK_DEADLOCK FALSE
