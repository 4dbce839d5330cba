\* The MIDI writers with notes, mutes and failures to open a file; recordings of
\* three formats; and the realtime plugins with their devices and their errors.
SPECIFICATION PluginSpec
CONSTANTS
  Plugins = {"midi", "altmidi"}
  Resolution = 3
  Los = {0, 1}
  His = {0, 1}
  NoteOf <- MCNoteOf
  Delays = {1, 2}
  MaxCycles = 8
  Base = 128
  OpenMayFail = TRUE
  Used = {0, 2}
  Formats = {"vgm", "iodumper", "wav"}
  Num = 3
  Den = 4
  WaitMax = 4
  ShortMax = 2
  Regs = {5, 18}
  Gaps = {1, 2, 7}
  MaxNow = 15
  WavMax = 3
  NameSize = 7
  Templates <- MCTemplates
  Songs = {0, 9}
  Drivers = {"dsound", "pipewire", "alsa", "nas", "sdl", "write"}
  Blocks = {1, 2, 4}
  MaxFrames = 9
  WriteMax = 4
  Lead = 1
  Buffers = 3
  MaxSize = 2
  MaxFaults = 2
  Room = 4
  Piece = 2
  MaxErrors = 2
INVARIANTS
  NoteHasChannel
  NoteIsCurrent
  NotesTakeTurns
  TimesAddUp
  NameIsWhole
PROPERTIES
  WaitsAddUp
  PlaysInOrder
  WriteEnds
CHECK_DEADLOCK FALSE
