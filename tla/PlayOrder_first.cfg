\* Shuffle mode when the first subsong is asked for.
SPECIFICATION FairMCSpec
CONSTANTS
  Songs = 3
  DefaultSong = 1
  Seeds = 2
  Draw <- MCDraw
  PlayModes = {"SHUFFLE"}
  LoopModes = {"OFF"}
  Starts = {0}
  Stops = {2}
  UserKeys = FALSE
  SkipMayFail = FALSE
PROPERTY PlaylistFound
CHECK_DEADLOCK FALSE
