\* Everything the user and the options can do in a file of three subsongs; the
\* three seeds give both playlists that keep no subsong in its place.
SPECIFICATION FairMCSpec
CONSTANTS
  Songs = 3
  DefaultSong = 1
  Seeds = 3
  Draw <- MCDraw
  PlayModes = {"LINEAR", "SHUFFLE", "RANDOM"}
  LoopModes = {"OFF", "RANGE", "SINGLE"}
  Starts <- AnySubsong
  Stops <- AnySubsong
  UserKeys = TRUE
  SkipMayFail = TRUE
INVARIANTS
  PlaylistIsPermutation
  PlaylistFollowed
  PlaylistReproducible
  PrevUndoesNext
PROPERTIES
  KeepsPromise
  SearchEnds
  RangeComesRound
CHECK_DEADLOCK FALSE
