------------------------------ MODULE PlayOrder ------------------------------
(***************************************************************************)
(* Which subsong is played after which: the play modes, the loop modes and *)
(* the shuffle playlist of player.c, with the keys that change them.       *)
(*                                                                         *)
(* The end of a subsong is an event of the environment here (SongEnds);    *)
(* module Player says when gbs_step raises it.  Building a playlist is the *)
(* only operation that takes several steps: shuffle_long swaps one pair at *)
(* a time, and setup_play_mode may build any number of playlists before it *)
(* is content with one.                                                    *)
(***************************************************************************)
EXTENDS Integers, FiniteSets

CONSTANTS
  Songs,        \* number of subsongs of the open file (status->songs)
  DefaultSong,  \* index of the file's default subsong (defaultsong - 1)
  Seeds,        \* number of values of random_seed, 2^64 in the code
  Draw,         \* Draw[s][k]: what rand_long(k) returns in shuffle_long when
                \* the generator was seeded with s
  PlayModes,    \* the play modes the player may be started with
  LoopModes,    \* the loop modes the player may be started with
  Starts,       \* values of subsong_start after clipping
  Stops,        \* values of subsong_stop after clipping
  UserKeys,     \* whether the user presses keys
  SkipMayFail   \* whether the plugout's skip function may fail

Song == 0 .. Songs - 1
Seed == 0 .. Seeds - 1

ASSUME SongsAssumption == Songs \in Nat \ {0} /\ DefaultSong \in Song
ASSUME SeedsAssumption == Seeds \in Nat \ {0}
ASSUME DrawAssumption ==
  \A s \in Seed, k \in 1 .. Songs - 1 : Draw[s][k] \in 0 .. k - 1
ASSUME OptionAssumption ==
  /\ PlayModes \subseteq {"LINEAR", "SHUFFLE", "RANDOM"}
  /\ LoopModes \subseteq {"OFF", "RANGE", "SINGLE"}
  /\ Starts \subseteq Song \cup {-1}
  /\ Stops \subseteq Song \cup {-1}
  /\ UserKeys \in BOOLEAN
  /\ SkipMayFail \in BOOLEAN

VARIABLES
  play_mode,             \* cfg.play_mode
  loop_mode,             \* status->loop_mode
  subsong_start,         \* first subsong asked for, -1: none
  subsong_stop,          \* last subsong asked for, -1: none
  subsong,               \* gbs->subsong, -1 before the first gbs_init
  subsong_playlist,      \* the playlist, complete unless pc = "shuffle"
  subsong_playlist_idx,
  random_seed,
  pc,                    \* "setup", "shuffle", "playing", "exit" or "failed"
  k,                     \* loop counter of shuffle_long
  reason                 \* who asked for the playlist under construction

options == <<play_mode, subsong_start, subsong_stop>>
playlist == <<subsong_playlist, subsong_playlist_idx, random_seed, k, reason>>
orderVars == <<options, playlist, loop_mode, subsong, pc>>

-----------------------------------------------------------------------------
Identity == [i \in Song |-> i]

\* play_subsong: the plugout prepares the subsong, or the program gives up
\* (exit(1)); then gbs_init plays it, the default subsong when it is given -1.
PlaySubsong(n) ==
  /\ \/ /\ subsong' = IF n = -1 THEN DefaultSong ELSE n
        /\ pc' = "playing"
     \/ /\ SkipMayFail
        /\ pc' = "failed"
        /\ UNCHANGED subsong
  /\ UNCHANGED <<subsong_playlist, random_seed, k, reason>>

\* Slip: the old playlist is shuffled on.
SetupPlaylist_Continue(who, seed) ==
  /\ random_seed' = seed /\ reason' = who /\ k' = Songs - 1
  /\ pc' = "shuffle" /\ UNCHANGED <<subsong, subsong_playlist>>

\* setup_playlist: the identity, to be shuffled with the generator seeded anew.
SetupPlaylist(who, seed) ==
  /\ random_seed' = seed
  /\ subsong_playlist' = Identity
  /\ k' = Songs - 1
  /\ reason' = who
  /\ pc' = "shuffle"
  /\ UNCHANGED subsong

\* Slip: only the end of the file is an end.
AfterNext_NoStop(next) ==
  \/ loop_mode = "SINGLE" /\ PlaySubsong(subsong)
  \/ loop_mode # "SINGLE" /\ next < Songs /\ PlaySubsong(next)
  \/ loop_mode = "RANGE" /\ next >= Songs /\ PlaySubsong(subsong_start)
  \/ /\ loop_mode = "OFF" /\ next >= Songs /\ pc' = "exit"
     /\ UNCHANGED <<subsong, subsong_playlist, random_seed, k, reason>>

\* Slip: the last subsong is played over and over.
AfterNext_StayAtLast(next) ==
  IF subsong = subsong_stop \/ next >= Songs THEN PlaySubsong(subsong)
                                            ELSE PlaySubsong(next)

\* nextsubsong_cb once get_next_subsong has returned next.  When a range
\* starts over, setup_play_mode builds a playlist but its result is dropped.
AfterNext(next) ==
  LET last == subsong = subsong_stop \/ next >= Songs
  IN  \/ loop_mode = "SINGLE" /\ PlaySubsong(subsong)
      \/ loop_mode # "SINGLE" /\ ~last /\ PlaySubsong(next)
      \/ /\ loop_mode = "OFF" /\ last
         /\ pc' = "exit"
         /\ UNCHANGED <<subsong, subsong_playlist, random_seed, k, reason>>
      \/ /\ loop_mode = "RANGE" /\ last
         /\ IF play_mode = "SHUFFLE"
            THEN SetupPlaylist("restart", random_seed)
            ELSE PlaySubsong(subsong_start)

\* What the caller does with the subsong n it asked for.
Chosen(who, n) ==
  \/ who = "next"  /\ PlaySubsong(n % Songs)
  \/ who = "prev"  /\ PlaySubsong(IF n < 0 THEN n + Songs ELSE n)
  \/ who = "end"   /\ AfterNext(n)
  \/ who = "setup" /\ PlaySubsong(n)

\* Slip: the playlist is read before the index moves on.
GetNextSubsong_ReadFirst(who) ==
  \/ /\ play_mode = "LINEAR" /\ Chosen(who, subsong + 1)
     /\ UNCHANGED subsong_playlist_idx
  \/ /\ play_mode = "SHUFFLE"
     /\ subsong_playlist_idx' = (subsong_playlist_idx + 1) % Songs
     /\ Chosen(who, subsong_playlist[subsong_playlist_idx])

\* get_next_subsong and get_prev_subsong, up to the end of their caller or to
\* the playlist they have to wait for.
GetNextSubsong(who) ==
  \/ /\ play_mode = "LINEAR"
     /\ Chosen(who, subsong + 1)
     /\ UNCHANGED subsong_playlist_idx
  \/ /\ play_mode = "RANDOM"
     /\ \E n \in Song : Chosen(who, n)
     /\ UNCHANGED subsong_playlist_idx
  \/ /\ play_mode = "SHUFFLE"
     /\ subsong_playlist_idx' = subsong_playlist_idx + 1
     /\ IF subsong_playlist_idx' = Songs
        THEN SetupPlaylist(who, (random_seed + 1) % Seeds)
        ELSE Chosen(who, subsong_playlist[subsong_playlist_idx'])

\* Slip: the seed runs forward in both directions.
GetPrevSubsong_SeedForward ==
  /\ play_mode = "SHUFFLE"
  /\ subsong_playlist_idx' = subsong_playlist_idx - 1
  /\ IF subsong_playlist_idx' = -1
     THEN SetupPlaylist("prev", (random_seed + 1) % Seeds)
     ELSE Chosen("prev", subsong_playlist[subsong_playlist_idx'])

GetPrevSubsong ==
  \/ /\ play_mode = "LINEAR"
     /\ Chosen("prev", subsong - 1)
     /\ UNCHANGED subsong_playlist_idx
  \/ /\ play_mode = "RANDOM"
     /\ \E n \in Song : Chosen("prev", n)
     /\ UNCHANGED subsong_playlist_idx
  \/ /\ play_mode = "SHUFFLE"
     /\ subsong_playlist_idx' = subsong_playlist_idx - 1
     /\ IF subsong_playlist_idx' = -1
        THEN SetupPlaylist("prev", (random_seed - 1) % Seeds)
        ELSE Chosen("prev", subsong_playlist[subsong_playlist_idx'])

-----------------------------------------------------------------------------
\* setup_play_mode as common_init calls it, and the first play_subsong.
SetupPlayMode ==
  /\ pc = "setup"
  /\ \/ play_mode = "SHUFFLE" /\ SetupPlaylist("setup", random_seed)
     \/ play_mode = "LINEAR" /\ Chosen("setup", subsong)
     \/ /\ play_mode = "RANDOM"
        /\ IF subsong = -1
           THEN \E n \in Song : Chosen("setup", n)
           ELSE Chosen("setup", subsong)
  /\ UNCHANGED <<options, loop_mode, subsong_playlist_idx>>

\* Slip: a position is copied, not swapped.
ShuffleStep_Copy ==
  /\ pc = "shuffle" /\ k > 0 /\ k' = k - 1
  /\ subsong_playlist' =
       [subsong_playlist EXCEPT ![k] = subsong_playlist[Draw[random_seed][k]]]
  /\ UNCHANGED <<options, loop_mode, subsong, subsong_playlist_idx,
                 random_seed, pc, reason>>

\* One round of the loop in shuffle_long.
ShuffleStep ==
  /\ pc = "shuffle" /\ k > 0
  /\ LET j == Draw[random_seed][k]
     IN  subsong_playlist' = [subsong_playlist EXCEPT
                                ![k] = subsong_playlist[j],
                                ![j] = subsong_playlist[k]]
  /\ k' = k - 1
  /\ UNCHANGED <<options, loop_mode, subsong, subsong_playlist_idx,
                 random_seed, pc, reason>>

\* The playlist get_next_subsong or get_prev_subsong had to build is ready.
NewRound ==
  /\ pc = "shuffle" /\ k = 0
  /\ \/ /\ reason \in {"next", "end"}
        /\ subsong_playlist_idx' = 0
     \/ /\ reason = "prev"
        /\ subsong_playlist_idx' = Songs - 1
  /\ Chosen(reason, subsong_playlist[subsong_playlist_idx'])
  /\ UNCHANGED <<options, loop_mode>>

\* Slip: the same seed is tried again.
ModeReady_SameSeed ==
  /\ pc = "shuffle" /\ k = 0 /\ reason \in {"setup", "restart"}
  /\ subsong_playlist_idx' = 0
  /\ IF subsong \in {-1, subsong_playlist[0]}
     THEN PlaySubsong(subsong_playlist[0])
     ELSE SetupPlaylist(reason, random_seed)
  /\ UNCHANGED <<options, loop_mode>>

\* The playlist setup_play_mode built is ready: unless no subsong was asked
\* for, it has to begin with status->subsong, or the next seed is tried.
ModeReady ==
  /\ pc = "shuffle" /\ k = 0
  /\ reason \in {"setup", "restart"}
  /\ subsong_playlist_idx' = 0
  /\ IF subsong \in {-1, subsong_playlist[0]}
     THEN PlaySubsong(IF reason = "setup" THEN subsong_playlist[0]
                                          ELSE subsong_start)
     ELSE SetupPlaylist(reason, (random_seed + 1) % Seeds)
  /\ UNCHANGED <<options, loop_mode>>

\* gbs_step has decided that the subsong is over and calls nextsubsong_cb.
SongEnds ==
  /\ pc = "playing"
  /\ GetNextSubsong("end")
  /\ UNCHANGED <<options, loop_mode>>

KeyNext ==
  /\ UserKeys /\ pc = "playing"
  /\ GetNextSubsong("next")
  /\ UNCHANGED <<options, loop_mode>>

KeyPrev ==
  /\ UserKeys /\ pc = "playing"
  /\ GetPrevSubsong
  /\ UNCHANGED <<options, loop_mode>>

\* gbs_cycle_loop_mode
KeyLoop ==
  /\ UserKeys /\ pc = "playing"
  /\ loop_mode' = CASE loop_mode = "OFF"    -> "RANGE"
                    [] loop_mode = "RANGE"  -> "SINGLE"
                    [] loop_mode = "SINGLE" -> "OFF"
  /\ UNCHANGED <<options, playlist, subsong, pc>>

KeyQuit ==
  /\ UserKeys /\ pc = "playing"
  /\ pc' = "exit"
  /\ UNCHANGED <<options, playlist, loop_mode, subsong>>

\* common_init up to gbs_set_loop_mode; random_seed is the time and the pid.
OrderInit ==
  /\ play_mode \in PlayModes
  /\ loop_mode \in LoopModes
  /\ subsong_start \in Starts
  /\ subsong_stop \in Stops
  /\ subsong = subsong_start
  /\ subsong_playlist = Identity
  /\ subsong_playlist_idx = 0
  /\ random_seed \in Seed
  /\ pc = "setup"
  /\ k = 0
  /\ reason = "setup"

Internal == SetupPlayMode \/ ShuffleStep \/ NewRound \/ ModeReady
OrderNext == Internal \/ SongEnds \/ KeyNext \/ KeyPrev \/ KeyLoop \/ KeyQuit

OrderSpec == OrderInit /\ [][OrderNext]_orderVars

-----------------------------------------------------------------------------
TypeOK ==
  /\ play_mode \in PlayModes
  /\ loop_mode \in {"OFF", "RANGE", "SINGLE"}
  /\ subsong_start \in Song \cup {-1}
  /\ subsong_stop \in Song \cup {-1}
  /\ subsong \in Song \cup {-1}
  /\ subsong_playlist \in [Song -> Song]
  /\ subsong_playlist_idx \in -1 .. Songs
  /\ random_seed \in Seed
  /\ pc \in {"setup", "shuffle", "playing", "exit", "failed"}
  /\ k \in 0 .. Songs - 1
  /\ reason \in {"setup", "restart", "next", "prev", "end"}

\* Every subsong is in the playlist exactly once, in every state of the
\* shuffle too, and the index points into it whenever a subsong plays
\* (man page, -z: "Every subsong will be played once in random order").
PlaylistIsPermutation ==
  /\ \A i, j \in Song : subsong_playlist[i] = subsong_playlist[j] => i = j
  /\ pc = "playing" => subsong_playlist_idx \in Song

\* After gbs_init the subsong is one of the file, whatever asked for it: a key
\* at either end of the file, the end of a range or an option left out.
SubsongInFile == pc = "playing" => subsong \in Song

\* A playlist depends on its seed alone (player.c, setup_playlist: "playlists
\* shall be reproducible!"), not on the one it replaces.
After(seed) ==
  LET after[n \in Song] ==     \* the list once positions above n are drawn
        IF n = Songs - 1 THEN Identity
        ELSE LET list == after[n + 1]
                 j == Draw[seed][n + 1]
             IN  [list EXCEPT ![n + 1] = list[j], ![j] = list[n + 1]]
  IN  after
ShuffledBy(seed) == After(seed)[0]
PlaylistReproducible ==
  play_mode = "SHUFFLE" /\ pc = "playing" =>
    subsong_playlist = ShuffledBy(random_seed)

\* shuffle_long never draws j = k, so no subsong keeps its place: the first
\* one never comes first.  The search in setup_play_mode for a playlist that
\* begins with subsong 0 can therefore not succeed.
FirstNeverFirst ==
  play_mode = "SHUFFLE" /\ Songs > 1 /\ pc # "setup" /\ k = 0 =>
    subsong_playlist[0] # 0
=============================================================================
