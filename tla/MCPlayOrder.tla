----------------------------- MODULE MCPlayOrder -----------------------------
(***************************************************************************)
(* Instances of PlayOrder for TLC, with history variables: what the        *)
(* playlist was when n was pressed, whether any subsong has played, what   *)
(* has led to the last one, and whether the loop mode has ever been on.    *)
(***************************************************************************)
EXTENDS PlayOrder

VARIABLES
  undo,  \* [idx, seed, keys]: playlist position before n, and the keys since
  begun, \* a subsong has been played
  cause, \* what has led to the subsong that plays, or to the exit
  calm   \* the loop mode has been off all the time

allVars == <<orderVars, undo, begun, cause, calm>>

\* Among enough seeds every draw occurs: for Songs = 4 six seeds give the six
\* cyclic playlists.
MCDraw == [s \in Seed |-> [n \in 1 .. Songs - 1 |-> s % n]]

\* Options left out, or any subsong.
AnySubsong == Song \cup {-1}

Forget == undo' = [idx |-> 0, seed |-> 0, keys |-> ""]

Over == {"exit", "failed"}

Remember ==
  /\ begun' = (begun \/ pc' = "playing")
  /\ calm' = (calm /\ loop_mode' = "OFF")

\* A plugout that cannot prepare a subsong is a reason to quit.
Because(what) ==
  cause' = CASE pc' \in {"playing", "exit"} -> what
             [] pc' = "failed" -> "quit"
             [] OTHER -> cause

MCInit ==
  /\ OrderInit
  /\ undo = [idx |-> 0, seed |-> 0, keys |-> ""]
  /\ begun = FALSE
  /\ cause = "begin"
  /\ calm = (loop_mode = "OFF")

MCNext ==
  /\ \/ /\ KeyNext /\ Because("skip")
        /\ undo' = [idx |-> subsong_playlist_idx, seed |-> random_seed,
                    keys |-> "n"]
     \/ /\ KeyPrev /\ Because("skip")
        /\ IF undo.keys = "n" THEN undo' = [undo EXCEPT !.keys = "np"]
                              ELSE Forget
     \/ SongEnds /\ Because("end") /\ Forget
     \/ KeyLoop /\ Because("mode") /\ UNCHANGED undo
     \/ KeyQuit /\ Because("quit") /\ UNCHANGED undo
     \/ /\ Internal /\ UNCHANGED undo
        /\ Because(CASE reason = "setup" -> "begin"
                     [] reason \in {"next", "prev"} -> "skip"
                     [] reason \in {"end", "restart"} -> "end")
  /\ Remember

MCSpec == MCInit /\ [][MCNext]_allVars

\* The program is one thread: whatever it has begun it goes on with.  A subsong that
\* is played again changes nothing, and fairness must not make the plugout fail for
\* that.
FairMCSpec == MCSpec /\ WF_allVars(Internal /\ MCNext)
                     /\ WF_allVars(SongEnds /\ MCNext /\ pc' # "failed")

Promise == INSTANCE LoopModes WITH
  order <- play_mode, mode <- loop_mode,
  first <- subsong_start, last <- subsong_stop,
  song <- IF begun THEN subsong ELSE -1, over <- (pc \in Over),
  cause <- cause

\* Where the code does not do what the man page says at the end of the last
\* subsong: without a START-AT-SUBSONG a range starts over at the default
\* subsong, the page's first one only if that is subsong 0; and in shuffle and
\* random order without a STOP-AFTER-SUBSONG no subsong is the last.
Departs ==
  /\ begun /\ pc' = "playing" /\ cause' = "end"
  /\ Promise!IsLast(subsong) /\ loop_mode # "SINGLE"
  /\ UNCHANGED <<options, loop_mode>>
  /\ \/ loop_mode = "RANGE" /\ subsong_start = -1 /\ subsong' = DefaultSong
     \/ play_mode # "LINEAR" /\ subsong_stop = -1

\* Except for these two cases, the playlists, seeds and searches of player.c only
\* ever do what the man page's LOOP MODES section allows.
KeepsPromise ==
  Promise!Init /\ [][Promise!Next \/ Departs]_(Promise!vars)

\* In shuffle mode p takes n back, across the end of a playlist too: the seed
\* and the index are what they were and the subsong is the one found there
\* (player.c, setup_play_mode: "this must be reproducible by setting
\* random_seed to the old value").
PrevUndoesNext ==
  play_mode = "SHUFFLE" /\ pc = "playing" /\ undo.keys = "np" =>
    /\ subsong_playlist_idx = undo.idx
    /\ random_seed = undo.seed
    /\ subsong = subsong_playlist[undo.idx]

\* While the loop mode stays off, the playlist and the subsong agree: the one
\* that plays is the one the index points at, so a round of the playlist plays
\* every subsong once (man page, -z).
PlaylistFollowed ==
  play_mode = "SHUFFLE" /\ pc = "playing" /\ calm =>
    subsong = subsong_playlist[subsong_playlist_idx]

\* From some time on no key is pressed.
Undisturbed == <>[][SongEnds \/ Internal]_orderVars

\* LOOP MODES, range: "the next subsong will start to play", over and over:
\* wherever the keys have left the player, every subsong between the first and
\* the last comes round again and again.
RangeComesRound ==
  Undisturbed
  /\ <>[](play_mode = "LINEAR" /\ loop_mode = "RANGE" /\ pc \notin Over) =>
    \A s \in Song :
      LET from == IF subsong_start = -1 THEN DefaultSong ELSE subsong_start
          to == IF subsong_stop \in from .. Songs - 1
                THEN subsong_stop ELSE Songs - 1
      IN  s \in from .. to => []<>(pc = "playing" /\ subsong = s)

\* A playlist that is asked for is eventually found and a subsong played
\* (player.c:237, setup_play_mode).
PlaylistFound == pc \in {"setup", "shuffle"} ~> pc \in {"playing", "failed"}

\* Every search ends that is not for a playlist beginning with subsong 0.
SearchEnds ==
  pc \in {"setup", "shuffle"} /\ subsong # 0 ~> pc \in {"playing"} \cup Over
=============================================================================
