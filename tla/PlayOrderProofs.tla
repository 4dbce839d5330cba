--------------------------- MODULE PlayOrderProofs ---------------------------
(***************************************************************************)
(* Proofs about PlayOrder, for files of any number of subsongs, any number *)
(* of seeds and any generator that keeps to rand_long's contract.          *)
(***************************************************************************)
EXTENDS MCPlayOrder, Recursion

\* Who waits for a playlist has a subsong, except at the very beginning, when
\* the playlist and the index are still the first ones.
SubsongKnown ==
  /\ pc = "playing" \/ (pc = "shuffle" /\ reason # "setup") => subsong \in Song
  /\ pc = "setup" => subsong_playlist_idx = 0

\* What shuffle_long has not reached yet is in its place, or came from the
\* part that is already drawn; so the last swap always moves subsong 0 away.
DrawnApart ==
  play_mode = "SHUFFLE" /\ pc # "setup" =>
    \A p \in 0 .. k : subsong_playlist[p] = p \/ subsong_playlist[p] > k

Inv ==
  /\ TypeOK
  /\ PlaylistIsPermutation
  /\ SubsongKnown
  /\ DrawnApart
  /\ FirstNeverFirst

\* What every action leaves alone or keeps within its type.
Frame ==
  /\ UNCHANGED options
  /\ loop_mode' \in {"OFF", "RANGE", "SINGLE"}

-----------------------------------------------------------------------------
LEMMA ModSong == ASSUME NEW n \in Int PROVE n % Songs \in Song
BY SongsAssumption DEF Song

LEMMA ModSeed == ASSUME NEW n \in Int PROVE n % Seeds \in Seed
BY SeedsAssumption DEF Seed

\* Playing a subsong keeps the invariant if the index is in the playlist.
LEMMA PlaySubsongKeeps ==
  ASSUME Inv, Frame, NEW n \in Song \cup {-1}, PlaySubsong(n),
         subsong_playlist_idx' \in Song,
         pc # "setup" \/ play_mode # "SHUFFLE"
  PROVE  Inv'
<1> USE SongsAssumption DEF Inv, Frame, PlaySubsong, options
<1>1. TypeOK'
  <2>1. subsong' \in Song \cup {-1}
    <3>1. CASE subsong' = IF n = -1 THEN DefaultSong ELSE n
      BY <3>1
    <3>2. CASE UNCHANGED subsong
      BY <3>2 DEF TypeOK
    <3> QED  BY <3>1, <3>2
  <2>4. subsong_playlist_idx' \in -1 .. Songs
    BY DEF Song
  <2>2. UNCHANGED <<subsong_playlist, random_seed, k, reason>>
    OBVIOUS
  <2>3. pc' \in {"playing", "failed"}
    OBVIOUS
  <2> QED  BY <2>1, <2>2, <2>3, <2>4, Zenon DEF TypeOK
<1>2. PlaylistIsPermutation'
  BY DEF PlaylistIsPermutation
<1>3. SubsongKnown'
  BY DEF SubsongKnown
<1>4. DrawnApart' /\ FirstNeverFirst'
  BY DEF DrawnApart, FirstNeverFirst
<1> QED  BY <1>1, <1>2, <1>3, <1>4

\* A playlist under construction starts as the identity.
LEMMA SetupPlaylistKeeps ==
  ASSUME Inv, Frame, NEW who \in {"setup", "restart", "next", "prev", "end"},
         NEW seed \in Seed, SetupPlaylist(who, seed),
         subsong_playlist_idx' \in -1 .. Songs,
         who = "setup" \/ subsong \in Song
  PROVE  Inv'
<1> USE SongsAssumption DEF Inv, Frame, SetupPlaylist, options, Identity
<1>1. TypeOK'
  BY DEF TypeOK, Song
<1>2. PlaylistIsPermutation'
  BY DEF PlaylistIsPermutation
<1>3. SubsongKnown'
  BY DEF SubsongKnown
<1>4. DrawnApart'
  BY DEF DrawnApart, Song
<1>5. FirstNeverFirst'
  BY DEF FirstNeverFirst
<1> QED  BY <1>1, <1>2, <1>3, <1>4, <1>5

\* The caller gets the subsong it asked for and does the rest.
LEMMA ChosenKeeps ==
  ASSUME Inv, Frame, NEW n \in -1 .. Songs,
         NEW who \in {"setup", "next", "prev", "end"}, Chosen(who, n),
         who = "setup" => n # Songs,
         who = "prev" => n # Songs,
         who = "end" => n # -1 /\ subsong \in Song,
         subsong_playlist_idx' \in Song,
         pc # "setup" \/ play_mode # "SHUFFLE"
  PROVE  Inv'
<1> USE SongsAssumption
<1>1. CASE who = "next" /\ PlaySubsong(n % Songs)
  BY <1>1, ModSong, PlaySubsongKeeps
<1>2. CASE who = "prev" /\ PlaySubsong(IF n < 0 THEN n + Songs ELSE n)
  <2>1. (IF n < 0 THEN n + Songs ELSE n) \in Song
    BY <1>2 DEF Song
  <2> QED  BY <1>2, <2>1, PlaySubsongKeeps
<1>3. CASE who = "setup" /\ PlaySubsong(n)
  <2>1. n \in Song \cup {-1}
    BY <1>3 DEF Song
  <2> QED  BY <1>3, <2>1, PlaySubsongKeeps
<1>4. CASE who = "end" /\ AfterNext(n)
  <2>1. CASE PlaySubsong(subsong)
    BY <1>4, <2>1, PlaySubsongKeeps
  <2>2. CASE n < Songs /\ PlaySubsong(n)
    <3>1. n \in Song
      BY <1>4, <2>2 DEF Song
    <3> QED  BY <2>2, <3>1, PlaySubsongKeeps
  <2>3. CASE /\ pc' = "exit"
             /\ UNCHANGED <<subsong, subsong_playlist, random_seed, k, reason>>
    <3>1. TypeOK /\ PlaylistIsPermutation /\ SubsongKnown /\ DrawnApart /\ FirstNeverFirst
      BY DEF Inv
    <3>2. UNCHANGED options /\ loop_mode' \in {"OFF", "RANGE", "SINGLE"}
      BY DEF Frame
    <3>3. subsong_playlist_idx' \in -1 .. Songs
      BY DEF Song
    <3>4. TypeOK'
      BY <2>3, <3>1, <3>2, <3>3 DEF TypeOK, options
    <3>5. PlaylistIsPermutation' /\ SubsongKnown'
      BY <2>3, <3>1, <3>2 DEF PlaylistIsPermutation, SubsongKnown, options
    <3>6. DrawnApart' /\ FirstNeverFirst'
      BY <2>3, <3>1, <3>2 DEF DrawnApart, FirstNeverFirst, options
    <3> QED  BY <3>4, <3>5, <3>6 DEF Inv
  <2>4. CASE SetupPlaylist("restart", random_seed)
    <3>1. random_seed \in Seed /\ subsong_playlist_idx' \in -1 .. Songs
      BY DEF Inv, TypeOK, Song
    <3> QED  BY <1>4, <2>4, <3>1, SetupPlaylistKeeps
  <2>5. CASE PlaySubsong(subsong_start)
    <3>1. subsong_start \in Song \cup {-1}
      BY DEF Inv, TypeOK
    <3> QED  BY <2>5, <3>1, PlaySubsongKeeps
  <2> QED  BY <1>4, <2>1, <2>2, <2>3, <2>4, <2>5 DEF AfterNext
<1> QED  BY <1>1, <1>2, <1>3, <1>4 DEF Chosen

-----------------------------------------------------------------------------
\* Each action keeps the invariant.
LEMMA GetNextKeeps ==
  ASSUME Inv, Frame, pc = "playing", NEW who \in {"next", "end"},
         GetNextSubsong(who)
  PROVE  Inv'
<1> USE SongsAssumption
<1>1. subsong \in Song /\ subsong_playlist_idx \in Song
  BY DEF Inv, SubsongKnown, PlaylistIsPermutation
<1>2. CASE Chosen(who, subsong + 1) /\ UNCHANGED subsong_playlist_idx
  <2>1. subsong + 1 \in -1 .. Songs /\ subsong + 1 # -1
    BY <1>1 DEF Song
  <2> QED  BY <1>1, <1>2, <2>1, ChosenKeeps
<1>3. ASSUME NEW n \in Song, Chosen(who, n), UNCHANGED subsong_playlist_idx
      PROVE  Inv'
  <2>1. n \in -1 .. Songs /\ n # -1
    BY DEF Song
  <2> QED  BY <1>1, <1>3, <2>1, ChosenKeeps
<1>4. CASE /\ subsong_playlist_idx' = subsong_playlist_idx + 1
           /\ subsong_playlist_idx' = Songs
           /\ SetupPlaylist(who, (random_seed + 1) % Seeds)
  <2>1. (random_seed + 1) % Seeds \in Seed
    <3>1. random_seed \in Int
      BY SeedsAssumption DEF Inv, TypeOK, Seed
    <3> QED  BY <3>1, ModSeed
  <2> QED  BY <1>1, <1>4, <2>1, SetupPlaylistKeeps
<1>5. CASE /\ subsong_playlist_idx' = subsong_playlist_idx + 1
           /\ subsong_playlist_idx' # Songs
           /\ Chosen(who, subsong_playlist[subsong_playlist_idx'])
  <2>1. subsong_playlist_idx' \in Song
    BY <1>1, <1>5 DEF Song
  <2>2. subsong_playlist[subsong_playlist_idx'] \in Song
    BY <2>1 DEF Inv, TypeOK
  <2>3. subsong_playlist[subsong_playlist_idx'] \in -1 .. Songs
        /\ subsong_playlist[subsong_playlist_idx'] # -1
    BY <2>2 DEF Song
  <2> QED  BY <1>1, <1>5, <2>1, <2>3, ChosenKeeps
<1> QED  BY <1>2, <1>3, <1>4, <1>5 DEF GetNextSubsong

LEMMA GetPrevKeeps ==
  ASSUME Inv, Frame, pc = "playing", GetPrevSubsong
  PROVE  Inv'
<1> USE SongsAssumption
<1>1. subsong \in Song /\ subsong_playlist_idx \in Song
  BY DEF Inv, SubsongKnown, PlaylistIsPermutation
<1>2. CASE Chosen("prev", subsong - 1) /\ UNCHANGED subsong_playlist_idx
  <2>1. subsong - 1 \in -1 .. Songs /\ subsong - 1 # Songs
    BY <1>1 DEF Song
  <2> QED  BY <1>1, <1>2, <2>1, ChosenKeeps
<1>3. ASSUME NEW n \in Song, Chosen("prev", n), UNCHANGED subsong_playlist_idx
      PROVE  Inv'
  <2>1. n \in -1 .. Songs /\ n # Songs
    BY DEF Song
  <2> QED  BY <1>1, <1>3, <2>1, ChosenKeeps
<1>4. CASE /\ subsong_playlist_idx' = subsong_playlist_idx - 1
           /\ subsong_playlist_idx' = -1
           /\ SetupPlaylist("prev", (random_seed - 1) % Seeds)
  <2>1. (random_seed - 1) % Seeds \in Seed
    <3>1. random_seed \in Int
      BY SeedsAssumption DEF Inv, TypeOK, Seed
    <3> QED  BY <3>1, ModSeed
  <2> QED  BY <1>1, <1>4, <2>1, SetupPlaylistKeeps
<1>5. CASE /\ subsong_playlist_idx' = subsong_playlist_idx - 1
           /\ subsong_playlist_idx' # -1
           /\ Chosen("prev", subsong_playlist[subsong_playlist_idx'])
  <2>1. subsong_playlist_idx' \in Song
    BY <1>1, <1>5 DEF Song
  <2>2. subsong_playlist[subsong_playlist_idx'] \in Song
    BY <2>1 DEF Inv, TypeOK
  <2>3. subsong_playlist[subsong_playlist_idx'] \in -1 .. Songs
        /\ subsong_playlist[subsong_playlist_idx'] # Songs
    BY <2>2 DEF Song
  <2> QED  BY <1>1, <1>5, <2>1, <2>3, ChosenKeeps
<1> QED  BY <1>2, <1>3, <1>4, <1>5 DEF GetPrevSubsong

LEMMA SetupPlayModeKeeps ==
  ASSUME Inv, SetupPlayMode
  PROVE  Inv'
<1> USE SongsAssumption
<1>1. Frame /\ pc = "setup" /\ subsong_playlist_idx' = 0
  BY DEF SetupPlayMode, Frame, Inv, TypeOK, SubsongKnown
<1>2. random_seed \in Seed /\ subsong \in Song \cup {-1}
      /\ subsong_playlist_idx' \in Song /\ subsong_playlist_idx' \in -1 .. Songs
  BY <1>1 DEF Inv, TypeOK, Song
<1>3. CASE SetupPlaylist("setup", random_seed)
  BY <1>1, <1>2, <1>3, SetupPlaylistKeeps
<1>4. ASSUME play_mode # "SHUFFLE",
             NEW n \in Song \cup {-1}, Chosen("setup", n)
      PROVE  Inv'
  <2>1. PlaySubsong(n)
    BY <1>4 DEF Chosen
  <2> QED  BY <1>1, <1>2, <1>4, <2>1, PlaySubsongKeeps
<1>5. CASE play_mode = "LINEAR" /\ Chosen("setup", subsong)
  BY <1>2, <1>4, <1>5
<1>6. CASE play_mode = "RANDOM"
  <2>1. CASE subsong = -1
    <3>1. PICK n \in Song : Chosen("setup", n)
      BY <1>6, <2>1 DEF SetupPlayMode
    <3> QED  BY <1>4, <1>6, <3>1
  <2>2. CASE subsong # -1
    BY <1>2, <1>4, <1>6, <2>2 DEF SetupPlayMode
  <2> QED  BY <2>1, <2>2
<1> QED  BY <1>3, <1>5, <1>6 DEF SetupPlayMode

\* One swap of shuffle_long: the list stays a permutation, and below the new
\* bound every subsong is in its place or came from at or above the old one.
LEMMA ShuffleStepKeeps ==
  ASSUME Inv, ShuffleStep
  PROVE  Inv'
<1> USE SongsAssumption
<1> DEFINE j == Draw[random_seed][k]
<1>1. k \in 1 .. Songs - 1 /\ k \in Song /\ random_seed \in Seed
  BY DEF Inv, TypeOK, ShuffleStep, Song
<1>2. j \in 0 .. k - 1
  BY <1>1, DrawAssumption
<1>3. j \in Song /\ j < k
  BY <1>1, <1>2 DEF Song
<1>4. subsong_playlist \in [Song -> Song] /\ k' = k - 1
      /\ subsong_playlist' = [subsong_playlist EXCEPT
                                ![k] = subsong_playlist[j],
                                ![j] = subsong_playlist[k]]
  BY DEF Inv, TypeOK, ShuffleStep
<1> HIDE DEF j
<1>5. subsong_playlist' \in [Song -> Song]
  BY <1>1, <1>3, <1>4
<1>6. \A p \in Song : subsong_playlist'[p] =
        IF p = k THEN subsong_playlist[j]
        ELSE IF p = j THEN subsong_playlist[k] ELSE subsong_playlist[p]
  BY <1>1, <1>3, <1>4
<1>7. TypeOK'
  <2>1. k' \in 0 .. Songs - 1
    BY <1>1, <1>4
  <2> QED  BY <1>5, <2>1 DEF TypeOK, Inv, ShuffleStep, options
<1>8. PlaylistIsPermutation'
  <2>1. \A p, q \in Song : subsong_playlist[p] = subsong_playlist[q] => p = q
    BY DEF Inv, PlaylistIsPermutation
  <2>2. \A p, q \in Song : subsong_playlist'[p] = subsong_playlist'[q] => p = q
    BY <1>1, <1>3, <1>6, <2>1
  <2>3. pc' = "shuffle"
    BY DEF ShuffleStep
  <2> QED  BY <2>2, <2>3 DEF PlaylistIsPermutation
<1>9. SubsongKnown'
  BY DEF Inv, SubsongKnown, ShuffleStep
<1>10. ASSUME play_mode = "SHUFFLE"
       PROVE  /\ \A p \in 0 .. k - 1 : \/ subsong_playlist'[p] = p
                                       \/ subsong_playlist'[p] > k - 1
              /\ k = 1 => subsong_playlist'[0] # 0
  <2>1. \A p \in 0 .. k : subsong_playlist[p] = p \/ subsong_playlist[p] > k
    BY <1>10 DEF Inv, DrawnApart, ShuffleStep
  <2>2. subsong_playlist[k] >= k
    <3>1. k \in 0 .. k /\ k \in Int
      BY <1>1
    <3>2. subsong_playlist[k] = k \/ subsong_playlist[k] > k
      BY <2>1, <3>1
    <3>3. subsong_playlist[k] \in Int
      BY <1>1, <1>4 DEF Song
    <3> QED  BY <3>1, <3>2, <3>3
  <2>3. \A p \in 0 .. k - 1 : subsong_playlist'[p] =
           IF p = j THEN subsong_playlist[k] ELSE subsong_playlist[p]
    BY <1>1, <1>6 DEF Song
  <2>4. \A p \in 0 .. k - 1 : p \in Song /\ subsong_playlist[p] \in Int
    BY <1>1, <1>4 DEF Song
  <2>5. subsong_playlist[k] \in Int
    BY <1>1, <1>4 DEF Song
  <2>6. k = 1 => j = 0
    BY <1>1, <1>3 DEF Song
  <2> QED  BY <1>1, <2>1, <2>2, <2>3, <2>4, <2>5, <2>6
<1>11. play_mode' = play_mode
  BY DEF ShuffleStep, options
<1>12. DrawnApart'
  BY <1>4, <1>10, <1>11 DEF DrawnApart
<1>13. FirstNeverFirst'
  BY <1>1, <1>4, <1>10, <1>11 DEF FirstNeverFirst
<1> QED  BY <1>7, <1>8, <1>9, <1>12, <1>13 DEF Inv

LEMMA NewRoundKeeps ==
  ASSUME Inv, NewRound
  PROVE  Inv'
<1> USE SongsAssumption
<1>1. Frame /\ pc = "shuffle" /\ reason \in {"next", "prev", "end"}
      /\ Chosen(reason, subsong_playlist[subsong_playlist_idx'])
  BY DEF NewRound, Frame, Inv, TypeOK
<1>2. subsong_playlist_idx' \in Song /\ subsong \in Song
  BY DEF NewRound, Song, Inv, SubsongKnown
<1>3. subsong_playlist[subsong_playlist_idx'] \in Song
  BY <1>2 DEF Inv, TypeOK
<1>4. subsong_playlist[subsong_playlist_idx'] \in 0 .. Songs - 1
  BY <1>3 DEF Song
<1>5. subsong_playlist[subsong_playlist_idx'] \in -1 .. Songs
  BY <1>4
<1> QED  BY <1>1, <1>2, <1>4, <1>5, ChosenKeeps

LEMMA ModeReadyKeeps ==
  ASSUME Inv, ModeReady
  PROVE  Inv'
<1> USE SongsAssumption
<1>1. Frame /\ pc = "shuffle" /\ reason \in {"setup", "restart"}
  BY DEF ModeReady, Frame, Inv, TypeOK
<1>2. subsong_playlist_idx' \in Song /\ subsong_playlist_idx' \in -1 .. Songs
  BY DEF ModeReady, Song
<1>3. reason = "setup" \/ subsong \in Song
  BY <1>1 DEF Inv, SubsongKnown
<1>4. CASE PlaySubsong(IF reason = "setup" THEN subsong_playlist[0]
                                           ELSE subsong_start)
  <2>1. subsong_playlist[0] \in Song /\ subsong_start \in Song \cup {-1}
    BY DEF Inv, TypeOK, Song
  <2> QED  BY <1>1, <1>2, <1>4, <2>1, PlaySubsongKeeps
<1>5. CASE SetupPlaylist(reason, (random_seed + 1) % Seeds)
  <2>1. (random_seed + 1) % Seeds \in Seed
    <3>1. random_seed \in Int
      BY SeedsAssumption DEF Inv, TypeOK, Seed
    <3> QED  BY <3>1, ModSeed
  <2> QED  BY <1>1, <1>2, <1>3, <1>5, <2>1, SetupPlaylistKeeps
<1> QED  BY <1>4, <1>5 DEF ModeReady

LEMMA KeyLoopKeeps ==
  ASSUME Inv, KeyLoop
  PROVE  Inv'
<1>1. loop_mode' \in {"OFF", "RANGE", "SINGLE"}
  BY DEF KeyLoop, Inv, TypeOK
<1>2. UNCHANGED <<options, playlist, subsong, pc>>
  BY DEF KeyLoop
<1> QED
  BY <1>1, <1>2 DEF options, playlist, Inv, TypeOK, PlaylistIsPermutation,
                    SubsongKnown, DrawnApart, FirstNeverFirst

LEMMA KeyQuitKeeps ==
  ASSUME Inv, KeyQuit
  PROVE  Inv'
BY DEF KeyQuit, options, playlist, Inv, TypeOK, PlaylistIsPermutation,
       SubsongKnown, DrawnApart, FirstNeverFirst

-----------------------------------------------------------------------------
LEMMA InitInv == OrderInit => Inv
<1> SUFFICES ASSUME OrderInit PROVE Inv
  OBVIOUS
<1> USE SongsAssumption, SeedsAssumption, OptionAssumption DEF OrderInit, Identity
<1>1. TypeOK
  BY DEF TypeOK, Song
<1>2. PlaylistIsPermutation /\ SubsongKnown
  BY DEF PlaylistIsPermutation, SubsongKnown
<1>3. DrawnApart /\ FirstNeverFirst
  BY DEF DrawnApart, FirstNeverFirst
<1> QED  BY <1>1, <1>2, <1>3 DEF Inv

LEMMA NextInv == Inv /\ [OrderNext]_orderVars => Inv'
<1> SUFFICES ASSUME Inv, [OrderNext]_orderVars PROVE Inv'
  OBVIOUS
<1>1. CASE SetupPlayMode
  BY <1>1, SetupPlayModeKeeps
<1>2. CASE ShuffleStep
  BY <1>2, ShuffleStepKeeps
<1>3. CASE NewRound
  BY <1>3, NewRoundKeeps
<1>4. CASE ModeReady
  BY <1>4, ModeReadyKeeps
<1>5. CASE SongEnds
  <2>1. Frame
    BY <1>5 DEF SongEnds, Frame, Inv, TypeOK
  <2> QED  BY <1>5, <2>1, GetNextKeeps DEF SongEnds
<1>6. CASE KeyNext
  <2>1. Frame
    BY <1>6 DEF KeyNext, Frame, Inv, TypeOK
  <2> QED  BY <1>6, <2>1, GetNextKeeps DEF KeyNext
<1>7. CASE KeyPrev
  <2>1. Frame
    BY <1>7 DEF KeyPrev, Frame, Inv, TypeOK
  <2> QED  BY <1>7, <2>1, GetPrevKeeps DEF KeyPrev
<1>8. CASE KeyLoop
  BY <1>8, KeyLoopKeeps
<1>9. CASE KeyQuit
  BY <1>9, KeyQuitKeeps
<1>10. CASE UNCHANGED orderVars
  BY <1>10 DEF orderVars, options, playlist, Inv, TypeOK, SubsongKnown,
               PlaylistIsPermutation, DrawnApart, FirstNeverFirst
<1> QED
  BY <1>1, <1>2, <1>3, <1>4, <1>5, <1>6, <1>7, <1>8, <1>9, <1>10
  DEF OrderNext, Internal

\* Every reachable state of the play order is well typed, has a playlist that
\* is a permutation of the file's subsongs, plays a subsong of the file, and
\* in shuffle mode never puts subsong 0 first.
THEOREM OrderInvariant == OrderSpec => []Inv
BY InitInv, NextInv, PTL DEF OrderSpec

\* get_next_subsong, get_prev_subsong and gbs_init stay within the types.
THEOREM TypeCorrect == OrderSpec => []TypeOK
BY OrderInvariant, PTL DEF Inv

\* -z: every subsong is in the playlist exactly once, at any file size.
THEOREM PlaylistPermutation == OrderSpec => []PlaylistIsPermutation
BY OrderInvariant, PTL DEF Inv

\* No key, loop mode or end of a range makes the player leave the file.
THEOREM SubsongAlwaysInFile == OrderSpec => []SubsongInFile
<1>1. Inv => SubsongInFile
  BY DEF Inv, SubsongKnown, SubsongInFile
<1> QED  BY <1>1, OrderInvariant, PTL

\* However many seeds there are, none gives a playlist that begins with
\* subsong 0: with two subsongs or more, setup_play_mode cannot find one.
THEOREM FirstIsNeverFirst == OrderSpec => []FirstNeverFirst
BY OrderInvariant, PTL DEF Inv

\* setup_play_mode looks for a playlist that begins with subsong 0.
SearchesFirst ==
  /\ play_mode = "SHUFFLE" /\ subsong = 0
  /\ pc = "setup" \/ (pc = "shuffle" /\ reason \in {"setup", "restart"})

LEMMA SearchGoesOn ==
  Songs > 1 /\ Inv /\ SearchesFirst /\ [OrderNext]_orderVars => SearchesFirst'
<1> SUFFICES ASSUME Songs > 1, Inv, SearchesFirst, [OrderNext]_orderVars
             PROVE  SearchesFirst'
  OBVIOUS
<1>1. CASE UNCHANGED orderVars
  BY <1>1 DEF orderVars, options, playlist, SearchesFirst
<1>2. CASE SetupPlayMode
  BY <1>2 DEF SetupPlayMode, SetupPlaylist, SearchesFirst, options
<1>3. CASE ShuffleStep
  BY <1>3 DEF ShuffleStep, SearchesFirst, options
<1>4. CASE ModeReady
  <2>1. subsong_playlist[0] # 0
    BY <1>4 DEF Inv, FirstNeverFirst, ModeReady, SearchesFirst
  <2> QED  BY <1>4, <2>1 DEF ModeReady, SetupPlaylist, SearchesFirst, options
<1>5. ~NewRound /\ pc # "playing"
  BY DEF NewRound, SearchesFirst
<1> QED
  BY <1>1, <1>2, <1>3, <1>4, <1>5
  DEF OrderNext, Internal, SongEnds, KeyNext, KeyPrev, KeyLoop, KeyQuit

\* Nor does any sequence of seeds: once setup_play_mode searches for a playlist
\* that begins with subsong 0, in a file of two subsongs or more, it searches for
\* ever, whether the program starts or a range that ends with subsong 0 restarts.
THEOREM SearchForFirstNeverEnds ==
  ASSUME Songs > 1
  PROVE  OrderSpec => [](SearchesFirst => []SearchesFirst)
<1>1. Inv /\ SearchesFirst /\ [OrderNext]_orderVars => SearchesFirst'
  BY SearchGoesOn
<1> QED  BY <1>1, OrderInvariant, PTL DEF OrderSpec

\* So gbsplay -z FILE 1 never comes to play anything.
THEOREM StartAtFirstNeverPlays ==
  ASSUME Songs > 1
  PROVE  OrderSpec /\ play_mode = "SHUFFLE" /\ subsong_start = 0 => [](pc # "playing")
<1>1. OrderInit /\ play_mode = "SHUFFLE" /\ subsong_start = 0 => SearchesFirst
  BY DEF OrderInit, SearchesFirst
<1>2. Inv /\ SearchesFirst /\ [OrderNext]_orderVars => SearchesFirst'
  BY SearchGoesOn
<1>3. SearchesFirst => pc # "playing"
  BY DEF SearchesFirst
<1> QED  BY <1>1, <1>2, <1>3, OrderInvariant, PTL DEF OrderSpec
-----------------------------------------------------------------------------
\* The list after each round of shuffle_long: the recursive function After(seed)
\* is one, and its value changes as a round of the loop changes the playlist.
Swapped(list, i, j) == [list EXCEPT ![i] = list[j], ![j] = list[i]]

LEMMA SwappedType ==
  ASSUME NEW list \in [Song -> Song], NEW i \in Song, NEW j \in Song
  PROVE  Swapped(list, i, j) \in [Song -> Song]
BY DEF Swapped

LEMMA AfterExists ==
  ASSUME NEW seed \in Seed
  PROVE  \E f : f = [n \in Song |->
                       IF n = Songs - 1 THEN Identity
                       ELSE Swapped(f[n + 1], n + 1, Draw[seed][n + 1])]
<1> USE SongsAssumption
<1> DEFINE Lists == [Song -> Song]
           place(n) == Songs - 1 - n
           step == [x \in Nat \X Lists |->
                      IF x[1] < Songs - 1
                      THEN Swapped(x[2], place(x[1]), Draw[seed][place(x[1])])
                      ELSE x[2]]
<1>1. Identity \in Lists
  BY DEF Identity
<1>2. step \in [Nat \X Lists -> Lists]
  <2> SUFFICES ASSUME NEW n \in Nat, NEW list \in Lists, n < Songs - 1
               PROVE  Swapped(list, place(n), Draw[seed][place(n)]) \in Lists
    OBVIOUS
  <2>1. place(n) \in 1 .. Songs - 1 /\ place(n) \in Song
    BY DEF Song
  <2>2. Draw[seed][place(n)] \in 0 .. place(n) - 1
    <3> HIDE DEF place
    <3> QED  BY <2>1, DrawAssumption
  <2>3. Draw[seed][place(n)] \in Song
    <3> DEFINE d == Draw[seed][place(n)]
    <3>1. d \in 0 .. place(n) - 1
      BY <2>2
    <3> HIDE DEF d
    <3>2. d \in Song
      BY <2>1, <3>1 DEF Song
    <3> QED  BY <3>2 DEF d
  <2> QED  BY <2>1, <2>3, SwappedType
<1>3. PICK g : Recurs(g, Lists, Identity, step)
  <2> HIDE DEF step, Lists
  <2> QED  BY <1>1, <1>2, PrimitiveRecursion
<1> DEFINE f == [n \in Song |-> g[place(n)]]
<1>4. ASSUME NEW n \in Song, n # Songs - 1
      PROVE  f[n] = Swapped(f[n + 1], n + 1, Draw[seed][n + 1])
  <2> DEFINE m == Songs - 2 - n
  <2>1. /\ m \in Nat /\ place(n) = m + 1 /\ m < Songs - 1 /\ place(m) = n + 1
        /\ n + 1 \in Song /\ place(n + 1) = m
    BY <1>4 DEF Song
  <2>2. g[m] \in Lists
    BY <1>3, <2>1 DEF Recurs
  <2>3. step[<<m, g[m]>>] = Swapped(g[m], n + 1, Draw[seed][n + 1])
    BY <2>1, <2>2
  <2>4. f[n] = g[m + 1] /\ f[n + 1] = g[m]
    BY <2>1
  <2>5. g[m + 1] = step[<<m, g[m]>>]
    <3> HIDE DEF step, m
    <3> QED  BY <1>3, <2>1 DEF Recurs
  <2> HIDE DEF f, step
  <2> QED  BY <2>3, <2>4, <2>5
<1>5. f[Songs - 1] = Identity
  BY <1>3 DEF Recurs, Song
<1>6. f = [n \in Song |->
             IF n = Songs - 1 THEN Identity
             ELSE Swapped(f[n + 1], n + 1, Draw[seed][n + 1])]
  BY <1>4, <1>5
<1> QED  BY <1>6

LEMMA AfterEquation ==
  ASSUME NEW seed \in Seed
  PROVE  /\ After(seed)[Songs - 1] = Identity
         /\ \A n \in 1 .. Songs - 1 :
              After(seed)[n - 1] = Swapped(After(seed)[n], n, Draw[seed][n])
<1>1. After(seed) = CHOOSE f : f = [n \in Song |->
                       IF n = Songs - 1 THEN Identity
                       ELSE Swapped(f[n + 1], n + 1, Draw[seed][n + 1])]
  BY DEF After, Swapped
<1>2. After(seed) = [n \in Song |->
                       IF n = Songs - 1 THEN Identity
                       ELSE Swapped(After(seed)[n + 1], n + 1, Draw[seed][n + 1])]
  BY <1>1, AfterExists
<1> HIDE DEF After
<1>3. \A n \in 1 .. Songs - 1 :
        n - 1 \in Song /\ n - 1 # Songs - 1 /\ n - 1 + 1 = n
  BY SongsAssumption DEF Song
<1> QED  BY <1>2, <1>3, SongsAssumption DEF Song

\* What a step does to a playlist: it begins one, draws one position of it, or
\* leaves it as it is, complete once a subsong plays.
LEMMA PlaylistSteps ==
  ASSUME Inv, OrderNext, play_mode = "SHUFFLE"
  PROVE  \/ \E seed \in Seed : /\ random_seed' = seed /\ pc' = "shuffle"
                               /\ subsong_playlist' = Identity /\ k' = Songs - 1
         \/ ShuffleStep
         \/ /\ UNCHANGED <<subsong_playlist, random_seed, k>>
            /\ pc' \in {"playing", "exit", "failed"}
            /\ pc = "playing" \/ (pc = "shuffle" /\ k = 0)
<1> DEFINE Done == /\ UNCHANGED <<subsong_playlist, random_seed, k>>
                   /\ pc' \in {"playing", "exit", "failed"}
           Begun == \E seed \in Seed :
                      /\ random_seed' = seed /\ pc' = "shuffle"
                      /\ subsong_playlist' = Identity /\ k' = Songs - 1
<1>1. \A n : PlaySubsong(n) => Done
  BY DEF PlaySubsong
<1>2. random_seed \in Seed /\ random_seed \in Int
  BY SeedsAssumption DEF Inv, TypeOK, Seed
<1>3. (random_seed + 1) % Seeds \in Seed /\ (random_seed - 1) % Seeds \in Seed
  BY <1>2, ModSeed
<1>4. \A who, seed : seed \in Seed /\ SetupPlaylist(who, seed) => Begun
  BY DEF SetupPlaylist
<1> HIDE DEF Begun
<1>5. \A who, n : Chosen(who, n) => Done \/ Begun
  BY <1>1, <1>2, <1>4 DEF Chosen, AfterNext
<1> HIDE DEF Done
<1>6. CASE SetupPlayMode
  BY <1>2, <1>4, <1>6 DEF SetupPlayMode, Begun
<1>7. CASE NewRound \/ ModeReady
  BY <1>1, <1>2, <1>3, <1>4, <1>5, <1>7 DEF NewRound, ModeReady, Done, Begun
<1>8. CASE SongEnds \/ KeyNext \/ KeyPrev
  BY <1>3, <1>4, <1>5, <1>8
  DEF SongEnds, KeyNext, KeyPrev, GetNextSubsong, GetPrevSubsong, Done, Begun
<1>9. CASE KeyLoop \/ KeyQuit
  BY <1>9 DEF KeyLoop, KeyQuit, playlist, Done
<1> QED  BY <1>6, <1>7, <1>8, <1>9 DEF OrderNext, Internal

\* In shuffle mode the list is what its seed alone makes of the identity.
Seeded ==
  play_mode = "SHUFFLE" /\ pc \in {"shuffle", "playing"} =>
    /\ subsong_playlist = After(random_seed)[k]
    /\ pc = "playing" => k = 0

LEMMA SeededKept == Inv /\ Seeded /\ [OrderNext]_orderVars => Seeded'
<1> SUFFICES ASSUME Inv, Seeded, [OrderNext]_orderVars, play_mode' = "SHUFFLE",
                    pc' \in {"shuffle", "playing"}
             PROVE  /\ subsong_playlist' = After(random_seed')[k']
                    /\ pc' = "playing" => k' = 0
  BY DEF Seeded
<1> HIDE DEF After
<1>1. play_mode = "SHUFFLE"
  BY DEF orderVars, options, OrderNext, Internal, SetupPlayMode, ShuffleStep,
         NewRound, ModeReady, SongEnds, KeyNext, KeyPrev, KeyLoop, KeyQuit
<1>2. CASE UNCHANGED orderVars
  BY <1>1, <1>2 DEF orderVars, playlist, Seeded
<1>3. ASSUME NEW seed \in Seed, random_seed' = seed, pc' = "shuffle",
             subsong_playlist' = Identity, k' = Songs - 1
      PROVE  /\ subsong_playlist' = After(random_seed')[k']
             /\ pc' = "playing" => k' = 0
  BY <1>3, AfterEquation
<1>4. CASE ShuffleStep
  <2>1. random_seed \in Seed /\ k \in 1 .. Songs - 1
    BY <1>4, SongsAssumption DEF Inv, TypeOK, ShuffleStep
  <2>2. subsong_playlist = After(random_seed)[k]
    BY <1>1, <1>4 DEF Seeded, ShuffleStep
  <2>3. /\ subsong_playlist' = Swapped(subsong_playlist, k, Draw[random_seed][k])
        /\ k' = k - 1 /\ random_seed' = random_seed /\ pc' = "shuffle"
    BY <1>4 DEF ShuffleStep, Swapped
  <2> QED  BY <2>1, <2>2, <2>3, AfterEquation
<1>5. CASE /\ UNCHANGED <<subsong_playlist, random_seed, k>>
           /\ pc' \in {"playing", "exit", "failed"}
           /\ pc = "playing" \/ (pc = "shuffle" /\ k = 0)
  BY <1>1, <1>5 DEF Seeded
<1> QED  BY <1>1, <1>2, <1>3, <1>4, <1>5, PlaylistSteps

\* setup_playlist, "playlists shall be reproducible!": for any generator the
\* playlist that plays is a function of its seed, whatever was played, pressed
\* or shuffled before; so going back to a seed brings its playlist back.
THEOREM PlaylistFromSeed == OrderSpec => []PlaylistReproducible
<1>1. OrderInit => Seeded
  BY DEF OrderInit, Seeded
<1>2. Seeded => PlaylistReproducible
  BY DEF Seeded, PlaylistReproducible, ShuffledBy
<1> QED  BY <1>1, <1>2, OrderInvariant, SeededKept, PTL DEF OrderSpec

-----------------------------------------------------------------------------
(***************************************************************************)
(* The play order of player.c does what module LoopModes, the man page,    *)
(* allows, but for the two cases of Departs, for files of any number of    *)
(* subsongs, any seeds and any generator.  The search for a playlist,      *)
(* however long, is a stutter.                                             *)
(***************************************************************************)
\* Where the player is between two subsongs, and what it will do with the
\* playlist that it waits for.
Flow ==
  /\ begun \in BOOLEAN
  /\ pc # "failed" =>
       (begun <=> pc \in {"playing", "exit"} \/ (pc = "shuffle" /\ reason # "setup"))
  /\ ~begun => subsong = subsong_start
  /\ pc = "setup" => reason = "setup"
  /\ pc = "shuffle" => play_mode = "SHUFFLE"
  /\ pc = "shuffle" /\ reason = "restart" =>
       loop_mode = "RANGE" /\ subsong = subsong_stop

\* A step that ends with a subsong, with waiting for a playlist or with the
\* failure of the plugout.
Step ==
  /\ Inv /\ Flow
  /\ pc \notin {"exit", "failed"}
  /\ UNCHANGED <<options, loop_mode>>
  /\ Remember

\* What it is for the man page.
Allowed == Promise!Next \/ Departs \/ UNCHANGED Promise!vars

StartOf(n) == IF n = -1 THEN DefaultSong ELSE n
Plays(n) ==
  /\ pc' = "playing" /\ subsong' = StartOf(n) /\ Promise!Play(StartOf(n))

LEMMA PlayMaps ==
  ASSUME Step, NEW what, Because(what), NEW n, PlaySubsong(n)
  PROVE  Flow' /\ ((Plays(n) /\ cause' = what) \/ Allowed)
<1>1. CASE pc' = "playing" /\ subsong' = StartOf(n)
  <2>1. /\ begun' = TRUE /\ cause' = what
        /\ UNCHANGED <<play_mode, subsong_start, subsong_stop, loop_mode>>
    BY <1>1 DEF Step, Remember, Because, options
  <2>2. Flow'
    BY <1>1, <2>1 DEF Flow
  <2>3. Promise!Play(StartOf(n))
    BY <1>1, <2>1 DEF Step, Promise!Play, Over
  <2> QED  BY <1>1, <2>1, <2>2, <2>3 DEF Plays
<1>2. CASE pc' = "failed" /\ UNCHANGED subsong
  <2>1. /\ begun' = begun /\ cause' = "quit"
        /\ UNCHANGED <<play_mode, subsong_start, subsong_stop, loop_mode>>
    BY <1>2 DEF Step, Flow, Remember, Because, options
  <2>2. Flow'
    BY <1>2, <2>1 DEF Step, Flow
  <2>3. Promise!Quit
    BY <1>2, <2>1 DEF Step, Promise!Quit, Promise!Exit, Over
  <2> QED  BY <2>2, <2>3 DEF Allowed, Promise!Next
<1> QED  BY <1>1, <1>2 DEF PlaySubsong, StartOf

LEMMA WaitMaps ==
  ASSUME Step, NEW what, Because(what), NEW who, NEW seed, SetupPlaylist(who, seed),
         who = "setup" <=> ~begun,
         play_mode = "SHUFFLE",
         who = "restart" => loop_mode = "RANGE" /\ subsong = subsong_stop
  PROVE  Flow' /\ Allowed
<1>1. /\ pc' = "shuffle" /\ subsong' = subsong /\ reason' = who /\ cause' = cause
      /\ UNCHANGED <<play_mode, subsong_start, subsong_stop, loop_mode>>
  BY DEF Step, SetupPlaylist, Because, options
<1>2. begun' = begun
  BY <1>1 DEF Step, Flow, Remember
<1>3. Flow'
  BY <1>1, <1>2 DEF Step, Flow
<1>4. UNCHANGED Promise!vars
  BY <1>1, <1>2 DEF Step, Promise!vars, Over
<1> QED  BY <1>3, <1>4 DEF Allowed

\* Whatever skips, a subsong of the file plays.
LEMMA SkipMaps ==
  ASSUME Step, begun, Because("skip"), NEW n \in Song, PlaySubsong(n),
         play_mode = "LINEAR" => \E d \in {-1, 1} : n = (subsong + d) % Songs
  PROVE  Flow' /\ Allowed
<1>1. StartOf(n) = n
  BY SongsAssumption DEF StartOf, Song
<1>2. subsong \in Song
  BY DEF Step, Flow, Inv, SubsongKnown
<1>3. subsong # -1
  BY <1>2, SongsAssumption DEF Song
<1>4. CASE Plays(n) /\ cause' = "skip"
  <2>1. Promise!Skip
    BY <1>1, <1>3, <1>4
       DEF Plays, Step, Promise!Skip, Promise!None, Promise!Song, Song, Over
  <2> QED  BY <2>1, PlayMaps DEF Allowed, Promise!Next
<1> QED  BY <1>4, PlayMaps

\* What the man page calls the last subsong, and what nextsubsong_cb does.
LEMMA LastSongs ==
  ASSUME Step, subsong \in Song, NEW n \in Nat,
         play_mode = "LINEAR" => n = subsong + 1,
         play_mode # "LINEAR" => n \in Song
  PROVE  /\ subsong = subsong_stop \/ n >= Songs => Promise!IsLast(subsong)
         /\ ~(subsong = subsong_stop \/ n >= Songs) =>
              /\ n \in Promise!Following(subsong)
              /\ ~Promise!IsLast(subsong) \/ (play_mode # "LINEAR" /\ subsong_stop = -1)
<1>1. subsong \in Int /\ subsong # -1 /\ 0 <= subsong /\ subsong <= Songs - 1
  BY SongsAssumption DEF Song
<1>2. Promise!Song = Song
  BY DEF Promise!Song, Song
<1>3. CASE play_mode = "LINEAR"
  <2>1. Promise!Following(subsong) = {subsong + 1} \cap Song
    BY <1>2, <1>3 DEF Promise!Following
  <2>2. subsong + 1 \in Song <=> subsong + 1 < Songs
    BY <1>1, SongsAssumption DEF Song
  <2>3. (subsong + 1) \in {subsong + 1} \cap Song <=> n < Songs
    BY <1>1, <1>3, <2>2, SongsAssumption
  <2>4. n >= Songs <=> ~(n < Songs)
    BY SongsAssumption
  <2> QED
    BY <1>1, <1>3, <2>1, <2>3, <2>4, SongsAssumption
    DEF Promise!IsLast, Promise!LastSong, Promise!None
<1>4. CASE play_mode # "LINEAR"
  <2>1. Promise!Following(subsong) = Song /\ n \in Song
    BY <1>2, <1>4 DEF Promise!Following
  <2>2. ~(n >= Songs)
    BY <2>1, SongsAssumption DEF Song
  <2> QED
    BY <1>1, <1>4, <2>1, <2>2 DEF Promise!IsLast, Promise!LastSong, Promise!None
<1> QED  BY <1>3, <1>4

\* A range that starts over, with the first subsong that was asked for or else
\* with the default one.
LEMMA RestartMaps ==
  ASSUME Step, begun, subsong \in Song, Because("end"), loop_mode = "RANGE",
         Promise!IsLast(subsong), PlaySubsong(subsong_start)
  PROVE  Flow' /\ Allowed
<1>1. subsong # -1
  BY SongsAssumption DEF Song
<1>2. CASE Plays(subsong_start) /\ cause' = "end"
  <2>1. CASE subsong_start = -1
    <3>1. Departs
      BY <1>2, <2>1 DEF Plays, StartOf, Departs, Step
    <3> QED  BY <3>1, PlayMaps DEF Allowed
  <2>2. CASE subsong_start # -1
    <3>1. StartOf(subsong_start) = Promise!FirstSong
      BY <2>2 DEF StartOf, Promise!FirstSong, Promise!None
    <3>2. Promise!Finished
      BY <1>1, <1>2, <3>1 DEF Plays, Step, Promise!Finished, Promise!None, Over
    <3> QED  BY <3>2, PlayMaps DEF Allowed, Promise!Next
  <2> QED  BY <2>1, <2>2
<1> QED  BY <1>2, PlayMaps

\* nextsubsong_cb, once it knows the next subsong.
LEMMA EndMaps ==
  ASSUME Step, begun, Because("end"), NEW n \in Nat, AfterNext(n),
         play_mode = "LINEAR" => n = subsong + 1,
         play_mode # "LINEAR" => n \in Song
  PROVE  Flow' /\ Allowed
<1>1. subsong \in Song /\ play_mode \in {"LINEAR", "SHUFFLE", "RANDOM"}
  BY OptionAssumption DEF Step, Flow, Inv, SubsongKnown, TypeOK
<1>2. subsong \in Int /\ subsong # -1 /\ n # -1
  BY <1>1 DEF Song
<1> DEFINE final == subsong = subsong_stop \/ n >= Songs
<1>3. /\ final => Promise!IsLast(subsong)
      /\ ~final => /\ n \in Promise!Following(subsong)
                   /\ \/ ~Promise!IsLast(subsong)
                      \/ play_mode # "LINEAR" /\ subsong_stop = -1
  BY <1>1, LastSongs
<1>4. CASE loop_mode = "SINGLE" /\ PlaySubsong(subsong)
  <2>1. Flow' /\ ((Plays(subsong) /\ cause' = "end") \/ Allowed)
    BY <1>4, PlayMaps
  <2>2. Plays(subsong) /\ cause' = "end" => Promise!Finished
    BY <1>2, <1>4 DEF Plays, StartOf, Step, Promise!Finished, Promise!None, Over
  <2> QED  BY <2>1, <2>2 DEF Allowed, Promise!Next
<1>5. CASE loop_mode # "SINGLE" /\ ~final /\ PlaySubsong(n)
  <2>1. Flow' /\ ((Plays(n) /\ cause' = "end") \/ Allowed)
    BY <1>5, PlayMaps
  <2>2. CASE Plays(n) /\ cause' = "end" /\ ~Promise!IsLast(subsong)
    <3>1. StartOf(n) = n
      BY <1>2 DEF StartOf
    <3>2. Promise!Finished
      BY <1>2, <1>3, <1>5, <2>2, <3>1 DEF Plays, Step, Promise!Finished, Promise!None, Over
    <3> QED  BY <2>1, <3>2 DEF Allowed, Promise!Next
  <2>3. CASE Plays(n) /\ cause' = "end" /\ Promise!IsLast(subsong)
    <3>1. Departs
      BY <1>3, <1>5, <2>3 DEF Plays, Departs, Step
    <3> QED  BY <2>1, <3>1 DEF Allowed
  <2> QED  BY <2>1, <2>2, <2>3
<1>6. CASE loop_mode = "OFF" /\ final /\ pc' = "exit" /\ UNCHANGED subsong
  <2>1. cause' = "end" /\ begun' = TRUE
        /\ UNCHANGED <<play_mode, subsong_start, subsong_stop, loop_mode>>
    BY <1>6 DEF Because, Step, Remember, options
  <2>2. Flow'
    BY <1>6, <2>1 DEF Flow
  <2>3. Promise!Exit
    BY <1>6, <2>1 DEF Promise!Exit, Over
  <2>4. Promise!Finished
    BY <1>2, <1>3, <1>6, <2>1, <2>3 DEF Step, Promise!Finished, Promise!None, Over
  <2> QED  BY <2>2, <2>4 DEF Allowed, Promise!Next
<1>7. CASE loop_mode = "RANGE" /\ final /\ PlaySubsong(subsong_start)
  BY <1>1, <1>3, <1>7, RestartMaps
<1>8. CASE loop_mode = "RANGE" /\ final /\ play_mode = "SHUFFLE"
           /\ SetupPlaylist("restart", random_seed)
  <2>1. subsong = subsong_stop
    BY <1>8, SongsAssumption DEF Song
  <2> QED  BY <1>8, <2>1, WaitMaps
<1> QED  BY <1>4, <1>5, <1>6, <1>7, <1>8 DEF AfterNext

-----------------------------------------------------------------------------
\* The neighbours of a subsong, around the ends of the file.
LEMMA Neighbours ==
  ASSUME NEW s \in Song
  PROVE  /\ (s + 1) % Songs \in Song
         /\ (IF s - 1 < 0 THEN s - 1 + Songs ELSE s - 1) = (s + (-1)) % Songs
<1>1. s \in Int /\ 0 <= s /\ s < Songs /\ Songs \in Nat \ {0}
  BY SongsAssumption DEF Song
<1>2. (s + 1) % Songs \in Song
  BY <1>1, ModSong
<1>3. CASE s = 0
  <2>1. (-1) % Songs = Songs - 1
    BY <1>1
  <2> QED  BY <1>1, <1>2, <1>3, <2>1
<1>4. CASE s > 0
  <2>1. (s - 1) % Songs = s - 1
    BY <1>1, <1>4
  <2> QED  BY <1>1, <1>2, <1>4, <2>1
<1> QED  BY <1>1, <1>3, <1>4

LEMMA ChosenSkipMaps ==
  ASSUME Step, begun, Because("skip"),
         NEW who \in {"next", "prev"}, NEW n \in -1 .. Songs, Chosen(who, n),
         play_mode = "LINEAR" =>
           subsong \in Song /\ n = IF who = "next" THEN subsong + 1 ELSE subsong - 1,
         play_mode # "LINEAR" => n \in Song
  PROVE  Flow' /\ Allowed
<1> USE SongsAssumption
<1>1. CASE who = "next"
  <2>1. PlaySubsong(n % Songs) /\ n % Songs \in Song
    BY <1>1, ModSong DEF Chosen
  <2>2. play_mode = "LINEAR" => n % Songs = (subsong + 1) % Songs
    BY <1>1
  <2> QED  BY <2>1, <2>2, SkipMaps
<1>2. CASE who = "prev"
  <2> DEFINE s == IF n < 0 THEN n + Songs ELSE n
  <2>1. PlaySubsong(s)
    BY <1>2 DEF Chosen
  <2>2. play_mode = "LINEAR" => s = (subsong + (-1)) % Songs
    BY <1>2, Neighbours
  <2>3. s \in Song
    BY <1>2 DEF Song
  <2> HIDE DEF s
  <2> QED  BY <2>1, <2>2, <2>3, SkipMaps
<1> QED  BY <1>1, <1>2

LEMMA GetNextMaps ==
  ASSUME Step, pc = "playing", NEW who \in {"next", "end"}, GetNextSubsong(who),
         Because(IF who = "next" THEN "skip" ELSE "end")
  PROVE  Flow' /\ Allowed
<1> USE SongsAssumption
<1>1. /\ begun /\ subsong \in Song /\ subsong_playlist_idx \in Song
      /\ play_mode \in {"LINEAR", "SHUFFLE", "RANDOM"}
  BY OptionAssumption
     DEF Step, Flow, Inv, SubsongKnown, PlaylistIsPermutation, TypeOK
<1>2. ASSUME NEW n \in 0 .. Songs, Chosen(who, n),
             play_mode = "LINEAR" => n = subsong + 1,
             play_mode # "LINEAR" => n \in Song
      PROVE  Flow' /\ Allowed
  <2>1. CASE who = "next"
    <3>1. n \in -1 .. Songs /\ Because("skip")
      BY <2>1
    <3> QED  BY <1>1, <1>2, <2>1, <3>1, ChosenSkipMaps
  <2>2. CASE who = "end"
    <3>1. n \in Nat /\ AfterNext(n) /\ Because("end")
      BY <1>2, <2>2 DEF Chosen
    <3> QED  BY <1>1, <1>2, <3>1, EndMaps
  <2> QED  BY <2>1, <2>2
<1>3. CASE play_mode = "LINEAR" /\ Chosen(who, subsong + 1)
  <2>1. subsong + 1 \in 0 .. Songs
    BY <1>1 DEF Song
  <2> QED  BY <1>2, <1>3, <2>1
<1>4. ASSUME play_mode = "RANDOM", NEW n \in Song, Chosen(who, n)
      PROVE  Flow' /\ Allowed
  <2>1. n \in 0 .. Songs
    BY DEF Song
  <2> QED  BY <1>2, <1>4, <2>1
<1>5. CASE play_mode = "SHUFFLE" /\ SetupPlaylist(who, (random_seed + 1) % Seeds)
  BY <1>1, <1>5, WaitMaps
<1>6. CASE /\ play_mode = "SHUFFLE"
           /\ subsong_playlist_idx' = subsong_playlist_idx + 1
           /\ subsong_playlist_idx' # Songs
           /\ Chosen(who, subsong_playlist[subsong_playlist_idx'])
  <2>1. subsong_playlist_idx' \in Song
    BY <1>1, <1>6 DEF Song
  <2>2. subsong_playlist[subsong_playlist_idx'] \in Song
    BY <2>1 DEF Step, Inv, TypeOK
  <2>3. subsong_playlist[subsong_playlist_idx'] \in 0 .. Songs
    BY <2>2 DEF Song
  <2> QED  BY <1>2, <1>6, <2>2, <2>3
<1> QED  BY <1>3, <1>4, <1>5, <1>6 DEF GetNextSubsong

LEMMA GetPrevMaps ==
  ASSUME Step, pc = "playing", GetPrevSubsong, Because("skip")
  PROVE  Flow' /\ Allowed
<1> USE SongsAssumption
<1>1. begun /\ subsong \in Song /\ subsong_playlist_idx \in Song
  BY DEF Step, Flow, Inv, SubsongKnown, PlaylistIsPermutation
<1>2. CASE play_mode = "LINEAR" /\ Chosen("prev", subsong - 1)
  <2>1. subsong - 1 \in -1 .. Songs
    BY <1>1 DEF Song
  <2> QED  BY <1>1, <1>2, <2>1, ChosenSkipMaps
<1>3. ASSUME play_mode # "LINEAR", NEW n \in Song, Chosen("prev", n)
      PROVE  Flow' /\ Allowed
  <2>1. n \in -1 .. Songs
    BY DEF Song
  <2> QED  BY <1>1, <1>3, <2>1, ChosenSkipMaps
<1>4. CASE play_mode = "SHUFFLE" /\ SetupPlaylist("prev", (random_seed - 1) % Seeds)
  BY <1>1, <1>4, WaitMaps
<1>5. CASE /\ play_mode = "SHUFFLE"
           /\ subsong_playlist_idx' = subsong_playlist_idx - 1
           /\ subsong_playlist_idx' # -1
           /\ Chosen("prev", subsong_playlist[subsong_playlist_idx'])
  <2>1. subsong_playlist_idx' \in Song
    BY <1>1, <1>5 DEF Song
  <2>2. subsong_playlist[subsong_playlist_idx'] \in Song
    BY <2>1 DEF Step, Inv, TypeOK
  <2> QED  BY <1>3, <1>5, <2>2
<1> QED  BY <1>2, <1>3, <1>4, <1>5 DEF GetPrevSubsong

-----------------------------------------------------------------------------
\* The first subsong: the one that was asked for, or any but in linear mode.
LEMMA BeginMaps ==
  ASSUME Step, ~begun, Because("begin"), NEW n \in Song \cup {-1}, PlaySubsong(n),
         n = subsong \/ (subsong = -1 /\ play_mode # "LINEAR" /\ n # -1),
         play_mode = "LINEAR" \/ n # -1
  PROVE  Flow' /\ Allowed
<1>1. Flow' /\ ((Plays(n) /\ cause' = "begin") \/ Allowed)
  BY PlayMaps
<1>2. subsong = subsong_start
  BY DEF Step, Flow
<1>3. CASE Plays(n) /\ cause' = "begin"
  <2>1. CASE n = -1
    <3>1. StartOf(n) = DefaultSong /\ subsong_start = -1 /\ play_mode = "LINEAR"
      BY <1>2, <2>1 DEF StartOf
    <3>2. Promise!Begin
      BY <1>3, <3>1 DEF Plays, Step, Promise!Begin, Promise!None, Over
    <3> QED  BY <1>1, <3>2 DEF Allowed, Promise!Next
  <2>2. CASE n # -1 /\ n = subsong
    <3>1. StartOf(n) = subsong_start /\ subsong_start # -1
      BY <1>2, <2>2 DEF StartOf
    <3>2. Promise!Begin
      BY <1>3, <3>1 DEF Plays, Step, Promise!Begin, Promise!None, Over
    <3> QED  BY <1>1, <3>2 DEF Allowed, Promise!Next
  <2>3. CASE n # -1 /\ subsong = -1 /\ play_mode # "LINEAR"
    <3>1. StartOf(n) = n /\ n \in Promise!Song
      BY <2>3 DEF StartOf, Promise!Song, Song
    <3>2. Promise!Begin
      BY <1>2, <1>3, <2>3, <3>1 DEF Plays, Step, Promise!Begin, Promise!None, Over
    <3> QED  BY <1>1, <3>2 DEF Allowed, Promise!Next
  <2> QED  BY <2>1, <2>2, <2>3
<1> QED  BY <1>1, <1>3

LEMMA SetupPlayModeMaps ==
  ASSUME Step, SetupPlayMode, Because("begin")
  PROVE  Flow' /\ Allowed
<1>1. ~begun /\ subsong \in Song \cup {-1}
  BY DEF Step, Flow, Inv, TypeOK, SetupPlayMode
<1>2. CASE play_mode = "SHUFFLE" /\ SetupPlaylist("setup", random_seed)
  BY <1>1, <1>2, WaitMaps
<1>3. CASE Chosen("setup", subsong) /\ (play_mode = "LINEAR" \/ subsong # -1)
  BY <1>1, <1>3, BeginMaps DEF Chosen
<1>4. ASSUME play_mode = "RANDOM", subsong = -1, NEW n \in Song, Chosen("setup", n)
      PROVE  Flow' /\ Allowed
  <2>1. n # -1
    BY SongsAssumption DEF Song
  <2> QED  BY <1>1, <1>4, <2>1, BeginMaps DEF Chosen
<1> QED  BY <1>2, <1>3, <1>4 DEF SetupPlayMode

LEMMA NewRoundMaps ==
  ASSUME Step, NewRound,
         Because(IF reason \in {"next", "prev"} THEN "skip" ELSE "end")
  PROVE  Flow' /\ Allowed
<1> DEFINE n == subsong_playlist[subsong_playlist_idx']
<1> USE SongsAssumption
<1>1. /\ pc = "shuffle" /\ reason \in {"next", "prev", "end"} /\ Chosen(reason, n)
      /\ subsong_playlist_idx' \in Song
  BY DEF NewRound, Song
<1>2. begun /\ play_mode = "SHUFFLE"
  BY <1>1 DEF Step, Flow
<1>3. n \in Song
  BY <1>1 DEF Step, Inv, TypeOK
<1> HIDE DEF n
<1>4. n \in -1 .. Songs /\ n \in Nat
  BY <1>3 DEF Song
<1>5. CASE reason \in {"next", "prev"}
  BY <1>1, <1>2, <1>3, <1>4, <1>5, ChosenSkipMaps
<1>6. CASE reason = "end"
  BY <1>1, <1>2, <1>3, <1>4, <1>6, EndMaps DEF Chosen
<1> QED  BY <1>1, <1>5, <1>6

\* A range that starts over, and the playlist of the first subsong.
LEMMA ModeReadyMaps ==
  ASSUME Step, ModeReady, Because(IF reason = "setup" THEN "begin" ELSE "end")
  PROVE  Flow' /\ Allowed
<1>1. /\ pc = "shuffle" /\ reason \in {"setup", "restart"}
      /\ reason = "setup" <=> ~begun
      /\ play_mode = "SHUFFLE"
  BY DEF ModeReady, Step, Flow
<1>2. subsong \in Song \cup {-1} /\ subsong_playlist[0] \in Song
  BY SongsAssumption DEF Step, Inv, TypeOK, Song
<1>3. CASE SetupPlaylist(reason, (random_seed + 1) % Seeds)
  <2>1. reason = "restart" => loop_mode = "RANGE" /\ subsong = subsong_stop
    BY <1>1 DEF Step, Flow
  <2> QED  BY <1>1, <1>3, <2>1, WaitMaps
<1>4. CASE /\ reason = "setup" /\ subsong \in {-1, subsong_playlist[0]}
           /\ PlaySubsong(subsong_playlist[0])
  <2>1. subsong_playlist[0] # -1
    BY <1>2, SongsAssumption DEF Song
  <2> QED  BY <1>1, <1>2, <1>4, <2>1, BeginMaps
<1>5. CASE reason = "restart" /\ PlaySubsong(subsong_start)
  <2>1. begun /\ loop_mode = "RANGE" /\ subsong = subsong_stop /\ subsong \in Song
    BY <1>1, <1>5 DEF Step, Flow, Inv, SubsongKnown
  <2>2. Promise!IsLast(subsong)
    BY <2>1, SongsAssumption DEF Promise!IsLast, Promise!LastSong, Promise!None, Song
  <2> QED  BY <1>5, <2>1, <2>2, RestartMaps
<1> QED  BY <1>1, <1>3, <1>4, <1>5 DEF ModeReady

LEMMA ShuffleMaps ==
  ASSUME Step, ShuffleStep, NEW what, Because(what)
  PROVE  Flow' /\ Allowed
<1>1. /\ pc = "shuffle" /\ pc' = "shuffle" /\ cause' = cause
      /\ UNCHANGED <<subsong, reason, play_mode, subsong_start, subsong_stop, loop_mode>>
  BY DEF ShuffleStep, Because, options
<1>2. begun' = begun
  BY <1>1 DEF Step, Flow, Remember
<1> QED  BY <1>1, <1>2 DEF Step, Flow, Allowed, Promise!vars, Over

-----------------------------------------------------------------------------
LEMMA FlowInit == MCInit => Flow /\ Promise!Init
<1> SUFFICES ASSUME MCInit PROVE Flow /\ Promise!Init
  OBVIOUS
<1>1. Flow
  BY DEF MCInit, OrderInit, Flow
<1>2. play_mode \in {"LINEAR", "SHUFFLE", "RANDOM"} /\ loop_mode \in {"OFF", "RANGE", "SINGLE"}
      /\ subsong_start \in Song \cup {-1} /\ subsong_stop \in Song \cup {-1}
  BY OptionAssumption DEF MCInit, OrderInit
<1>3. pc \notin Over /\ (IF begun THEN subsong ELSE -1) = -1 /\ cause = "begin"
  BY DEF MCInit, OrderInit, Over
<1>4. (pc \in Over) = FALSE
  <2>1. ~(pc \in Over) <=> (pc \in Over) = FALSE
    OBVIOUS
  <2> QED  BY <1>3, <2>1
<1>5. Promise!Init
  BY <1>2, <1>3, <1>4 DEF Promise!Init, Promise!None, Promise!Song, Song
<1> QED  BY <1>1, <1>5

LEMMA MCNextMaps ==
  ASSUME Inv, Flow, MCNext
  PROVE  Flow' /\ Allowed
<1>1. Remember
  BY DEF MCNext
<1>2. CASE (KeyNext /\ Because("skip")) \/ (KeyPrev /\ Because("skip"))
           \/ (SongEnds /\ Because("end"))
  <2>1. Step /\ pc = "playing"
    BY <1>1, <1>2 DEF Step, KeyNext, KeyPrev, SongEnds
  <2>2. CASE KeyNext /\ Because("skip")
    BY <2>1, <2>2, GetNextMaps DEF KeyNext
  <2>3. CASE KeyPrev /\ Because("skip")
    BY <2>1, <2>3, GetPrevMaps DEF KeyPrev
  <2>4. CASE SongEnds /\ Because("end")
    BY <2>1, <2>4, GetNextMaps DEF SongEnds
  <2> QED  BY <1>2, <2>2, <2>3, <2>4
<1>3. CASE KeyLoop /\ Because("mode")
  <2>1. /\ pc = "playing" /\ pc' = "playing" /\ cause' = "mode" /\ subsong' = subsong
        /\ UNCHANGED <<play_mode, subsong_start, subsong_stop>>
        /\ loop_mode' \in {"OFF", "RANGE", "SINGLE"}
    BY <1>3 DEF KeyLoop, Because, options, Inv, TypeOK
  <2>2. begun /\ begun' = TRUE
    BY <1>1, <2>1 DEF Flow, Remember
  <2>3. Flow'
    BY <2>1, <2>2 DEF Flow
  <2>4. subsong # -1
    BY <2>1, SongsAssumption DEF Inv, SubsongKnown, Song
  <2>5. Promise!ChangeMode
    BY <2>1, <2>2, <2>4 DEF Promise!ChangeMode, Promise!None, Over
  <2> QED  BY <2>3, <2>5 DEF Allowed, Promise!Next
<1>4. CASE KeyQuit /\ Because("quit")
  <2>1. /\ pc = "playing" /\ pc' = "exit" /\ cause' = "quit" /\ subsong' = subsong
        /\ UNCHANGED <<play_mode, subsong_start, subsong_stop, loop_mode>>
    BY <1>4 DEF KeyQuit, Because, options
  <2>2. begun /\ begun' = TRUE
    BY <1>1, <2>1 DEF Flow, Remember
  <2>3. Flow'
    BY <2>1, <2>2 DEF Flow
  <2>4. Promise!Quit
    BY <2>1, <2>2 DEF Promise!Quit, Promise!Exit, Over
  <2> QED  BY <2>3, <2>4 DEF Allowed, Promise!Next
<1>5. CASE /\ Internal
           /\ Because(CASE reason = "setup" -> "begin"
                        [] reason \in {"next", "prev"} -> "skip"
                        [] reason \in {"end", "restart"} -> "end")
  <2> DEFINE what == CASE reason = "setup" -> "begin"
                       [] reason \in {"next", "prev"} -> "skip"
                       [] reason \in {"end", "restart"} -> "end"
  <2>1. Step
    BY <1>1, <1>5
       DEF Step, Internal, SetupPlayMode, ShuffleStep, NewRound, ModeReady
  <2>2. CASE SetupPlayMode
    <3>1. what = "begin"
      BY <2>2 DEF SetupPlayMode, Flow
    <3> QED  BY <1>5, <2>1, <2>2, <3>1, SetupPlayModeMaps
  <2>3. CASE ShuffleStep
    BY <1>5, <2>1, <2>3, ShuffleMaps
  <2>4. CASE NewRound
    <3>1. what = IF reason \in {"next", "prev"} THEN "skip" ELSE "end"
      BY <2>4 DEF NewRound
    <3> QED  BY <1>5, <2>1, <2>4, <3>1, NewRoundMaps
  <2>5. CASE ModeReady
    <3>1. what = IF reason = "setup" THEN "begin" ELSE "end"
      BY <2>5 DEF ModeReady
    <3> QED  BY <1>5, <2>1, <2>5, <3>1, ModeReadyMaps
  <2> QED  BY <1>5, <2>2, <2>3, <2>4, <2>5 DEF Internal
<1> QED  BY <1>2, <1>3, <1>4, <1>5 DEF MCNext

LEMMA FlowStutters ==
  ASSUME Flow, UNCHANGED allVars
  PROVE  Flow' /\ UNCHANGED Promise!vars
BY DEF allVars, orderVars, options, playlist, Flow, Promise!vars, Over

\* The playlists, seeds and searches of player.c (setup_play_mode, nextsubsong_cb
\* and the keys) only ever do what the man page's LOOP MODES section allows, but
\* for the range without a START-AT-SUBSONG and the shuffle or random order without
\* a STOP-AFTER-SUBSONG (Departs), whatever the other options, the keys and the
\* plugout do and however many subsongs there are.
THEOREM OrderKeepsPromise == MCSpec => KeepsPromise
<1>1. MCInit => Inv /\ Flow /\ Promise!Init
  BY InitInv, FlowInit DEF MCInit
<1>2. Inv /\ [MCNext]_allVars => Inv'
  <2>1. MCNext => OrderNext
    BY DEF MCNext, OrderNext
  <2>2. UNCHANGED allVars => UNCHANGED orderVars
    BY DEF allVars
  <2> QED  BY <2>1, <2>2, NextInv
<1>3. Inv /\ Flow /\ [MCNext]_allVars =>
        Flow' /\ [Promise!Next \/ Departs]_(Promise!vars)
  BY MCNextMaps, FlowStutters DEF Allowed
<1> QED  BY <1>1, <1>2, <1>3, PTL DEF MCSpec, KeepsPromise
-----------------------------------------------------------------------------
(***************************************************************************)
(* The playlist and the subsong.                                           *)
(***************************************************************************)

LEMMA InvKept == MCSpec => []Inv
<1>1. MCInit => Inv
  BY InitInv DEF MCInit
<1>2. Inv /\ [MCNext]_allVars => Inv'
  <2>1. MCNext => OrderNext
    BY DEF MCNext, OrderNext
  <2>2. UNCHANGED allVars => UNCHANGED orderVars
    BY DEF allVars
  <2> QED  BY <2>1, <2>2, NextInv
<1> QED  BY <1>1, <1>2, PTL DEF MCSpec

\* Only shuffle mode waits for a playlist, and the first one is for the start.
Waits ==
  /\ pc = "shuffle" => play_mode = "SHUFFLE"
  /\ pc = "setup" => reason = "setup"

LEMMA WaitsKept == Waits /\ [MCNext]_allVars => Waits'
<1> SUFFICES ASSUME Waits, [MCNext]_allVars PROVE Waits'
  OBVIOUS
<1>1. CASE UNCHANGED allVars
  BY <1>1 DEF allVars, orderVars, options, playlist, Waits
<1> SUFFICES ASSUME MCNext PROVE Waits'
  BY <1>1
<1>2. play_mode' = play_mode
  BY DEF MCNext, Internal, SetupPlayMode, ShuffleStep, NewRound, ModeReady,
         SongEnds, KeyNext, KeyPrev, KeyLoop, KeyQuit, options
<1> DEFINE Goes == /\ pc' \in {"shuffle", "playing", "exit", "failed"}
                   /\ pc' = "shuffle" => play_mode = "SHUFFLE"
<1>3. \A n : PlaySubsong(n) => Goes
  BY DEF PlaySubsong
<1>4. \A who, seed : play_mode = "SHUFFLE" /\ SetupPlaylist(who, seed) => Goes
  BY DEF SetupPlaylist
<1>5. pc' = "exit" => Goes
  OBVIOUS
<1> HIDE DEF Goes
<1>6. \A who, n : Chosen(who, n) => Goes
  BY <1>3, <1>4, <1>5 DEF Chosen, AfterNext
<1>7. Goes
  <2>1. CASE SongEnds \/ KeyNext \/ KeyPrev
    BY <1>4, <1>6, <2>1 DEF SongEnds, KeyNext, KeyPrev, GetNextSubsong, GetPrevSubsong
  <2>2. CASE KeyLoop \/ KeyQuit
    BY <1>5, <2>2 DEF KeyLoop, KeyQuit, Goes
  <2>3. CASE SetupPlayMode
    BY <1>4, <1>6, <2>3 DEF SetupPlayMode
  <2>4. CASE NewRound \/ ModeReady
    <3>1. play_mode = "SHUFFLE"
      BY <2>4 DEF Waits, NewRound, ModeReady
    <3> QED  BY <1>3, <1>4, <1>6, <2>4, <3>1 DEF NewRound, ModeReady
  <2>5. CASE ShuffleStep
    BY <2>5 DEF Waits, ShuffleStep, Goes
  <2> QED  BY <2>1, <2>2, <2>3, <2>4, <2>5 DEF MCNext, Internal
<1> QED  BY <1>2, <1>7 DEF Waits, Goes

\* The subsong that plays is the one its index points at.
AtIndex == subsong = subsong_playlist[subsong_playlist_idx]

\* As long as the loop mode is off, only the end of a range could part the two,
\* and it exits.
Calm ==
  calm =>
    /\ loop_mode = "OFF"
    /\ play_mode = "SHUFFLE" =>
         /\ pc = "shuffle" => reason # "restart"
         /\ pc = "playing" => AtIndex

\* The same and where the index was before n: one less, or at the end of the
\* playlist of the seed before.
Undone ==
  /\ undo \in [idx : Song, seed : Seed, keys : {"", "n", "np"}]
  /\ play_mode = "SHUFFLE" /\ undo.keys # "" =>
       /\ pc # "setup"
       /\ pc = "shuffle" =>
            /\ undo.idx = Songs - 1
            /\ IF undo.keys = "n"
               THEN reason = "next" /\ random_seed = (undo.seed + 1) % Seeds
               ELSE reason = "prev" /\ random_seed = undo.seed
       /\ pc = "playing" /\ undo.keys = "n" =>
            \/ subsong_playlist_idx = undo.idx + 1 /\ random_seed = undo.seed
            \/ /\ subsong_playlist_idx = 0 /\ undo.idx = Songs - 1
               /\ random_seed = (undo.seed + 1) % Seeds
       /\ pc = "playing" /\ undo.keys = "np" =>
            subsong_playlist_idx = undo.idx /\ random_seed = undo.seed /\ AtIndex

LEMMA SeedBack ==
  ASSUME NEW s \in Seed
  PROVE  (((s + 1) % Seeds) - 1) % Seeds = s
<1>1. CASE s + 1 = Seeds
  <2>1. (s + 1) % Seeds = 0
    BY <1>1, SeedsAssumption DEF Seed
  <2>2. (0 - 1) % Seeds = Seeds - 1
    BY SeedsAssumption
  <2> QED  BY <1>1, <2>1, <2>2, SeedsAssumption DEF Seed
<1>2. CASE s + 1 # Seeds
  BY <1>2, SeedsAssumption DEF Seed
<1> QED  BY <1>1, <1>2

\* Where the index was before n, from where p finds it.
LEMMA IndexBack ==
  ASSUME NEW i \in Song, NEW idx \in Song, idx - 1 \in Song
  PROVE  /\ ~(idx = 0) /\ i + 1 # 0
         /\ idx = i + 1 => idx - 1 = i
BY DEF Song

LEMMA AfterIndex == ASSUME NEW i \in Song PROVE i + 1 # 0
BY DEF Song

LEMMA SongMod == ASSUME NEW n \in Song PROVE n % Songs = n /\ ~(n < 0)
BY SongsAssumption DEF Song

\* What the keys and the ends of subsongs do in shuffle mode.
LEMMA GetNextShuffles ==
  ASSUME Inv, play_mode = "SHUFFLE", pc = "playing",
         NEW who \in {"next", "end"}, GetNextSubsong(who)
  PROVE  \/ /\ pc' = "shuffle" /\ reason' = who
            /\ subsong_playlist_idx = Songs - 1
            /\ random_seed' = (random_seed + 1) % Seeds
         \/ /\ pc' = "shuffle" /\ who = "end" /\ loop_mode = "RANGE"
         \/ /\ pc' \in {"playing", "exit", "failed"}
            /\ subsong_playlist_idx' = subsong_playlist_idx + 1
            /\ UNCHANGED <<subsong_playlist, random_seed>>
            /\ pc' # "playing" \/ AtIndex' \/ (who = "end" /\ loop_mode # "OFF")
<1>1. subsong_playlist_idx \in Song
  BY DEF Inv, PlaylistIsPermutation
<1>2. subsong_playlist_idx' = subsong_playlist_idx + 1
  BY DEF GetNextSubsong
<1>3. CASE subsong_playlist_idx' = Songs
  BY <1>1, <1>2, <1>3, SongsAssumption DEF GetNextSubsong, SetupPlaylist, Song
<1>4. CASE subsong_playlist_idx' # Songs
  <2> DEFINE n == subsong_playlist[subsong_playlist_idx']
  <2>1. n \in Song /\ n # -1 /\ n % Songs = n
    <3>1. subsong_playlist_idx' \in Song
      BY <1>1, <1>2, <1>4, SongsAssumption DEF Song
    <3>2. n \in Song
      BY <3>1 DEF Inv, TypeOK
    <3> HIDE DEF n
    <3> QED  BY <3>2, SongMod, SongsAssumption DEF Song
  <2>2. Chosen(who, n)
    BY <1>4 DEF GetNextSubsong
  <2>3. ASSUME NEW m, m # -1, PlaySubsong(m)
        PROVE  /\ pc' \in {"playing", "exit", "failed"}
               /\ UNCHANGED <<subsong_playlist, random_seed>>
               /\ pc' # "playing" \/ subsong' = m
    BY <2>3 DEF PlaySubsong
  <2>4. \A m : PlaySubsong(m) => /\ pc' \in {"playing", "exit", "failed"}
                                 /\ UNCHANGED <<subsong_playlist, random_seed>>
    BY DEF PlaySubsong
  <2>5. CASE who = "next"
    <3>1. PlaySubsong(n)
      BY <2>1, <2>2, <2>5 DEF Chosen
    <3> QED  BY <1>2, <2>1, <2>3, <3>1 DEF AtIndex
  <2>6. CASE who = "end"
    <3>1. AfterNext(n)
      BY <2>2, <2>6 DEF Chosen
    <3>2. CASE loop_mode # "SINGLE" /\ PlaySubsong(n)
      BY <1>2, <2>1, <2>3, <3>2 DEF AtIndex
    <3>3. CASE pc' = "exit" /\ UNCHANGED <<subsong_playlist, random_seed>>
      BY <1>2, <3>3
    <3>4. CASE loop_mode = "SINGLE" /\ PlaySubsong(subsong)
      BY <1>2, <2>4, <2>6, <3>4
    <3>5. CASE loop_mode = "RANGE" /\ SetupPlaylist("restart", random_seed)
      BY <2>6, <3>5 DEF SetupPlaylist
    <3> QED  BY <3>1, <3>2, <3>3, <3>4, <3>5 DEF AfterNext
  <2> QED  BY <2>5, <2>6
<1> QED  BY <1>3, <1>4

LEMMA GetPrevShuffles ==
  ASSUME Inv, play_mode = "SHUFFLE", pc = "playing", GetPrevSubsong
  PROVE  \/ /\ pc' = "shuffle" /\ reason' = "prev"
            /\ subsong_playlist_idx = 0
            /\ random_seed' = (random_seed - 1) % Seeds
         \/ /\ pc' \in {"playing", "exit", "failed"}
            /\ subsong_playlist_idx' = subsong_playlist_idx - 1
            /\ subsong_playlist_idx' \in Song
            /\ UNCHANGED random_seed
            /\ pc' # "playing" \/ AtIndex'
<1>1. subsong_playlist_idx \in Song
  BY DEF Inv, PlaylistIsPermutation
<1>2. subsong_playlist_idx' = subsong_playlist_idx - 1
  BY DEF GetPrevSubsong
<1>3. CASE subsong_playlist_idx' = -1
  BY <1>1, <1>2, <1>3, SongsAssumption DEF GetPrevSubsong, SetupPlaylist, Song
<1>4. CASE subsong_playlist_idx' # -1
  <2> DEFINE n == subsong_playlist[subsong_playlist_idx']
  <2>0. subsong_playlist_idx' \in Song
    BY <1>1, <1>2, <1>4, SongsAssumption DEF Song
  <2>1. n \in Song /\ n # -1 /\ ~(n < 0)
    <3>1. n \in Song
      BY <2>0 DEF Inv, TypeOK
    <3> HIDE DEF n
    <3> QED  BY <3>1, SongMod, SongsAssumption DEF Song
  <2>2. Chosen("prev", n)
    BY <1>4 DEF GetPrevSubsong
  <2>3. PlaySubsong(n)
    BY <2>1, <2>2 DEF Chosen
  <2> QED  BY <1>2, <2>0, <2>1, <2>3 DEF PlaySubsong, AtIndex
<1> QED  BY <1>3, <1>4

\* A playlist is ready: its first or last subsong plays.
LEMMA NewRoundShuffles ==
  ASSUME Inv, Waits, NewRound
  PROVE  /\ play_mode = "SHUFFLE"
         /\ UNCHANGED random_seed \/ pc' = "shuffle"
         /\ reason \in {"next", "prev", "end"}
         /\ reason = "next" => subsong_playlist_idx' = 0
         /\ reason = "prev" => subsong_playlist_idx' = Songs - 1
         /\ \/ pc' \in {"exit", "failed"} \/ (pc' = "playing" /\ AtIndex')
            \/ (reason = "end" /\ loop_mode # "OFF" /\ pc' \in {"playing", "shuffle"})
         /\ pc' = "shuffle" => reason = "end" /\ loop_mode = "RANGE"
<1> DEFINE n == subsong_playlist[subsong_playlist_idx']
<1>1. play_mode = "SHUFFLE" /\ reason \in {"next", "prev", "end"}
      /\ (reason = "next" => subsong_playlist_idx' = 0)
      /\ (reason = "prev" => subsong_playlist_idx' = Songs - 1)
  BY DEF NewRound, Waits
<1>2. subsong_playlist_idx' \in Song
  BY SongsAssumption DEF NewRound, Song
<1>3. n \in Song /\ n # -1 /\ ~(n < 0) /\ n % Songs = n
  <2>1. n \in Song
    BY <1>2 DEF Inv, TypeOK
  <2> HIDE DEF n
  <2> QED  BY <2>1, SongMod, SongsAssumption DEF Song
<1>4. Chosen(reason, n)
  BY DEF NewRound
<1>5. CASE PlaySubsong(n)
  BY <1>1, <1>3, <1>5 DEF PlaySubsong, AtIndex
<1>6. CASE reason = "end" /\ AfterNext(n)
  <2>1. CASE pc' = "exit" /\ UNCHANGED random_seed
    BY <1>1, <2>1
  <2>2. CASE loop_mode = "SINGLE" /\ PlaySubsong(subsong)
    BY <1>1, <1>6, <2>2 DEF PlaySubsong
  <2>3. CASE loop_mode = "RANGE" /\ SetupPlaylist("restart", random_seed)
    BY <1>1, <1>6, <2>3 DEF SetupPlaylist
  <2> QED  BY <1>1, <1>5, <1>6, <2>1, <2>2, <2>3 DEF AfterNext
<1> QED  BY <1>1, <1>3, <1>4, <1>5, <1>6 DEF Chosen

\* What ModeReady, a swap or the start of the player leads to.
LEMMA OthersShuffle ==
  ASSUME Inv, Waits, play_mode = "SHUFFLE", SetupPlayMode \/ ShuffleStep \/ ModeReady
  PROVE  /\ pc \in {"setup", "shuffle"} /\ pc' \in {"shuffle", "playing", "failed"}
         /\ reason' = reason
         /\ ModeReady \/ UNCHANGED <<random_seed, subsong_playlist_idx>>
         /\ pc' = "playing" => ModeReady /\ (AtIndex' \/ reason = "restart")
         /\ SetupPlayMode \/ ModeReady => reason \in {"setup", "restart"}
         /\ SetupPlayMode => reason = "setup"
         /\ ~SetupPlayMode => pc = "shuffle"
<1>1. CASE SetupPlayMode
  BY <1>1 DEF SetupPlayMode, SetupPlaylist, Waits, ModeReady
<1>2. CASE ShuffleStep
  BY <1>2 DEF ShuffleStep, SetupPlayMode, ModeReady
<1>3. CASE ModeReady
  <2>1. subsong_playlist[0] # -1
    <3>1. subsong_playlist[0] \in Song
      BY SongsAssumption DEF Inv, TypeOK, Song
    <3> QED  BY <3>1, SongsAssumption DEF Song
  <2> QED  BY <1>3, <2>1 DEF ModeReady, SetupPlaylist, PlaySubsong, AtIndex, SetupPlayMode
<1> QED  BY <1>1, <1>2, <1>3
LEMMA CalmKept == Inv /\ Waits /\ Calm /\ [MCNext]_allVars => Calm'
<1> SUFFICES ASSUME Inv, Waits, Calm, [MCNext]_allVars, calm'
             PROVE  /\ loop_mode' = "OFF"
                    /\ play_mode' = "SHUFFLE" =>
                         /\ pc' = "shuffle" => reason' # "restart"
                         /\ pc' = "playing" => AtIndex'
  BY DEF Calm
<1>1. CASE UNCHANGED allVars
  BY <1>1 DEF allVars, orderVars, options, playlist, Calm, AtIndex
<1> SUFFICES ASSUME MCNext
             PROVE  play_mode' = "SHUFFLE" =>
                         /\ pc' = "shuffle" => reason' # "restart"
                         /\ pc' = "playing" => AtIndex'
  BY <1>1 DEF MCNext, Remember
<1>2. loop_mode = "OFF"
  BY DEF MCNext, Remember, Calm
<1> SUFFICES ASSUME play_mode' = "SHUFFLE"
             PROVE  /\ pc' = "shuffle" => reason' # "restart"
                    /\ pc' = "playing" => AtIndex'
  OBVIOUS
<1>3. play_mode = "SHUFFLE"
  BY DEF MCNext, Internal, SetupPlayMode, ShuffleStep, NewRound, ModeReady,
         SongEnds, KeyNext, KeyPrev, KeyLoop, KeyQuit, options
<1>4. CASE KeyNext
  BY <1>2, <1>3, <1>4, GetNextShuffles DEF KeyNext
<1>5. CASE SongEnds
  BY <1>2, <1>3, <1>5, GetNextShuffles DEF SongEnds
<1>6. CASE KeyPrev
  BY <1>3, <1>6, GetPrevShuffles DEF KeyPrev
<1>7. CASE KeyLoop \/ KeyQuit
  <2>1. KeyLoop => loop_mode' # "OFF"
    BY <1>2 DEF KeyLoop
  <2>2. loop_mode' = "OFF"
    BY DEF MCNext, Remember
  <2> QED  BY <1>7, <2>1, <2>2 DEF KeyQuit
<1>8. CASE NewRound
  <2>1. pc' # "shuffle" /\ (pc' = "playing" => AtIndex')
    BY <1>2, <1>8, NewRoundShuffles
  <2> QED  BY <2>1
<1>9. CASE SetupPlayMode \/ ShuffleStep \/ ModeReady
  <2>1. reason # "restart"
    <3>1. calm
      BY DEF MCNext, Remember
    <3>2. pc = "shuffle" \/ reason = "setup"
      BY <1>3, <1>9, OthersShuffle
    <3> QED  BY <1>3, <3>1, <3>2 DEF Calm
  <2> QED  BY <1>3, <1>9, <2>1, OthersShuffle
<1> QED  BY <1>4, <1>5, <1>6, <1>7, <1>8, <1>9 DEF MCNext, Internal

LEMMA UndoneKept == Inv /\ Waits /\ Undone /\ [MCNext]_allVars => Undone'
<1> SUFFICES ASSUME Inv, Waits, Undone, [MCNext]_allVars PROVE Undone'
  OBVIOUS
<1>1. CASE UNCHANGED allVars
  BY <1>1 DEF allVars, orderVars, options, playlist, Undone, AtIndex
<1> SUFFICES ASSUME MCNext PROVE Undone'
  BY <1>1
<1>2. random_seed \in Seed /\ (pc = "playing" => subsong_playlist_idx \in Song)
  BY DEF Inv, TypeOK, PlaylistIsPermutation
<1>3. undo' \in [idx : Song, seed : Seed, keys : {"", "n", "np"}]
  <2>1. 0 \in Song /\ 0 \in Seed
    BY SongsAssumption, SeedsAssumption DEF Song, Seed
  <2>2. undo \in [idx : Song, seed : Seed, keys : {"", "n", "np"}]
    BY DEF Undone
  <2>3. \/ undo' = [idx |-> 0, seed |-> 0, keys |-> ""]
        \/ KeyNext /\ undo' = [idx |-> subsong_playlist_idx, seed |-> random_seed,
                              keys |-> "n"]
        \/ undo' = [undo EXCEPT !.keys = "np"]
        \/ undo' = undo
    BY DEF MCNext, Forget
  <2>4. CASE undo' = [idx |-> 0, seed |-> 0, keys |-> ""]
    BY <2>1, <2>4
  <2>5. CASE KeyNext /\ undo' = [idx |-> subsong_playlist_idx, seed |-> random_seed,
                                keys |-> "n"]
    BY <1>2, <2>5 DEF KeyNext
  <2>6. CASE undo' = [undo EXCEPT !.keys = "np"]
    BY <2>2, <2>6
  <2> QED  BY <2>2, <2>3, <2>4, <2>5, <2>6
<1>4. play_mode' = play_mode
  BY DEF MCNext, Internal, SetupPlayMode, ShuffleStep, NewRound, ModeReady,
         SongEnds, KeyNext, KeyPrev, KeyLoop, KeyQuit, options
<1> SUFFICES ASSUME play_mode = "SHUFFLE", undo'.keys # "" PROVE Undone'
  BY <1>3, <1>4 DEF Undone
<1>5. CASE /\ KeyNext
           /\ undo' = [idx |-> subsong_playlist_idx, seed |-> random_seed, keys |-> "n"]
  <2>1. /\ undo'.idx = subsong_playlist_idx /\ undo'.seed = random_seed
        /\ undo'.keys = "n"
    BY <1>5
  <2>2. \/ /\ pc' = "shuffle" /\ reason' = "next"
           /\ subsong_playlist_idx = Songs - 1
           /\ random_seed' = (random_seed + 1) % Seeds
        \/ /\ pc' \in {"playing", "exit", "failed"}
           /\ subsong_playlist_idx' = subsong_playlist_idx + 1
           /\ UNCHANGED random_seed
    BY <1>5, GetNextShuffles DEF KeyNext
  <2> QED  BY <1>3, <1>4, <2>1, <2>2 DEF Undone
<1>6. CASE KeyPrev /\ undo.keys = "n" /\ undo' = [undo EXCEPT !.keys = "np"]
  <2>1. /\ undo.idx \in Song /\ undo.seed \in Seed
        /\ \/ subsong_playlist_idx = undo.idx + 1 /\ random_seed = undo.seed
           \/ /\ subsong_playlist_idx = 0 /\ undo.idx = Songs - 1
              /\ random_seed = (undo.seed + 1) % Seeds
    BY <1>6 DEF Undone, KeyPrev
  <2>2. undo'.idx = undo.idx /\ undo'.seed = undo.seed /\ undo'.keys = "np"
    BY <1>6 DEF Undone
  <2>3. CASE /\ pc' = "shuffle" /\ reason' = "prev"
             /\ subsong_playlist_idx = 0
             /\ random_seed' = (random_seed - 1) % Seeds
    <3>1. undo.idx = Songs - 1 /\ random_seed = (undo.seed + 1) % Seeds
      <4>1. undo.idx + 1 # 0
        BY <2>1, AfterIndex
      <4> QED  BY <2>1, <2>3, <4>1
    <3>2. random_seed' = undo.seed
      BY <2>1, <2>3, <3>1, SeedBack
    <3> QED  BY <1>3, <1>4, <2>2, <2>3, <3>1, <3>2 DEF Undone
  <2>4. CASE /\ pc' \in {"playing", "exit", "failed"}
             /\ subsong_playlist_idx' = subsong_playlist_idx - 1
             /\ subsong_playlist_idx' \in Song
             /\ UNCHANGED random_seed
             /\ pc' # "playing" \/ AtIndex'
    <3>1. subsong_playlist_idx' = undo.idx /\ random_seed = undo.seed
      <4>1. subsong_playlist_idx \in Song /\ subsong_playlist_idx - 1 \in Song
        BY <1>2, <1>6, <2>4 DEF KeyPrev
      <4> QED  BY <2>1, <2>4, <4>1, IndexBack
    <3> QED  BY <1>3, <1>4, <2>2, <2>4, <3>1 DEF Undone
  <2> QED  BY <1>6, <2>3, <2>4, GetPrevShuffles DEF KeyPrev
<1>7. CASE (KeyLoop \/ KeyQuit) /\ UNCHANGED undo
  BY <1>7 DEF KeyLoop, KeyQuit, options, playlist, Undone, AtIndex
<1>8. CASE Internal /\ UNCHANGED undo
  <2>1. undo.keys # ""
    BY <1>8
  <2>2. pc = "shuffle" /\ reason \in {"next", "prev"}
    BY <1>8, <2>1 DEF Undone, Internal, SetupPlayMode, ShuffleStep, NewRound, ModeReady
  <2>3. CASE NewRound
    <3>1. /\ pc' \in {"playing", "exit", "failed"} /\ UNCHANGED random_seed
          /\ pc' = "playing" => AtIndex'
          /\ reason = "next" => subsong_playlist_idx' = 0
          /\ reason = "prev" => subsong_playlist_idx' = Songs - 1
      BY <2>2, <2>3, NewRoundShuffles
    <3> QED  BY <1>3, <1>4, <1>8, <2>1, <2>2, <3>1 DEF Undone
  <2>4. CASE ShuffleStep
    BY <1>3, <1>8, <2>1, <2>2, <2>4 DEF Undone, ShuffleStep, options
  <2> QED  BY <1>8, <2>2, <2>3, <2>4 DEF Internal, SetupPlayMode, ModeReady
<1>9. CASE undo' = [idx |-> 0, seed |-> 0, keys |-> ""]
  <2>1. undo'.keys = ""
    BY <1>9
  <2> QED  BY <2>1
<1> QED  BY <1>5, <1>6, <1>7, <1>8, <1>9 DEF MCNext, Forget

\* man page, -z: while the loop mode stays off the subsong that plays is the one
\* the playlist's index points at, at the end of a playlist and the start of the
\* next one too, so that a round plays every subsong once.
THEOREM PlaylistIsFollowed == MCSpec => []PlaylistFollowed
<1>1. MCInit => Waits /\ Calm
  BY DEF MCInit, OrderInit, Waits, Calm
<1>2. Calm => PlaylistFollowed
  BY DEF Calm, AtIndex, PlaylistFollowed
<1> QED  BY <1>1, <1>2, InvKept, WaitsKept, CalmKept, PTL DEF MCSpec

\* player.c, setup_play_mode, "this must be reproducible by setting random_seed to
\* the old value": p takes n back, index, seed and subsong, also over the end of
\* a playlist, for any number of subsongs, of seeds, and any generator.
THEOREM PrevTakesNextBack == MCSpec => []PrevUndoesNext
<1>1. MCInit => Waits /\ Undone
  <2>1. 0 \in Song /\ 0 \in Seed
    BY SongsAssumption, SeedsAssumption DEF Song, Seed
  <2> SUFFICES ASSUME MCInit PROVE Waits /\ Undone
    OBVIOUS
  <2>2. undo = [idx |-> 0, seed |-> 0, keys |-> ""]
    BY DEF MCInit
  <2>3. undo \in [idx : Song, seed : Seed, keys : {"", "n", "np"}] /\ undo.keys = ""
    BY <2>1, <2>2
  <2>4. Undone
    BY <2>3 DEF Undone
  <2> QED  BY <2>4 DEF MCInit, OrderInit, Waits
<1>2. Undone => PrevUndoesNext
  BY DEF Undone, AtIndex, PrevUndoesNext
<1> QED  BY <1>1, <1>2, InvKept, WaitsKept, UndoneKept, PTL DEF MCSpec
=============================================================================
