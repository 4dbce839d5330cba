----------------------------- MODULE OutputProofs -----------------------------
(***************************************************************************)
(* Proofs about the output plugins: that those that play implement module  *)
(* SampleQueue, for blocks, buffers and devices of any size, and what the  *)
(* writers of recordings put into their files; and that the MIDI writers   *)
(* keep their notes in order, for any number of frequencies and any length *)
(* of a subsong.                                                           *)
(***************************************************************************)
EXTENDS MCPlugins, MCMidi, Recursion

\* The player's side of the stream.
StreamType ==
  /\ left \in Nat /\ taken \in Nat /\ heard \in Nat /\ heard <= taken
  /\ gone \subseteq 1 .. taken /\ dry \in BOOLEAN

\* What a plugin does, seen as a step of module SampleQueue.
LEMMA TookIsTake ==
  ASSUME StreamType, NEW n \in 1 .. left, Took(n)
  PROVE  /\ StreamType' /\ Queue!Next
         /\ left' = left - n /\ taken' = taken + n /\ UNCHANGED <<gone, heard, dry>>
<1>1. left' = left - n /\ taken' = taken + n /\ UNCHANGED <<gone, heard, dry>>
  <2>1. gone \cup {} = gone
    OBVIOUS
  <2> QED  BY <2>1 DEF Took, TookBut
<1>2. n \in Nat /\ n > 0 /\ n <= left /\ left \in Nat /\ taken \in Nat /\ heard \in Nat
      /\ heard <= taken /\ gone \subseteq 1 .. taken /\ dry \in BOOLEAN
  BY DEF StreamType
<1>3. left' \in Nat /\ taken' \in Nat /\ heard' \in Nat /\ heard' <= taken'
  BY <1>1, <1>2
<1>4. gone' \subseteq 1 .. taken'
  BY <1>1, <1>2
<1>5. StreamType'
  BY <1>1, <1>2, <1>3, <1>4 DEF StreamType
<1>6. Queue!Take
  BY <1>1, <1>2 DEF Queue!Take
<1> QED  BY <1>1, <1>5, <1>6 DEF Queue!Next

\* The frame k is the next of those that wait.
LEMMA SoundsIsHear ==
  ASSUME StreamType, NEW k \in (heard + 1 .. taken) \ gone, (heard + 1 .. k - 1) \subseteq gone,
         Sounds(k)
  PROVE  StreamType' /\ Queue!Next /\ heard' = k /\ ~ dry' /\ UNCHANGED <<left, taken, gone>>
<1>1. heard' = k /\ dry' = FALSE /\ UNCHANGED <<left, taken, gone>>
  BY DEF Sounds, Unheard
<1>2. k \in Nat /\ k <= taken
  BY DEF StreamType
<1>3. StreamType'
  BY <1>1, <1>2 DEF StreamType
<1>4. Queue!Hear
  BY <1>1 DEF Queue!Hear, Queue!Waiting
<1> QED  BY <1>1, <1>3, <1>4 DEF Queue!Next

LEMMA GaveUpType ==
  ASSUME StreamType, GiveUp
  PROVE  StreamType'
BY DEF GiveUp, StreamType

LEMMA GiveUpIsLose ==
  ASSUME StreamType, left > 0, GiveUp
  PROVE  Queue!Next
BY DEF GiveUp, StreamType, Queue!Next, Queue!Lose

-----------------------------------------------------------------------------
\* A queue holds what is to be heard, in order: frames after h up to t that are
\* not in g.
Holds(q, h, t, g) ==
  /\ q \in Seq(Nat)
  /\ \A i, j \in 1 .. Len(q) : i < j => q[i] < q[j]
  /\ \A i \in 1 .. Len(q) : q[i] \in (h + 1 .. t) \ g
  /\ \A w \in (h + 1 .. t) \ g : \E i \in 1 .. Len(q) : q[i] = w

LEMMA HoldsMore ==
  ASSUME NEW h \in Nat, NEW t \in Nat, h <= t, NEW g \in SUBSET (1 .. t), NEW n \in Nat,
         NEW q, Holds(q, h, t, g)
  PROVE  Holds(q \o [i \in 1 .. n |-> t + i], h, t + n, g)
<1> DEFINE more == [i \in 1 .. n |-> t + i]
           r == q \o more
<1>1. q \in Seq(Nat) /\ more \in Seq(Nat) /\ Len(more) = n
  BY DEF Holds
<1>2. /\ r \in Seq(Nat) /\ Len(q) \in Nat /\ Len(r) = Len(q) + n
      /\ \A i \in 1 .. Len(q) : r[i] = q[i]
      /\ \A i \in Len(q) + 1 .. Len(r) : r[i] = more[i - Len(q)] /\ r[i] = t + (i - Len(q))
  BY <1>1
<1> HIDE DEF more, r
<1>2a. ASSUME NEW i \in 1 .. Len(q)
       PROVE  r[i] = q[i] /\ q[i] \in Nat /\ q[i] >= h + 1 /\ q[i] <= t /\ q[i] \notin g
  <2>1. q[i] \in (h + 1 .. t) \ g
    BY DEF Holds
  <2>2. q[i] \in Nat
    BY <1>1
  <2> QED  BY <1>2, <2>1, <2>2
<1>2c. ASSUME NEW i \in Len(q) + 1 .. Len(r)
       PROVE  r[i] = t + (i - Len(q)) /\ i - Len(q) \in 1 .. n
  BY <1>2
<1>2b. \A i, j \in 1 .. Len(q) : i < j => q[i] < q[j]
  BY DEF Holds
<1>3. \A i, j \in 1 .. Len(r) : i < j => r[i] < r[j]
  <2> SUFFICES ASSUME NEW i \in 1 .. Len(r), NEW j \in 1 .. Len(r), i < j PROVE r[i] < r[j]
    OBVIOUS
  <2>1. CASE j \in 1 .. Len(q)
    <3>1. i \in 1 .. Len(q)
      BY <1>2, <2>1
    <3> QED  BY <1>2, <1>2b, <2>1, <3>1
  <2>2. CASE j \in Len(q) + 1 .. Len(r)
    <3>1. CASE i \in 1 .. Len(q)
      <4>1. r[i] <= t /\ r[i] \in Nat
        BY <1>2a, <3>1
      <4>2. r[j] = t + (j - Len(q)) /\ j - Len(q) >= 1 /\ j - Len(q) \in Int
        BY <1>2, <1>2c, <2>2
      <4> QED  BY <4>1, <4>2
    <3>2. CASE i \in Len(q) + 1 .. Len(r)
      BY <1>2, <1>2c, <2>2, <3>2
    <3> QED  BY <1>2, <3>1, <3>2
  <2> QED  BY <1>2, <2>1, <2>2
<1>4. ASSUME NEW i \in 1 .. Len(r) PROVE r[i] \in (h + 1 .. t + n) \ g
  <2>1. CASE i \in 1 .. Len(q)
    BY <1>2a, <2>1
  <2>2. CASE i \in Len(q) + 1 .. Len(r)
    BY <1>2c, <2>2
  <2> QED  BY <1>2, <2>1, <2>2
<1>5. ASSUME NEW w \in (h + 1 .. t + n) \ g PROVE \E i \in 1 .. Len(r) : r[i] = w
  <2>1. CASE w <= t
    <3>1. PICK i \in 1 .. Len(q) : q[i] = w
      BY <2>1 DEF Holds
    <3>2. i \in 1 .. Len(r)
      BY <1>2
    <3> QED  BY <1>2, <3>1, <3>2
  <2>2. CASE w > t
    <3> DEFINE i == w - t + Len(q)
    <3>1. i \in Len(q) + 1 .. Len(r) /\ i \in 1 .. Len(r) /\ t + (i - Len(q)) = w
      BY <1>2, <2>2
    <3> HIDE DEF i
    <3>2. r[i] = w
      BY <1>2, <3>1
    <3> QED  BY <3>1, <3>2
  <2> QED  BY <2>1, <2>2
<1>6. Holds(r, h, t + n, g)
  BY <1>2, <1>3, <1>4, <1>5 DEF Holds
<1> QED  BY <1>6 DEF r, more

LEMMA HoldsLess ==
  ASSUME NEW h \in Nat, NEW t \in Nat, NEW g, NEW q, Holds(q, h, t, g), q # <<>>
  PROVE  /\ Holds(Tail(q), Head(q), t, g)
         /\ Head(q) \in (h + 1 .. t) \ g /\ (h + 1 .. Head(q) - 1) \subseteq g
<1> DEFINE r == Tail(q)
           k == Head(q)
<1>1. q \in Seq(Nat)
  BY DEF Holds
<1>2. /\ r \in Seq(Nat) /\ Len(q) \in Nat \ {0} /\ Len(r) = Len(q) - 1 /\ k = q[1]
      /\ \A i \in 1 .. Len(r) : r[i] = q[i + 1]
  BY <1>1
<1> HIDE DEF r, k
<1>3. k \in (h + 1 .. t) \ g /\ \A i \in 2 .. Len(q) : q[i] > k
  BY <1>2, SMTT(30) DEF Holds
<1>4. \A w \in (h + 1 .. t) \ g : w # k => w > k /\ \E i \in 2 .. Len(q) : q[i] = w
  <2> SUFFICES ASSUME NEW w \in (h + 1 .. t) \ g, w # k
               PROVE  w > k /\ \E i \in 2 .. Len(q) : q[i] = w
    OBVIOUS
  <2>1. PICK i \in 1 .. Len(q) : q[i] = w
    BY DEF Holds
  <2>2. i \in 2 .. Len(q)
    BY <1>2, <2>1
  <2> QED  BY <1>3, <2>1, <2>2
<1>4a. \A i \in 1 .. Len(r) : /\ i \in 1 .. Len(q) /\ i + 1 \in 2 .. Len(q)
                              /\ i + 1 \in 1 .. Len(q)
  BY <1>2
<1>5. \A i, j \in 1 .. Len(r) : i < j => r[i] < r[j]
  <2> SUFFICES ASSUME NEW i \in 1 .. Len(r), NEW j \in 1 .. Len(r), i < j PROVE r[i] < r[j]
    OBVIOUS
  <2>1. i + 1 < j + 1 /\ i + 1 \in 1 .. Len(q) /\ j + 1 \in 1 .. Len(q)
    BY <1>2, <1>4a
  <2>2. q[i + 1] < q[j + 1]
    BY <2>1 DEF Holds
  <2> QED  BY <1>2, <2>2
<1>6. ASSUME NEW i \in 1 .. Len(r) PROVE r[i] \in (k + 1 .. t) \ g
  <2>1. i + 1 \in 2 .. Len(q) /\ i + 1 \in 1 .. Len(q) /\ r[i] = q[i + 1]
    BY <1>2, <1>4a
  <2>2. q[i + 1] > k /\ q[i + 1] \in (h + 1 .. t) \ g
    BY <1>3, <2>1 DEF Holds
  <2>3. k \in Int /\ q[i + 1] \in Int
    BY <1>3, <2>2
  <2> QED  BY <2>1, <2>2, <2>3
<1>7. ASSUME NEW w \in (k + 1 .. t) \ g PROVE \E i \in 1 .. Len(r) : r[i] = w
  <2>1. w \in (h + 1 .. t) \ g /\ w # k
    BY <1>3
  <2>2. PICK i \in 2 .. Len(q) : q[i] = w
    BY <1>4, <2>1
  <2>3. i - 1 \in 1 .. Len(r) /\ r[i - 1] = q[i - 1 + 1] /\ i - 1 + 1 = i
    BY <1>2, <2>2
  <2> QED  BY <2>2, <2>3
<1>8. (h + 1 .. k - 1) \subseteq g
  <2>1. \A w \in h + 1 .. k - 1 : w \in h + 1 .. t /\ w < k
    BY <1>3
  <2> QED  BY <1>3, <1>4, <2>1
<1>9. Holds(r, k, t, g)
  BY <1>2, <1>5, <1>6, <1>7 DEF Holds
<1> QED  BY <1>3, <1>8, <1>9 DEF r, k

\* Frames that are given up have not been queued.
LEMMA HoldsGone ==
  ASSUME NEW h \in Nat, NEW t \in Nat, h <= t, NEW n \in Nat, NEW g, NEW q, Holds(q, h, t, g)
  PROVE  Holds(q, h, t + n, g \cup (t + 1 .. t + n))
<1>1. (h + 1 .. t + n) \ (g \cup (t + 1 .. t + n)) = (h + 1 .. t) \ g
  OBVIOUS
<1> QED  BY <1>1 DEF Holds

-----------------------------------------------------------------------------
\* A device with a queue of its own.
DeviceType ==
  [queue: Seq(Nat), state: {"running", "xrun", "suspended"}, sent: Nat, errors: Nat]

DeviceInv == dev \in DeviceType /\ Holds(dev.queue, heard, taken, gone)

LEMMA DeviceFields ==
  ASSUME NEW d \in DeviceType
  PROVE  /\ \A x \in {"running", "xrun", "suspended"} :
              [d EXCEPT !.state = x] \in DeviceType /\ [d EXCEPT !.state = x].queue = d.queue
         /\ \A t \in Nat :
              [d EXCEPT !.sent = t] \in DeviceType /\ [d EXCEPT !.sent = t].queue = d.queue
         /\ \A t \in Nat :
              [d EXCEPT !.errors = t] \in DeviceType /\ [d EXCEPT !.errors = t].queue = d.queue
BY DEF DeviceType

LEMMA FailsKeepsQueue ==
  ASSUME dev \in DeviceType, NEW x \in {"running", "xrun", "suspended"}
  PROVE  Fails(x) \in DeviceType /\ Fails(x).queue = dev.queue
<1> DEFINE d1 == [dev EXCEPT !.state = x]
           d2 == [d1 EXCEPT !.sent = 0]
           d3 == [d2 EXCEPT !.errors = dev.errors + 1]
<1>1. Fails(x) = d3 /\ dev.errors + 1 \in Nat /\ 0 \in Nat
  BY DEF Fails, DeviceType
<1>2. d1 \in DeviceType /\ d1.queue = dev.queue
  BY DeviceFields
<1> HIDE DEF d1
<1>3. d2 \in DeviceType /\ d2.queue = dev.queue
  BY <1>1, <1>2, DeviceFields
<1> HIDE DEF d2
<1>4. d3 \in DeviceType /\ d3.queue = dev.queue
  BY <1>1, <1>3, DeviceFields
<1> HIDE DEF d3
<1> QED  BY <1>1, <1>4

\* A part of the block goes to the device.
LEMMA TransferIsTake ==
  ASSUME StreamType, DeviceInv, NEW n \in 1 .. left, NEW dev1 \in DeviceType,
         dev1.queue = dev.queue, Transfer(n, dev1)
  PROVE  StreamType' /\ DeviceInv' /\ Queue!Next
<1> DEFINE more == Numbers(n)
<1>1. /\ StreamType' /\ Queue!Next
      /\ left' = left - n /\ taken' = taken + n /\ UNCHANGED <<gone, heard, dry>>
  BY TookIsTake DEF Transfer
<1>2. n \in Nat /\ n > 0 /\ n <= left /\ left \in Nat /\ taken \in Nat /\ heard \in Nat
      /\ heard <= taken /\ gone \subseteq 1 .. taken
  BY DEF StreamType
<1>4. dev.queue \in Seq(Nat) /\ Holds(dev.queue, heard, taken, gone)
  BY DEF DeviceInv, DeviceType
<1>5. Holds(dev.queue \o more, heard, taken + n, gone)
  BY <1>2, <1>4, HoldsMore DEF Numbers
<1>6. dev' = [dev1 EXCEPT !.queue = dev.queue \o more]
  BY DEF Transfer
<1> HIDE DEF more
<1>7. dev.queue \o more \in Seq(Nat)
  BY <1>5 DEF Holds
<1>8. dev' \in DeviceType /\ dev'.queue = dev.queue \o more
  BY <1>6, <1>7 DEF DeviceType
<1>9. DeviceInv'
  BY <1>1, <1>5, <1>8 DEF DeviceInv
<1> QED  BY <1>1, <1>9

LEMMA DeviceGivesUp ==
  ASSUME StreamType, DeviceInv, left > 0, GiveUp, dev' \in DeviceType, dev'.queue = dev.queue
  PROVE  StreamType' /\ DeviceInv' /\ Queue!Next
<1>1. /\ left' = 0 /\ taken' = taken + left /\ heard' = heard
      /\ gone' = gone \cup (taken + 1 .. taken + left)
      /\ left \in Nat /\ taken \in Nat /\ heard \in Nat /\ heard <= taken
      /\ gone \subseteq 1 .. taken
  BY DEF GiveUp, StreamType
<1>2. StreamType'
  BY GaveUpType
<1>3. Holds(dev.queue, heard', taken', gone')
  BY <1>1, HoldsGone DEF DeviceInv
<1> QED  BY <1>2, <1>3, GiveUpIsLose DEF DeviceInv

LEMMA DeviceHears ==
  ASSUME StreamType, DeviceInv, DeviceSounds
  PROVE  StreamType' /\ DeviceInv' /\ Queue!Next
<1> DEFINE k == Head(dev.queue)
           r == Tail(dev.queue)
<1>1. dev.queue # <<>> /\ Sounds(k) /\ dev' = [dev EXCEPT !.queue = r]
  BY DEF DeviceSounds
<1>2. heard \in Nat /\ taken \in Nat
  BY DEF StreamType
<1>3. /\ Holds(r, k, taken, gone)
      /\ k \in (heard + 1 .. taken) \ gone /\ (heard + 1 .. k - 1) \subseteq gone
  BY <1>1, <1>2, HoldsLess DEF DeviceInv
<1> HIDE DEF k, r
<1>4. dev' \in DeviceType /\ dev'.queue = r
  BY <1>1, <1>3 DEF DeviceInv, DeviceType, Holds
<1>5. StreamType' /\ Queue!Next /\ heard' = k /\ UNCHANGED <<taken, gone>>
  BY <1>1, <1>3, SoundsIsHear
<1>6. DeviceInv'
  BY <1>3, <1>4, <1>5 DEF DeviceInv
<1> QED  BY <1>5, <1>6

LEMMA DeviceImplements ==
  ASSUME StreamType, DeviceInv, DeviceNext
  PROVE  StreamType' /\ DeviceInv' /\ (Queue!Next \/ UNCHANGED stream)
<1>1. left \in Nat /\ dev \in DeviceType /\ Piece \in Nat /\ Piece > 0
  BY DeviceAssumption DEF StreamType, DeviceInv
<1>2. ASSUME NEW dev1 \in DeviceType, dev1.queue = dev.queue, dev' = dev1,
             UNCHANGED <<left, stream>>
      PROVE  StreamType' /\ DeviceInv' /\ UNCHANGED stream
  BY <1>2 DEF stream, StreamType, DeviceInv
<1>3. CASE DeviceSounds
  BY <1>3, DeviceHears
<1>4. CASE DevicePause
  BY <1>1, <1>2, <1>4 DEF DevicePause, TogglePause
<1>5. CASE BlockingWrite
  <2> DEFINE dev1 == [dev EXCEPT !.sent = IF left = 1 THEN 0 ELSE @ + 1]
  <2>1. dev1 \in DeviceType /\ dev1.queue = dev.queue
    <3>1. (IF left = 1 THEN 0 ELSE dev.sent + 1) \in Nat
      BY <1>1 DEF DeviceType
    <3> QED  BY <1>1, <3>1, DeviceFields
  <2>2. 1 \in 1 .. left /\ Transfer(1, dev1)
    BY <1>1, <1>5 DEF BlockingWrite
  <2> HIDE DEF dev1
  <2> QED  BY <2>1, <2>2, TransferIsTake
<1>6. CASE ShortWrite
  <2>1. dev' \in DeviceType /\ dev'.queue = dev.queue /\ left > 0 /\ GiveUp
    <3>1. dev.state \in {"running", "xrun", "suspended"}
      BY <1>1 DEF DeviceType
    <3> QED  BY <1>1, <1>6, <3>1, FailsKeepsQueue DEF ShortWrite
  <2> QED  BY <2>1, DeviceGivesUp
<1>7. CASE Disturbed
  <2>1. dev' \in DeviceType /\ dev'.queue = dev.queue /\ UNCHANGED <<left, stream>>
    BY <1>1, <1>7, FailsKeepsQueue DEF Disturbed, stream
  <2> QED  BY <1>2, <2>1
<1>8. CASE Prepare \/ Resume
  <2>1. dev' \in DeviceType /\ dev'.queue = dev.queue /\ UNCHANGED <<left, stream>>
    BY <1>1, <1>8, DeviceFields DEF Prepare, Resume, stream
  <2> QED  BY <1>2, <2>1
<1>9. CASE NasWrite
  <2> DEFINE n == IF left > Piece THEN Piece ELSE left
  <2>1. left > 0 /\ Transfer(n, dev)
    BY <1>9 DEF NasWrite
  <2>2. n \in 1 .. left
    BY <1>1, <2>1
  <2> HIDE DEF n
  <2> QED  BY <1>1, <2>1, <2>2, TransferIsTake
<1>10. CASE SdlWrite
  <2>1. left \in 1 .. left /\ Transfer(left, dev)
    BY <1>1, <1>10 DEF SdlWrite
  <2> QED  BY <1>1, <2>1, TransferIsTake
<1>11. CASE Error
  <2>1. dev' \in DeviceType /\ dev'.queue = dev.queue /\ left > 0 /\ GiveUp
    <3>1. dev.state \in {"running", "xrun", "suspended"}
      BY <1>1 DEF DeviceType
    <3> QED  BY <1>1, <1>11, <3>1, FailsKeepsQueue DEF Error
  <2> QED  BY <2>1, DeviceGivesUp
<1> QED
  BY <1>3, <1>4, <1>5, <1>6, <1>7, <1>8, <1>9, <1>10, <1>11 DEF DeviceNext

-----------------------------------------------------------------------------
\* A queue of buffers, each of which holds the frames from its first to its last.
Buffer == Nat \X Nat
HoldsBuffers(q, h, t, g) ==
  /\ q \in Seq(Buffer)
  /\ \A i \in 1 .. Len(q) : q[i][1] <= q[i][2] /\ q[i][2] - q[i][1] < MaxSize
  /\ \A i, j \in 1 .. Len(q) : i < j => q[i][2] < q[j][1]
  /\ \A i \in 1 .. Len(q) : (q[i][1] .. q[i][2]) \subseteq (h + 1 .. t) \ g
  /\ \A w \in (h + 1 .. t) \ g : \E i \in 1 .. Len(q) : w \in q[i][1] .. q[i][2]

LEMMA BuffersMore ==
  ASSUME NEW h \in Nat, NEW t \in Nat, h <= t, NEW g \in SUBSET (1 .. t),
         NEW n \in 1 .. MaxSize, NEW q, HoldsBuffers(q, h, t, g)
  PROVE  HoldsBuffers(Append(q, <<t + 1, t + n>>), h, t + n, g)
<1> DEFINE b == <<t + 1, t + n>>
           r == Append(q, b)
<1>0. MaxSize \in Nat /\ n \in Nat /\ n >= 1 /\ n <= MaxSize
  BY StreamAssumption
<1>1. q \in Seq(Buffer) /\ b \in Buffer /\ b[1] = t + 1 /\ b[2] = t + n
  BY <1>0 DEF HoldsBuffers, Buffer
<1> HIDE DEF b
<1>2. /\ r \in Seq(Buffer) /\ Len(q) \in Nat /\ Len(r) = Len(q) + 1 /\ r[Len(r)] = b
      /\ \A i \in 1 .. Len(q) : r[i] = q[i]
      /\ \A i \in 1 .. Len(r) : i \in 1 .. Len(q) \/ i = Len(r)
  BY <1>1
<1> HIDE DEF r
<1>3. ASSUME NEW i \in 1 .. Len(q)
      PROVE  /\ q[i][1] \in Nat /\ q[i][2] \in Nat
             /\ q[i][1] <= q[i][2] /\ q[i][2] - q[i][1] < MaxSize
             /\ q[i][1] >= h + 1 /\ q[i][2] <= t
             /\ (q[i][1] .. q[i][2]) \subseteq (h + 1 .. t) \ g
  <2>1. q[i] \in Nat \X Nat
    BY <1>1 DEF Buffer
  <2>2. q[i][1] <= q[i][2] /\ (q[i][1] .. q[i][2]) \subseteq (h + 1 .. t) \ g
        /\ q[i][2] - q[i][1] < MaxSize
    BY DEF HoldsBuffers
  <2>3. q[i][1] \in Nat /\ q[i][2] \in Nat
    BY <2>1
  <2>4. q[i][1] \in q[i][1] .. q[i][2] /\ q[i][2] \in q[i][1] .. q[i][2]
    BY <2>2, <2>3
  <2>5. q[i][1] \in h + 1 .. t /\ q[i][2] \in h + 1 .. t
    BY <2>2, <2>4
  <2> QED  BY <2>2, <2>3, <2>5
<1>4. ASSUME NEW i \in 1 .. Len(r) PROVE r[i][1] <= r[i][2] /\ r[i][2] - r[i][1] < MaxSize
  BY <1>0, <1>1, <1>2, <1>3, SMTT(30)
<1>5. ASSUME NEW i \in 1 .. Len(r), NEW j \in 1 .. Len(r), i < j PROVE r[i][2] < r[j][1]
  <2>1. i \in 1 .. Len(q)
    BY <1>2, <1>5
  <2>2. CASE j \in 1 .. Len(q)
    BY <1>2, <1>5, <2>1, <2>2 DEF HoldsBuffers
  <2>3. CASE j = Len(r)
    BY <1>1, <1>2, <1>3, <2>1, <2>3
  <2> QED  BY <1>2, <2>2, <2>3
<1>6. ASSUME NEW i \in 1 .. Len(r) PROVE (r[i][1] .. r[i][2]) \subseteq (h + 1 .. t + n) \ g
  <2>1. CASE i \in 1 .. Len(q)
    <3>1. (h + 1 .. t) \ g \subseteq (h + 1 .. t + n) \ g
      BY <1>0
    <3> QED  BY <1>2, <1>3, <2>1, <3>1
  <2>2. CASE i = Len(r)
    <3>1. (t + 1 .. t + n) \subseteq (h + 1 .. t + n) \ g
      BY <1>0
    <3> QED  BY <1>1, <1>2, <2>2, <3>1
  <2> QED  BY <1>2, <2>1, <2>2
<1>7. ASSUME NEW w \in (h + 1 .. t + n) \ g
      PROVE  \E i \in 1 .. Len(r) : w \in r[i][1] .. r[i][2]
  <2>1. CASE w <= t
    <3>1. PICK i \in 1 .. Len(q) : w \in q[i][1] .. q[i][2]
      BY <2>1 DEF HoldsBuffers
    <3>2. i \in 1 .. Len(r) /\ r[i] = q[i]
      BY <1>2
    <3> QED  BY <3>1, <3>2
  <2>2. CASE w > t
    <3>1. w \in b[1] .. b[2] /\ Len(r) \in 1 .. Len(r)
      BY <1>0, <1>1, <1>2, <2>2
    <3> QED  BY <1>2, <3>1
  <2> QED  BY <2>1, <2>2
<1>8. HoldsBuffers(r, h, t + n, g)
  BY <1>2, <1>4, <1>5, <1>6, <1>7 DEF HoldsBuffers
<1> QED  BY <1>8 DEF r, b

LEMMA BuffersGone ==
  ASSUME NEW h \in Nat, NEW t \in Nat, h <= t, NEW n \in Nat, NEW g, NEW q,
         HoldsBuffers(q, h, t, g)
  PROVE  HoldsBuffers(q, h, t + n, g \cup (t + 1 .. t + n))
<1>1. (h + 1 .. t + n) \ (g \cup (t + 1 .. t + n)) = (h + 1 .. t) \ g
  OBVIOUS
<1> QED  BY <1>1 DEF HoldsBuffers

\* The first buffer is played to its end, or by one frame.
LEMMA BuffersLess ==
  ASSUME NEW h \in Nat, NEW t \in Nat, NEW g, NEW q, HoldsBuffers(q, h, t, g), q # <<>>
  PROVE  /\ q[1][1] \in (h + 1 .. t) \ g /\ (h + 1 .. q[1][1] - 1) \subseteq g
         /\ q[1][1] = q[1][2] => HoldsBuffers(Tail(q), q[1][1], t, g)
         /\ q[1][1] # q[1][2] =>
              HoldsBuffers([q EXCEPT ![1][1] = @ + 1], q[1][1], t, g)
<1> DEFINE k == q[1][1]
           e == q[1][2]
<1>1. q \in Seq(Buffer) /\ Len(q) \in Nat \ {0} /\ 1 \in 1 .. Len(q)
  BY DEF HoldsBuffers
<1>2. ASSUME NEW i \in 1 .. Len(q)
      PROVE  /\ q[i] \in Buffer /\ q[i][1] \in Nat /\ q[i][2] \in Nat
             /\ q[i][1] <= q[i][2] /\ q[i][2] - q[i][1] < MaxSize
             /\ (q[i][1] .. q[i][2]) \subseteq (h + 1 .. t) \ g
             /\ i # 1 => e < q[i][1]
  <2>1. q[i] \in Buffer /\ q[i][1] \in Nat /\ q[i][2] \in Nat
    BY <1>1 DEF Buffer
  <2>2. /\ q[i][1] <= q[i][2] /\ q[i][2] - q[i][1] < MaxSize
        /\ (q[i][1] .. q[i][2]) \subseteq (h + 1 .. t) \ g
    BY DEF HoldsBuffers
  <2>3. ASSUME i # 1 PROVE e < q[i][1]
    <3>1. 1 < i
      BY <2>3
    <3> QED  BY <1>1, <3>1 DEF HoldsBuffers
  <2> QED  BY <2>1, <2>2, <2>3
<1>3. k \in Nat /\ e \in Nat /\ k <= e /\ e - k < MaxSize /\ k \in (h + 1 .. t) \ g
      /\ (k .. e) \subseteq (h + 1 .. t) \ g /\ q[1] = <<k, e>>
  <2>1. k \in Nat /\ e \in Nat /\ k <= e /\ e - k < MaxSize
        /\ (k .. e) \subseteq (h + 1 .. t) \ g
    BY <1>1, <1>2
  <2>2. q[1] = <<k, e>>
    BY <1>1, <1>2 DEF Buffer
  <2> QED  BY <2>1, <2>2
<1>4. ASSUME NEW w \in (h + 1 .. t) \ g
      PROVE  /\ w >= k /\ w \in Nat
             /\ w > e => \E i \in 2 .. Len(q) : w \in q[i][1] .. q[i][2]
  <2>1. PICK i \in 1 .. Len(q) : w \in q[i][1] .. q[i][2]
    BY DEF HoldsBuffers
  <2>2. w \in Nat /\ w >= q[i][1] /\ w <= q[i][2]
    BY <1>2, <2>1
  <2>3. CASE i = 1
    BY <1>3, <2>2, <2>3
  <2>4. CASE i # 1
    <3>1. i \in 2 .. Len(q) /\ q[i][1] \in Nat /\ e < q[i][1]
      BY <1>2, <2>4
    <3> QED  BY <1>3, <2>1, <2>2, <3>1
  <2> QED  BY <2>3, <2>4
<1>5. (h + 1 .. k - 1) \subseteq g
  <2>1. \A w \in h + 1 .. k - 1 : w \in h + 1 .. t /\ ~(w >= k)
    BY <1>3
  <2> QED  BY <1>4, <2>1
<1>6. ASSUME k = e PROVE HoldsBuffers(Tail(q), k, t, g)
  <2> DEFINE r == Tail(q)
  <2>1. /\ r \in Seq(Buffer) /\ Len(r) = Len(q) - 1
        /\ \A i \in 1 .. Len(r) : r[i] = q[i + 1]
    BY <1>1
  <2> HIDE DEF r
  <2>2. \A i \in 1 .. Len(r) : i + 1 \in 1 .. Len(q) /\ i + 1 # 1
    BY <1>1, <2>1
  <2> HIDE DEF k, e
  <2>3. ASSUME NEW i \in 1 .. Len(r)
        PROVE  /\ r[i][1] <= r[i][2] /\ r[i][2] - r[i][1] < MaxSize
               /\ (r[i][1] .. r[i][2]) \subseteq (k + 1 .. t) \ g
    <3>1. /\ r[i][1] \in Nat /\ r[i][2] \in Nat
          /\ r[i][1] <= r[i][2] /\ r[i][2] - r[i][1] < MaxSize
          /\ (r[i][1] .. r[i][2]) \subseteq (h + 1 .. t) \ g /\ e < r[i][1]
      BY <1>2, <2>1, <2>2
    <3>2. \A w \in r[i][1] .. r[i][2] : w \in k + 1 .. t
      BY <1>3, <1>6, <3>1, SMTT(30)
    <3> QED  BY <3>1, <3>2
  <2>4. ASSUME NEW i \in 1 .. Len(r), NEW j \in 1 .. Len(r), i < j PROVE r[i][2] < r[j][1]
    <3>1. i + 1 < j + 1
      BY <2>4
    <3>2. q[i + 1][2] < q[j + 1][1]
      BY <2>2, <3>1 DEF HoldsBuffers
    <3> QED  BY <2>1, <3>2
  <2>5. ASSUME NEW w \in (k + 1 .. t) \ g PROVE \E i \in 1 .. Len(r) : w \in r[i][1] .. r[i][2]
    <3>1. w \in (h + 1 .. t) \ g /\ w > e
      BY <1>3, <1>6
    <3>2. PICK i \in 2 .. Len(q) : w \in q[i][1] .. q[i][2]
      BY <1>4, <3>1
    <3>3. i - 1 \in 1 .. Len(r) /\ i - 1 + 1 = i
      BY <1>1, <2>1
    <3>4. r[i - 1] = q[i]
      BY <2>1, <3>3
    <3> QED  BY <3>2, <3>3, <3>4
  <2>6. HoldsBuffers(r, k, t, g)
    BY <2>1, <2>3, <2>4, <2>5 DEF HoldsBuffers
  <2> QED  BY <2>6 DEF r
<1>7. ASSUME k # e PROVE HoldsBuffers([q EXCEPT ![1][1] = @ + 1], k, t, g)
  <2> DEFINE b == <<k + 1, e>>
             r == [q EXCEPT ![1] = b]
  <2>0. [q EXCEPT ![1][1] = @ + 1] = r
    <3>1. [q[1] EXCEPT ![1] = @ + 1] = b
      BY <1>3
    <3> QED  BY <1>1, <3>1
  <2>1. b \in Buffer /\ b[1] = k + 1 /\ b[2] = e
    BY <1>3 DEF Buffer
  <2> HIDE DEF b
  <2>2. /\ r \in Seq(Buffer) /\ Len(r) = Len(q) /\ r[1] = b
        /\ \A i \in 1 .. Len(q) : i # 1 => r[i] = q[i]
    BY <1>1, <2>1
  <2> HIDE DEF r, k, e
  <2>3. ASSUME NEW i \in 1 .. Len(r)
        PROVE  /\ r[i][1] <= r[i][2] /\ r[i][2] - r[i][1] < MaxSize
               /\ (r[i][1] .. r[i][2]) \subseteq (k + 1 .. t) \ g
    <3>1. CASE i = 1
      <4>1. \A w \in k + 1 .. e : w \in k .. e /\ w \in k + 1 .. t
        <5>1. e \in k .. e
          BY <1>3
        <5>2. e <= t
          BY <1>3, <5>1
        <5> QED  BY <1>3, <5>2
      <4>2. MaxSize \in Nat
        BY StreamAssumption
      <4>3. k + 1 <= e /\ e - (k + 1) < MaxSize
        BY <1>3, <1>7, <4>2
      <4> QED  BY <1>3, <2>1, <2>2, <3>1, <4>1, <4>3
    <3>2. CASE i # 1
      <4>1. /\ r[i][1] \in Nat /\ r[i][2] \in Nat
            /\ r[i][1] <= r[i][2] /\ r[i][2] - r[i][1] < MaxSize
            /\ (r[i][1] .. r[i][2]) \subseteq (h + 1 .. t) \ g /\ e < r[i][1]
        BY <1>2, <2>2, <3>2
      <4>2. \A w \in r[i][1] .. r[i][2] : w \in k + 1 .. t
        BY <1>3, <4>1
      <4> QED  BY <4>1, <4>2
    <3> QED  BY <3>1, <3>2
  <2>4. ASSUME NEW i \in 1 .. Len(r), NEW j \in 1 .. Len(r), i < j PROVE r[i][2] < r[j][1]
    <3>1. i \in 1 .. Len(q) /\ j \in 1 .. Len(q) /\ j # 1
      BY <1>1, <2>2, <2>4
    <3>2. r[i][2] = q[i][2] /\ r[j] = q[j]
      BY <2>1, <2>2, <3>1 DEF e
    <3> QED  BY <2>4, <3>1, <3>2 DEF HoldsBuffers
  <2>5. ASSUME NEW w \in (k + 1 .. t) \ g PROVE \E i \in 1 .. Len(r) : w \in r[i][1] .. r[i][2]
    <3>1. w \in (h + 1 .. t) \ g /\ w >= k + 1 /\ w \in Int
      BY <1>3
    <3>2. CASE w <= e
      <4>1. w \in r[1][1] .. r[1][2] /\ 1 \in 1 .. Len(r)
        BY <1>1, <1>3, <2>1, <2>2, <3>1, <3>2
      <4> QED  BY <4>1
    <3>3. CASE w > e
      <4>1. PICK i \in 2 .. Len(q) : w \in q[i][1] .. q[i][2]
        BY <1>4, <3>1, <3>3
      <4>2. i \in 1 .. Len(r) /\ r[i] = q[i]
        BY <1>1, <2>2
      <4> QED  BY <4>1, <4>2
    <3> QED  BY <1>3, <3>1, <3>2, <3>3
  <2>6. HoldsBuffers(r, k, t, g)
    BY <2>2, <2>3, <2>4, <2>5 DEF HoldsBuffers
  <2> QED  BY <2>0, <2>6
<1> QED  BY <1>3, <1>5, <1>6, <1>7

StreamState == [free: Nat, queue: Seq(Buffer), leaked: Nat, active: BOOLEAN]
StreamInv ==
  /\ dev \in StreamState
  /\ HoldsBuffers(dev.queue, heard, taken, gone)
  /\ dev.free + Len(dev.queue) + dev.leaked = Buffers

LEMMA StreamFields ==
  ASSUME NEW d \in StreamState
  PROVE  /\ \A x \in Nat : [d EXCEPT !.free = x] \in StreamState
         /\ \A x \in Seq(Buffer) : [d EXCEPT !.queue = x] \in StreamState
         /\ \A x \in Nat : [d EXCEPT !.leaked = x] \in StreamState
         /\ \A x \in BOOLEAN : [d EXCEPT !.active = x] \in StreamState
BY DEF StreamState

LEMMA FillIsTake ==
  ASSUME StreamType, StreamInv, NEW requested \in 0 .. MaxSize, Fill(requested)
  PROVE  StreamType' /\ StreamInv' /\ Queue!Next
<1> DEFINE n == Frames(requested)
           b == <<taken + 1, taken + n>>
<1>1. /\ dev \in StreamState /\ dev.queue \in Seq(Buffer) /\ dev.free \in Nat
      /\ dev.leaked \in Nat /\ Len(dev.queue) \in Nat
      /\ dev.free + Len(dev.queue) + dev.leaked = Buffers
      /\ HoldsBuffers(dev.queue, heard, taken, gone)
  BY DEF StreamInv, StreamState
<1>2. /\ left \in Nat /\ taken \in Nat /\ heard \in Nat /\ heard <= taken
      /\ gone \in SUBSET (1 .. taken) /\ MaxSize \in Nat \ {0} /\ Buffers \in Nat
  BY StreamAssumption DEF StreamType
<1>3. /\ left > 0 /\ dev.free > 0 /\ Took(n)
      /\ dev' = [dev EXCEPT !.free = @ - 1, !.queue = Append(@, b)]
  BY DEF Fill
<1>4. n \in 1 .. left /\ n \in 1 .. MaxSize
  BY <1>2, <1>3 DEF Frames
<1> HIDE DEF n
<1>5. StreamType' /\ Queue!Next /\ taken' = taken + n /\ UNCHANGED <<gone, heard>>
  BY <1>3, <1>4, TookIsTake
<1>6. HoldsBuffers(Append(dev.queue, b), heard, taken + n, gone)
  BY <1>1, <1>2, <1>4, BuffersMore
<1>7. b \in Buffer
  BY <1>2, <1>4 DEF Buffer
<1> HIDE DEF b
<1>8. /\ dev' \in StreamState /\ dev'.queue = Append(dev.queue, b)
      /\ dev'.free = dev.free - 1 /\ dev'.leaked = dev.leaked
  <2> DEFINE d1 == [dev EXCEPT !.free = dev.free - 1]
             d2 == [d1 EXCEPT !.queue = Append(dev.queue, b)]
  <2>1. dev.free - 1 \in Nat /\ Append(dev.queue, b) \in Seq(Buffer)
    BY <1>1, <1>3, <1>7
  <2>2. d1 \in StreamState
    BY <1>1, <2>1, StreamFields
  <2>3. dev' = d2
    BY <1>1, <1>3 DEF StreamState
  <2>4. d1.queue = dev.queue /\ d1.free = dev.free - 1 /\ d1.leaked = dev.leaked
    BY <1>1 DEF StreamState
  <2> HIDE DEF d1
  <2>5. d2 \in StreamState /\ d2.queue = Append(dev.queue, b) /\ d2.free = d1.free
        /\ d2.leaked = d1.leaked
    BY <2>1, <2>2, StreamFields DEF StreamState
  <2> QED  BY <2>3, <2>4, <2>5
<1>9. Len(dev'.queue) = Len(dev.queue) + 1
  BY <1>1, <1>7, <1>8
<1>10. StreamInv'
  <2>1. dev'.free + Len(dev'.queue) + dev'.leaked = Buffers
    BY <1>1, <1>8, <1>9
  <2>2. HoldsBuffers(dev'.queue, heard', taken', gone')
    BY <1>5, <1>6, <1>8
  <2> QED  BY <1>8, <2>1, <2>2 DEF StreamInv
<1> QED  BY <1>5, <1>10

LEMMA NoMemoryIsLose ==
  ASSUME StreamType, StreamInv, NoMemory
  PROVE  StreamType' /\ StreamInv' /\ Queue!Next
<1>1. left > 0 /\ dev.free > 0 /\ GiveUp
      /\ dev' = [dev EXCEPT !.free = @ - 1, !.leaked = @ + 1]
  BY DEF NoMemory
<1>2. /\ left' = 0 /\ taken' = taken + left /\ heard' = heard
      /\ gone' = gone \cup (taken + 1 .. taken + left)
      /\ left \in Nat /\ taken \in Nat /\ heard \in Nat /\ heard <= taken
  BY <1>1 DEF GiveUp, StreamType
<1>3. HoldsBuffers(dev.queue, heard', taken', gone')
  BY <1>2, BuffersGone DEF StreamInv
<1>4. /\ dev' \in StreamState /\ dev'.queue = dev.queue
      /\ dev'.free = dev.free - 1 /\ dev'.leaked = dev.leaked + 1
      /\ dev.free \in Nat /\ dev.leaked \in Nat /\ Len(dev.queue) \in Nat
  <2> DEFINE d1 == [dev EXCEPT !.free = dev.free - 1]
             d2 == [d1 EXCEPT !.leaked = dev.leaked + 1]
  <2>1. /\ dev \in StreamState /\ dev.free \in Nat /\ dev.leaked \in Nat
        /\ dev.queue \in Seq(Buffer) /\ Len(dev.queue) \in Nat
    BY DEF StreamInv, StreamState
  <2>2. dev.free - 1 \in Nat /\ dev.leaked + 1 \in Nat
    BY <1>1, <2>1
  <2>3. dev' = d2
    BY <1>1, <2>1 DEF StreamState
  <2>4. /\ d1 \in StreamState /\ d1.queue = dev.queue /\ d1.free = dev.free - 1
        /\ d1.leaked = dev.leaked
    BY <2>1, <2>2, StreamFields DEF StreamState
  <2> HIDE DEF d1
  <2>5. d2 \in StreamState /\ d2.queue = d1.queue /\ d2.free = d1.free
        /\ d2.leaked = dev.leaked + 1
    BY <2>2, <2>4, StreamFields DEF StreamState
  <2> QED  BY <2>1, <2>3, <2>4, <2>5
<1>5. StreamInv'
  <2>1. dev.free + Len(dev.queue) + dev.leaked = Buffers
    BY DEF StreamInv
  <2>2. \A a, b, c \in Nat : a - 1 + b + (c + 1) = a + b + c
    OBVIOUS
  <2>3. dev.free - 1 + Len(dev.queue) + (dev.leaked + 1) = Buffers
    BY <1>4, <2>1, <2>2
  <2>4. dev'.free + Len(dev'.queue) + dev'.leaked = Buffers
    BY <1>4, <2>3
  <2>5. HoldsBuffers(dev'.queue, heard', taken', gone')
    BY <1>3, <1>4
  <2> QED  BY <1>4, <2>4, <2>5 DEF StreamInv
<1> QED  BY <1>1, <1>5, GaveUpType, GiveUpIsLose

LEMMA StreamHears ==
  ASSUME StreamType, StreamInv, StreamSounds
  PROVE  StreamType' /\ StreamInv' /\ Queue!Next
<1> DEFINE q == dev.queue
           k == q[1][1]
<1>1. /\ dev \in StreamState /\ q \in Seq(Buffer) /\ dev.free \in Nat
      /\ dev.leaked \in Nat /\ Len(q) \in Nat
      /\ dev.free + Len(q) + dev.leaked = Buffers
      /\ HoldsBuffers(q, heard, taken, gone) /\ q # <<>>
  BY DEF StreamInv, StreamState, StreamSounds
<1>2. heard \in Nat /\ taken \in Nat
  BY DEF StreamType
<1>3. /\ k \in (heard + 1 .. taken) \ gone /\ (heard + 1 .. k - 1) \subseteq gone
      /\ k = q[1][2] => HoldsBuffers(Tail(q), k, taken, gone)
      /\ k # q[1][2] => HoldsBuffers([q EXCEPT ![1][1] = @ + 1], k, taken, gone)
  BY <1>1, <1>2, BuffersLess
<1>4. /\ Sounds(k)
      /\ dev' = IF k = q[1][2]
                THEN [dev EXCEPT !.queue = Tail(q), !.free = dev.free + 1]
                ELSE [dev EXCEPT !.queue = [q EXCEPT ![1][1] = @ + 1]]
  <2>1. Head(q) = q[1]
    BY <1>1
  <2> QED  BY <1>1, <2>1 DEF StreamSounds, StreamState
<1>5. StreamType' /\ Queue!Next /\ heard' = k /\ UNCHANGED <<taken, gone>>
  BY <1>3, <1>4, SoundsIsHear
<1>6. ASSUME k = q[1][2] PROVE StreamInv'
  <2> DEFINE d1 == [dev EXCEPT !.queue = Tail(q)]
             d2 == [d1 EXCEPT !.free = dev.free + 1]
  <2>1. Tail(q) \in Seq(Buffer) /\ Len(Tail(q)) = Len(q) - 1 /\ dev.free + 1 \in Nat
    BY <1>1
  <2>2. dev' = d2
    BY <1>1, <1>4, <1>6 DEF StreamState
  <2>3. d1 \in StreamState /\ d1.queue = Tail(q) /\ d1.leaked = dev.leaked
    BY <1>1, <2>1, StreamFields DEF StreamState
  <2> HIDE DEF d1
  <2>4. d2 \in StreamState /\ d2.queue = Tail(q) /\ d2.free = dev.free + 1
        /\ d2.leaked = dev.leaked
    BY <2>1, <2>3, StreamFields DEF StreamState
  <2> HIDE DEF d2
  <2>5. dev'.free + Len(dev'.queue) + dev'.leaked = Buffers
    <3>1. \A a, b, c \in Nat : a + 1 + (b - 1) + c = a + b + c
      OBVIOUS
    <3> QED  BY <1>1, <2>1, <2>2, <2>4, <3>1
  <2>6. HoldsBuffers(dev'.queue, heard', taken', gone')
    BY <1>3, <1>5, <1>6, <2>2, <2>4
  <2> HIDE DEF q, k
  <2> QED  BY <2>2, <2>4, <2>5, <2>6 DEF StreamInv
<1>7. ASSUME k # q[1][2] PROVE StreamInv'
  <2> DEFINE r == [q EXCEPT ![1][1] = @ + 1]
  <2>1. HoldsBuffers(r, k, taken, gone) /\ dev' = [dev EXCEPT !.queue = r]
    BY <1>3, <1>4, <1>7
  <2>2. Len(r) = Len(q)
    BY <1>1
  <2> HIDE DEF r
  <2>3. r \in Seq(Buffer)
    BY <2>1 DEF HoldsBuffers
  <2>4. dev' \in StreamState /\ dev'.queue = r /\ dev'.free = dev.free
        /\ dev'.leaked = dev.leaked
    BY <1>1, <2>1, <2>3, StreamFields DEF StreamState
  <2>5. dev'.free + Len(dev'.queue) + dev'.leaked = Buffers
    BY <1>1, <2>2, <2>4
  <2>6. HoldsBuffers(dev'.queue, heard', taken', gone')
    BY <1>5, <2>1, <2>4
  <2> HIDE DEF k
  <2> QED  BY <2>4, <2>5, <2>6 DEF StreamInv
<1> QED  BY <1>5, <1>6, <1>7

LEMMA StreamImplements ==
  ASSUME StreamType, StreamInv, StreamNext, paused \in BOOLEAN
  PROVE  StreamType' /\ StreamInv' /\ (Queue!Next \/ UNCHANGED stream)
<1>1. CASE \E requested \in 0 .. MaxSize : Fill(requested)
  BY <1>1, FillIsTake
<1>2. CASE NoMemory
  BY <1>2, NoMemoryIsLose
<1>3. CASE StreamSounds
  BY <1>3, StreamHears
<1>4. CASE StreamPause
  <2>1. dev' = [dev EXCEPT !.active = paused] /\ UNCHANGED <<left, stream>>
    BY <1>4 DEF StreamPause, TogglePause
  <2>2. /\ dev' \in StreamState /\ dev'.queue = dev.queue /\ dev'.free = dev.free
        /\ dev'.leaked = dev.leaked
    BY <2>1, StreamFields DEF StreamInv, StreamState
  <2> QED  BY <2>1, <2>2 DEF StreamInv, StreamType, stream
<1> QED  BY <1>1, <1>2, <1>3, <1>4 DEF StreamNext

-----------------------------------------------------------------------------
\* plugout_dsound.c: the frame in a position of the ring is the last one that was
\* written there.  The frames up to w have been heard, or their turn is over; those
\* after it lie right before the place where the next frame goes, and unless the
\* device is dry they are all that lies between it and the play cursor.
Positions == 0 .. WriteMax - 1
RingState ==
  [offset : {NoOffset} \cup Positions, found : Positions, cursor : Positions,
   playing : BOOLEAN, pc : {"ask", "first", "copy"}, ring : [Positions -> Nat]]

Back(c, o) == IF c < o THEN o - 1 - c ELSE o - 1 - c + WriteMax
Written(ring, o, t) ==
  \A c \in Positions : ring[c] = IF t > Back(c, o) THEN t - Back(c, o) ELSE 0
\* Equal cursors mean a full ring, but for a plugin that has found room.
Stretch(c, o) == IF Ahead(c, o) = 0 THEN WriteMax ELSE Ahead(c, o)

TurnsOver(w) ==
  /\ w \in heard .. taken
  /\ (heard + 1 .. w) \subseteq gone
  /\ \A k \in gone : k <= w

NewStart == taken = 0 /\ heard = 0 /\ dry /\ \A c \in Positions : dev.ring[c] = 0

Asks(w) ==
  /\ taken - w <= Stretch(dev.cursor, dev.offset)
  /\ ~ dry => taken - w \in {Ahead(dev.cursor, dev.offset), Stretch(dev.cursor, dev.offset)}

Copies(w) ==
  /\ left > 0 /\ Limit \in 1 .. WriteMax
  /\ taken - w <= Ahead(dev.cursor, dev.offset)
  /\ ~ dry => taken - w = Ahead(dev.cursor, dev.offset)
  /\ Ahead(dev.cursor, dev.offset) + Limit <= WriteMax \/ (dry /\ taken = w)

RingAt(w) ==
  /\ dev \in RingState /\ TurnsOver(w)
  /\ dev.offset = NoOffset => dev.pc = "ask" /\ NewStart
  /\ dev.offset # NoOffset => Written(dev.ring, dev.offset, taken)
  /\ dev.offset # NoOffset /\ dev.pc = "ask" => Asks(w)
  /\ dev.pc # "ask" => Copies(w)

RingInv == \E w \in Nat : RingAt(w)

LEMMA AheadFacts ==
  ASSUME NEW c \in Positions, NEW o \in Positions
  PROVE  /\ Ahead(c, o) \in Positions /\ Wrap(c + 1) \in Positions
         /\ Ahead(c, o) = 0 <=> c = o
         /\ c # o => Ahead(Wrap(c + 1), o) = Ahead(c, o) - 1
         /\ c = o => Ahead(Wrap(c + 1), o) = WriteMax - 1
         /\ Back(c, o) = (IF c = o THEN WriteMax ELSE Ahead(c, o)) - 1
         /\ Free(o, c) = IF c = o THEN 0 ELSE WriteMax - Ahead(c, o)
         /\ Stretch(c, o) \in 1 .. WriteMax /\ Back(c, o) = Stretch(c, o) - 1
         /\ Ahead(Wrap(c + 1), o) = Stretch(c, o) - 1
BY RingAssumption DEF Positions, Ahead, Wrap, Back, Free, Stretch

\* n frames more, in one or two parts.
Copied(ring, o, n1, n2, t) ==
  [c \in Positions |-> IF c \in o .. o + n1 - 1 THEN t + 1 + (c - o)
                       ELSE IF c < n2 THEN t + 1 + n1 + c ELSE ring[c]]

LEMMA RingWrites ==
  ASSUME NEW o \in Positions, NEW t \in Nat, NEW n \in 1 .. WriteMax,
         NEW n1, NEW n2,
         n1 = IF n < WriteMax - o THEN n ELSE WriteMax - o, n2 = n - n1,
         NEW ring \in [Positions -> Nat], Written(ring, o, t),
         NEW p, p = IF n2 > 0 THEN n2 ELSE Wrap(o + n1)
  PROVE  /\ p \in Positions
         /\ Copied(ring, o, n1, n2, t) \in [Positions -> Nat]
         /\ Written(Copied(ring, o, n1, n2, t), p, t + n)
         /\ \A c \in Positions : Ahead(c, o) + n <= WriteMax =>
              Ahead(c, o) + n = Stretch(c, p)
         /\ \A c \in Positions : Ahead(c, o) + n > WriteMax =>
              Ahead(c, o) + n - WriteMax = Ahead(c, p) /\ Ahead(c, p) > 0
<1>0. /\ WriteMax \in Nat /\ WriteMax > 0 /\ o \in Nat /\ o < WriteMax
      /\ n1 \in Nat /\ n2 \in Nat
  BY RingAssumption DEF Positions
<1>2. p \in Positions
  BY <1>0 DEF Wrap, Positions
<1> DEFINE r(c) == IF c \in o .. o + n1 - 1 THEN t + 1 + (c - o)
                   ELSE IF c < n2 THEN t + 1 + n1 + c ELSE ring[c]
           u == t + n
<1>3. ASSUME NEW c \in Positions
      PROVE  r(c) = IF u > Back(c, p) THEN u - Back(c, p) ELSE 0
  <2>0. c \in Nat /\ c < WriteMax
    BY <1>0 DEF Positions
  <2>1. CASE c \in o .. o + n1 - 1
    <3>1. Back(c, p) = n - 1 - (c - o)
      BY <1>0, <1>2, <2>0, <2>1 DEF Back, Wrap
    <3> QED  BY <1>0, <2>0, <2>1, <3>1
  <2>2. CASE c \notin o .. o + n1 - 1 /\ c < n2
    <3>1. Back(c, p) = n2 - 1 - c
      BY <1>0, <1>2, <2>0, <2>2 DEF Back, Wrap
    <3> QED  BY <1>0, <2>0, <2>2, <3>1
  <2>3. CASE c \notin o .. o + n1 - 1 /\ ~ (c < n2)
    <3>1. Back(c, p) = Back(c, o) + n /\ Back(c, o) \in Nat
      BY <1>0, <1>2, <2>0, <2>3 DEF Back, Wrap
    <3>2. ring[c] = IF t > Back(c, o) THEN t - Back(c, o) ELSE 0
      BY DEF Written
    <3>3. ring[c] = IF u > Back(c, p) THEN u - Back(c, p) ELSE 0
      <4>1. \A b \in Nat : (t > b <=> t + n > b + n) /\ t - b = t + n - (b + n)
        OBVIOUS
      <4>2. Back(c, o) \in Nat /\ Back(c, p) = Back(c, o) + n
        BY <3>1
      <4> QED  BY <3>2, <4>1, <4>2
    <3>4. r(c) = ring[c]
      BY <2>3
    <3> HIDE DEF r, u
    <3> QED  BY <3>3, <3>4
  <2> QED  BY <2>1, <2>2, <2>3
<1>4. ASSUME NEW c \in Positions PROVE r(c) \in Nat
  BY <1>0 DEF Positions
<1>5. ASSUME NEW c \in Positions, Ahead(c, o) + n <= WriteMax
      PROVE  Ahead(c, o) + n = Stretch(c, p)
  <2>0. c \in Nat /\ c < WriteMax
    BY <1>0 DEF Positions
  <2> QED  BY <1>0, <1>5, <2>0 DEF Ahead, Wrap, Stretch
<1>5a. ASSUME NEW c \in Positions, Ahead(c, o) + n > WriteMax
       PROVE  Ahead(c, o) + n - WriteMax = Ahead(c, p) /\ Ahead(c, p) > 0
  <2>0. c \in Nat /\ c < WriteMax
    BY <1>0 DEF Positions
  <2> QED  BY <1>0, <1>5a, <2>0 DEF Ahead, Wrap
<1>6. Copied(ring, o, n1, n2, t) = [c \in Positions |-> r(c)]
  BY DEF Copied
<1> HIDE DEF r, u
<1>7. Written([c \in Positions |-> r(c)], p, u)
  BY <1>3 DEF Written
<1>8. [c \in Positions |-> r(c)] \in [Positions -> Nat]
  BY <1>4
<1>9. Written(Copied(ring, o, n1, n2, t), p, t + n)
  BY <1>6, <1>7 DEF u
<1> QED  BY <1>2, <1>5, <1>5a, <1>6, <1>8, <1>9

LEMMA RingFields ==
  ASSUME NEW w, RingAt(w)
  PROVE  /\ dev.offset \in Int
         /\ dev.offset # NoOffset => dev.offset \in Positions
         /\ dev.found \in Positions /\ dev.cursor \in Positions /\ dev.playing \in BOOLEAN
         /\ dev.pc \in {"ask", "first", "copy"}
         /\ dev.ring \in [Positions -> Nat] /\ WriteMax \in Nat \ {0} /\ 0 \in Positions
         /\ Lead \in Nat /\ Lead < WriteMax
BY RingAssumption DEF RingAt, RingState, Positions, NoOffset

\* Frames are in their turn, or it is over.
LEMMA TurnsFacts ==
  ASSUME StreamType, NEW w, TurnsOver(w)
  PROVE  /\ w \in Nat /\ w >= heard /\ w <= taken /\ heard \in Nat /\ taken \in Nat
         /\ Unheard = w + 1 .. taken /\ Queue!Waiting = w + 1 .. taken
<1>1. w \in Nat /\ w >= heard /\ w <= taken /\ heard \in Nat /\ taken \in Nat
  BY DEF StreamType, TurnsOver
<1>2. (heard + 1 .. taken) \ gone = w + 1 .. taken
  <2>1. ASSUME NEW k \in (heard + 1 .. taken) \ gone PROVE k \in w + 1 .. taken
    <3>1. k \notin heard + 1 .. w
      BY DEF TurnsOver
    <3> QED  BY <1>1, <3>1
  <2>2. ASSUME NEW k \in w + 1 .. taken PROVE k \in (heard + 1 .. taken) \ gone
    <3>1. ~ (k <= w)
      BY <1>1
    <3> QED  BY <1>1, <3>1 DEF TurnsOver
  <2> QED  BY <2>1, <2>2
<1> QED  BY <1>1, <1>2 DEF Unheard, Queue!Waiting

\* Room was found, and the device only goes on.
LEMMA AskFinds ==
  ASSUME StreamType, NEW w \in Nat, RingAt(w), Ask
  PROVE  StreamType' /\ RingAt(w)' /\ UNCHANGED stream
<1> DEFINE first == dev.offset = NoOffset
           offset == IF first THEN WriteCursor ELSE dev.offset
           next == IF first THEN "first" ELSE "copy"
<1>1. /\ left > 0 /\ dev.pc = "ask" /\ (first \/ Free(offset, dev.cursor) >= 1)
      /\ dev' = [dev EXCEPT !.pc = next, !.offset = offset, !.found = dev.cursor]
      /\ UNCHANGED <<left, taken, gone, heard, dry>>
  BY DEF Ask, stream
<1>2. WriteCursor \in Positions
  BY RingFields DEF WriteCursor, Wrap, Positions
<1>3. offset \in Positions /\ next \in {"first", "copy"}
  <2>1. CASE first
    BY <1>2, <2>1
  <2>2. CASE ~ first
    BY RingFields, <2>2
  <2> QED  BY <2>1, <2>2
<1> HIDE DEF next, offset
<1>4. /\ dev' \in RingState /\ dev'.pc = next /\ dev'.offset = offset
      /\ dev'.found = dev.cursor /\ dev'.cursor = dev.cursor /\ dev'.ring = dev.ring
  BY <1>1, <1>3, RingFields DEF RingAt, RingState
<1>5. /\ taken \in Nat /\ left \in Nat
      /\ offset \in Nat /\ offset < WriteMax /\ dev.cursor \in Nat /\ dev.cursor < WriteMax
      /\ WriteMax \in Nat
  BY <1>3, RingFields DEF StreamType, Positions
<1>6. dev'.pc # "ask" /\ dev'.offset # NoOffset
  BY <1>3, <1>4, <1>5 DEF NoOffset
<1>7. w \in Nat /\ w <= taken /\ TurnsOver(w)' /\ dev.cursor \in Positions
  BY <1>1, TurnsFacts, RingFields DEF RingAt, TurnsOver
<1>8. Written(dev'.ring, dev'.offset, taken') /\ Copies(w)'
  <2>1. CASE first
    <3>1. next = "first" /\ NewStart
      BY <2>1 DEF next, RingAt
    <3>2. Limit' = WriteMax - offset
      BY <1>4, <3>1 DEF Limit
    <3>3. taken = 0 /\ dry /\ (\A c \in Positions : dev.ring[c] = 0) /\ w = 0
      BY <1>7, <3>1 DEF NewStart
    <3>4. Written(dev.ring, offset, taken)
      <4>1. \A c \in Positions : Back(c, offset) \in Nat
        BY <1>5 DEF Back, Positions
      <4> QED  BY <3>3, <4>1 DEF Written
    <3>5. Ahead(dev.cursor, offset) \in Nat
      BY <1>5 DEF Ahead
    <3> QED  BY <1>1, <1>4, <1>5, <3>2, <3>3, <3>4, <3>5 DEF Copies
  <2>2. CASE ~ first
    <3>1. next = "copy" /\ offset = dev.offset /\ Free(offset, dev.cursor) >= 1
      BY <1>1, <2>2 DEF next, offset
    <3>2. Limit' = Free(offset, dev.cursor)
      BY <1>4, <3>1 DEF Limit, Free
    <3>3. /\ Ahead(dev.cursor, offset) \in 1 .. WriteMax
          /\ Stretch(dev.cursor, offset) = Ahead(dev.cursor, offset)
          /\ Free(offset, dev.cursor) = WriteMax - Ahead(dev.cursor, offset)
      <4>1. offset # dev.cursor
        <5>1. offset = dev.cursor => Free(offset, dev.cursor) = 0
          BY <1>5 DEF Free
        <5> QED  BY <3>1, <5>1
      <4>2. Ahead(dev.cursor, offset) \in Positions /\ Ahead(dev.cursor, offset) # 0
            /\ Free(offset, dev.cursor) = WriteMax - Ahead(dev.cursor, offset)
        BY <1>3, <1>7, <4>1, AheadFacts
      <4> QED  BY <1>5, <4>2 DEF Stretch, Positions
    <3>4. Asks(w)
      BY <1>1, <2>2 DEF RingAt
    <3>5. Written(dev.ring, offset, taken)
      BY <2>2, <3>1 DEF RingAt
    <3>6. /\ taken - w <= Ahead(dev.cursor, offset)
          /\ ~ dry => taken - w = Ahead(dev.cursor, offset)
      BY <3>1, <3>3, <3>4 DEF Asks
    <3> QED  BY <1>1, <1>4, <1>5, <3>1, <3>2, <3>3, <3>5, <3>6 DEF Copies
  <2> QED  BY <2>1, <2>2
<1>9. RingAt(w)'
  BY <1>4, <1>6, <1>7, <1>8 DEF RingAt
<1>10. StreamType'
  BY <1>1 DEF StreamType
<1> QED  BY <1>1, <1>9, <1>10 DEF stream

LEMMA CopyIsTake ==
  ASSUME StreamType, NEW w \in Nat, RingAt(w), Copy
  PROVE  StreamType' /\ RingInv' /\ Queue!Next
<1> DEFINE o == dev.offset
           n == IF left < Limit THEN left ELSE Limit
           n1 == IF n < WriteMax - o THEN n ELSE WriteMax - o
           n2 == n - n1
           p == OffsetAfter(n1, n2)
           r == Copied(dev.ring, o, n1, n2, taken)
           ahead == Ahead(dev.cursor, o)
           over == ahead + n > WriteMax
<1>1. /\ dev.pc \in {"first", "copy"} /\ dev.pc # "ask"
      /\ left' = left - n /\ taken' = taken + n
      /\ gone' = gone \cup IF over THEN taken + 1 .. taken + (WriteMax - ahead) ELSE {}
      /\ heard' = heard /\ dry' = dry
      /\ dev' = [dev EXCEPT !.pc = "ask", !.playing = TRUE, !.offset = p, !.ring = r]
  BY DEF Copy, TookBut, Passed, Copied, Positions
<1>2. /\ dev.offset # NoOffset /\ dev.offset \in Positions
      /\ dev.cursor \in Positions /\ dev.ring \in [Positions -> Nat]
      /\ Written(dev.ring, dev.offset, taken)
  <2>1. dev.offset # NoOffset
    BY <1>1 DEF RingAt
  <2> QED  BY <2>1, RingFields DEF RingAt
<1>3. /\ left > 0 /\ Limit \in 1 .. WriteMax /\ taken - w <= ahead
      /\ ~ dry => taken - w = ahead
      /\ ahead + Limit <= WriteMax \/ (dry /\ taken = w)
  BY <1>1 DEF RingAt, Copies
<1>4. ahead \in Nat /\ ahead < WriteMax /\ WriteMax \in Nat /\ TurnsOver(w)
  <2>1. ahead \in Positions
    BY <1>2, AheadFacts
  <2> QED  BY <2>1, RingFields DEF Positions, RingAt
<1>5. /\ w \in Nat /\ heard <= w /\ w <= taken /\ left \in Nat /\ taken \in Nat /\ heard \in Nat
      /\ Queue!Waiting = w + 1 .. taken /\ gone \subseteq 1 .. taken /\ dry \in BOOLEAN
  BY <1>4, TurnsFacts DEF StreamType
<1> HIDE DEF ahead
<1>6. n \in Nat /\ n > 0 /\ n <= left /\ n <= Limit /\ n \in 1 .. WriteMax
  <2>1. /\ Limit \in Nat /\ Limit >= 1 /\ Limit <= WriteMax /\ left \in Nat /\ left > 0
        /\ WriteMax \in Nat
    BY <1>3, <1>4, <1>5
  <2> HIDE DEF ahead, o
  <2> QED  BY <2>1
<1> HIDE DEF n
<1>7. /\ p \in Positions /\ r \in [Positions -> Nat] /\ Written(r, p, taken + n)
      /\ ~ over => ahead + n = Stretch(dev.cursor, p)
      /\ over => ahead + n - WriteMax = Ahead(dev.cursor, p) /\ Ahead(dev.cursor, p) > 0
  <2>1. p = IF n2 > 0 THEN n2 ELSE Wrap(o + n1)
    BY DEF OffsetAfter
  <2> HIDE DEF p
  <2>2. ~ over => ahead + n <= WriteMax
    BY <1>4, <1>6
  <2> QED  BY <1>2, <1>5, <1>6, <2>1, <2>2, RingWrites DEF ahead
<1>8. over => dry /\ taken = w
  BY <1>3, <1>4, <1>5, <1>6
<1>9. Ahead(dev.cursor, p) \in Nat /\ p # NoOffset
  <2>1. Ahead(dev.cursor, p) \in Positions
    BY <1>2, <1>7, AheadFacts
  <2> QED  BY <1>7, <2>1, RingAssumption DEF NoOffset, Positions
<1> HIDE DEF o, p, r, over
<1>10. /\ dev' \in RingState /\ dev'.pc = "ask" /\ dev'.offset = p /\ dev'.ring = r
       /\ dev'.cursor = dev.cursor
  <2> DEFINE d1 == [dev EXCEPT !.pc = "ask", !.playing = TRUE]
             d2 == [d1 EXCEPT !.offset = p]
             d3 == [d2 EXCEPT !.ring = r]
  <2>0. dev \in RingState
    BY DEF RingAt
  <2>1. dev' = d3
    BY <1>1, <2>0 DEF RingState
  <2>2. d1 \in RingState /\ d1.pc = "ask" /\ d1.cursor = dev.cursor
    BY <2>0 DEF RingState
  <2> HIDE DEF d1
  <2>3. d2 \in RingState /\ d2.pc = "ask" /\ d2.cursor = dev.cursor /\ d2.offset = p
    BY <1>7, <2>2 DEF RingState
  <2> HIDE DEF d2
  <2>4. d3 \in RingState /\ d3.pc = "ask" /\ d3.cursor = dev.cursor
        /\ d3.offset = p /\ d3.ring = r
    BY <1>7, <2>3 DEF RingState
  <2> QED  BY <2>1, <2>4
<1>11. CASE ~ over
  <2>1. gone' = gone
    BY <1>1, <1>11
  <2>2. StreamType'
    <3>1. left' \in Nat /\ taken' \in Nat /\ heard' \in Nat /\ heard' <= taken'
      BY <1>1, <1>5, <1>6
    <3>2. gone' \subseteq 1 .. taken'
      BY <1>1, <1>5, <1>6, <2>1
    <3> QED  BY <1>1, <1>5, <3>1, <3>2 DEF StreamType
  <2>3. TurnsOver(w)'
    BY <1>1, <1>4, <1>5, <1>6, <2>1 DEF TurnsOver
  <2>4. Asks(w)'
    <3>1. taken' - w <= Stretch(dev.cursor, p)
      BY <1>1, <1>3, <1>4, <1>5, <1>6, <1>7, <1>11
    <3>2. ~ dry => taken' - w = Stretch(dev.cursor, p)
      BY <1>1, <1>3, <1>4, <1>5, <1>6, <1>7, <1>11
    <3> QED  BY <1>1, <1>10, <3>1, <3>2 DEF Asks
  <2>5. RingAt(w)'
    BY <1>1, <1>7, <1>9, <1>10, <2>3, <2>4 DEF RingAt
  <2>6. Queue!Take
    BY <1>1, <1>5, <1>6, <2>1 DEF Queue!Take
  <2> QED  BY <2>2, <2>5, <2>6 DEF RingInv, Queue!Next
<1>12. CASE over
  <2>0. PICK v \in Nat : v = taken + (WriteMax - ahead)
    BY <1>4, <1>5
  <2>1. /\ v = taken + (WriteMax - ahead) /\ v \in Nat /\ v > taken /\ v < taken'
        /\ gone' = gone \cup (taken + 1 .. v)
    BY <1>1, <1>4, <1>5, <1>6, <1>12, <2>0 DEF over
  <2>2. dry /\ taken = w
    BY <1>8, <1>12
  <2>3. taken' - v = Ahead(dev.cursor, p)
    BY <1>1, <1>4, <1>5, <1>6, <1>7, <1>12, <2>1
  <2>4. StreamType'
    <3>1. left' \in Nat /\ taken' \in Nat /\ heard' \in Nat /\ heard' <= taken'
      BY <1>1, <1>5, <1>6
    <3>2. gone' \subseteq 1 .. taken'
      BY <1>1, <1>5, <1>6, <2>1
    <3> QED  BY <1>1, <1>5, <3>1, <3>2 DEF StreamType
  <2>5. TurnsOver(v)'
    <3>1. v \in heard' .. taken'
      BY <1>1, <1>5, <1>6, <2>1
    <3>2. (heard' + 1 .. v) \subseteq gone'
      <4>1. ASSUME NEW k \in heard + 1 .. v PROVE k \in gone'
        <5>1. CASE k <= w
          BY <1>4, <1>5, <2>1, <4>1, <5>1 DEF TurnsOver
        <5>2. CASE k > w
          BY <1>5, <2>1, <2>2, <4>1, <5>2
        <5> QED  BY <1>5, <4>1, <5>1, <5>2
      <4> QED  BY <1>1, <4>1
    <3>3. \A k \in gone' : k <= v
      <4>1. \A k \in gone : k <= v
        BY <1>5, <2>1
      <4> QED  BY <1>5, <2>1, <4>1
    <3> QED  BY <3>1, <3>2, <3>3 DEF TurnsOver
  <2>6. Asks(v)'
    <3>1. taken' - v <= Stretch(dev.cursor, p)
      BY <1>7, <1>9, <1>12, <2>3 DEF Stretch
    <3> QED  BY <1>1, <1>10, <2>2, <3>1 DEF Asks
  <2>7. RingAt(v)'
    BY <1>1, <1>7, <1>9, <1>10, <2>5, <2>6 DEF RingAt
  <2>8. Queue!Miss
    <3>1. Queue!Waiting = {}
      BY <1>5, <2>2
    <3>2. v \in taken + 1 .. taken' - 1
      BY <1>1, <1>5, <1>6, <2>1
    <3> QED  BY <1>1, <1>5, <1>6, <2>1, <2>2, <3>1, <3>2 DEF Queue!Miss
  <2> QED  BY <2>1, <2>4, <2>7, <2>8 DEF RingInv, Queue!Next
<1> QED  BY <1>11, <1>12

\* The frame under the cursor is the next that waits, or an old one.
LEMMA RingHears ==
  ASSUME StreamType, NEW w \in Nat, RingAt(w), RingSounds
  PROVE  StreamType' /\ RingInv' /\ (Queue!Next \/ UNCHANGED stream)
<1> DEFINE o == dev.offset
           c == dev.cursor
           k == dev.ring[c]
           d == Stretch(c, o)
<1>1. Sounds(k) /\ UNCHANGED <<left, taken, gone>> /\ dev' = [dev EXCEPT !.cursor = Wrap(c + 1)]
  BY DEF RingSounds, Sounds
<1>2. /\ c \in Positions /\ WriteMax \in Nat \ {0} /\ k \in Nat /\ left \in Nat
      /\ w \in Nat /\ heard <= w /\ w <= taken /\ taken \in Nat /\ heard \in Nat
      /\ Unheard = w + 1 .. taken /\ Queue!Waiting = w + 1 .. taken
      /\ gone \subseteq 1 .. taken /\ dry \in BOOLEAN /\ TurnsOver(w)
  BY RingFields, TurnsFacts DEF StreamType, RingAt
<1>3. /\ dev' \in RingState /\ dev'.cursor = Wrap(c + 1) /\ dev'.pc = dev.pc
      /\ dev'.offset = o /\ dev'.found = dev.found /\ dev'.ring = dev.ring
  <2>1. Wrap(c + 1) \in Positions
    BY <1>2, AheadFacts
  <2> QED  BY <1>1, <2>1 DEF RingAt, RingState
<1>4. Limit' = Limit
  BY <1>3 DEF Limit, Free
<1>5. k \notin Unheard => heard' = heard /\ dry' = TRUE /\ StreamType' /\ TurnsOver(w)'
  BY <1>1, <1>2 DEF Sounds, StreamType, TurnsOver
<1>6. CASE o = NoOffset
  <2>1. k = 0 /\ NewStart /\ dev.pc = "ask" /\ dry
    BY <1>2, <1>6 DEF RingAt, NewStart
  <2>2. k \notin Unheard
    BY <1>2, <2>1
  <2>3. UNCHANGED stream
    BY <1>1, <1>2, <1>5, <2>1, <2>2 DEF stream
  <2>4. RingAt(w)'
    BY <1>1, <1>3, <1>5, <1>6, <2>1, <2>2 DEF RingAt, NewStart
  <2> QED  BY <1>5, <2>2, <2>3, <2>4 DEF RingInv
<1>7. CASE o # NoOffset
  <2>1. o \in Positions
    BY <1>7, RingFields
  <2>2. /\ Ahead(c, o) \in Nat /\ Ahead(c, o) < WriteMax
        /\ d \in Nat /\ d > 0 /\ d <= WriteMax
        /\ Ahead(Wrap(c + 1), o) = d - 1 /\ Back(c, o) = d - 1
        /\ d = IF Ahead(c, o) = 0 THEN WriteMax ELSE Ahead(c, o)
    <3>1. /\ Ahead(c, o) \in Positions /\ Stretch(c, o) \in 1 .. WriteMax
          /\ Back(c, o) = Stretch(c, o) - 1 /\ Ahead(Wrap(c + 1), o) = Stretch(c, o) - 1
      BY <1>2, <2>1, AheadFacts
    <3>2. d = IF Ahead(c, o) = 0 THEN WriteMax ELSE Ahead(c, o)
      BY DEF Stretch
    <3> HIDE DEF c, o
    <3> QED  BY <1>2, <3>1, <3>2 DEF Positions
  <2>3. k = IF taken > d - 1 THEN taken - (d - 1) ELSE 0
    BY <1>2, <1>7, <2>2 DEF RingAt, Written
  <2>4. Written(dev'.ring, dev'.offset, taken')
    BY <1>1, <1>3, <1>7 DEF RingAt
  <2>5. taken - w <= d
    BY <1>2, <1>7, <2>2 DEF RingAt, Asks, Copies
  <2>6. Stretch(Wrap(c + 1), o) = IF d - 1 = 0 THEN WriteMax ELSE d - 1
    BY <2>2 DEF Stretch
  <2> HIDE DEF d, k
  <2>7. CASE k \in Unheard
    <3>1. k = w + 1 /\ taken - w = d
      BY <1>2, <2>2, <2>3, <2>5, <2>7
    <3>2. k \in (heard + 1 .. taken) \ gone /\ (heard + 1 .. k - 1) \subseteq gone
      BY <1>2, <2>7, <3>1 DEF Unheard, TurnsOver
    <3>3. StreamType' /\ Queue!Next /\ heard' = k /\ ~ dry'
      BY <1>1, <3>2, SoundsIsHear
    <3>4. TurnsOver(w + 1)'
      <4>1. w + 1 \in heard' .. taken' /\ (heard' + 1 .. w + 1) \subseteq gone'
        BY <1>1, <1>2, <3>1, <3>2, <3>3
      <4>2. \A g \in gone' : g <= w + 1
        <5>1. \A g \in gone : g <= w /\ g \in Nat
          BY <1>2 DEF TurnsOver
        <5> QED  BY <1>1, <1>2, <3>1, <5>1
      <4> QED  BY <4>1, <4>2 DEF TurnsOver
    <3>5. dev.pc = "ask" => Asks(w + 1)'
      <4>1. taken' - (w + 1) = d - 1
        BY <1>1, <1>2, <2>2, <3>1
      <4>2. d - 1 <= Stretch(Wrap(c + 1), o)
        BY <1>2, <2>2, <2>6
      <4> QED  BY <1>3, <2>2, <4>1, <4>2 DEF Asks
    <3>6. dev.pc # "ask" => Copies(w + 1)'
      <4>1. SUFFICES ASSUME dev.pc # "ask" PROVE Copies(w + 1)'
        OBVIOUS
      <4>2. Copies(w)
        BY <4>1 DEF RingAt
      <4>3. Ahead(c, o) = d /\ Ahead(c, o) + Limit <= WriteMax /\ Limit \in 1 .. WriteMax
            /\ left > 0
        BY <1>2, <2>2, <3>1, <4>2 DEF Copies
      <4>4. taken' - (w + 1) = d - 1 /\ d - 1 + Limit <= WriteMax
        BY <1>1, <1>2, <2>2, <3>1, <4>3
      <4> QED  BY <1>1, <1>3, <1>4, <2>2, <4>3, <4>4 DEF Copies
    <3>7. RingAt(w + 1)'
      BY <1>3, <1>7, <2>4, <3>4, <3>5, <3>6 DEF RingAt
    <3> QED  BY <1>2, <3>1, <3>3, <3>7 DEF RingInv
  <2>8. CASE k \notin Unheard
    <3>1. taken - w < d
      BY <1>2, <2>2, <2>3, <2>5, <2>8
    <3>2. dry \/ taken = w
      <4>1. CASE dev.pc = "ask"
        <5>1. Asks(w)
          BY <1>7, <4>1 DEF RingAt
        <5>2. ~ dry => taken - w = Ahead(c, o) \/ taken - w = d
          BY <5>1 DEF Asks, d
        <5> QED  BY <1>2, <2>2, <3>1, <5>2
      <4>2. CASE dev.pc # "ask"
        <5>1. ~ dry => taken - w = Ahead(c, o)
          BY <4>2 DEF RingAt, Copies
        <5> QED  BY <1>2, <2>2, <3>1, <5>1
      <4> QED  BY <4>1, <4>2
    <3>3. Queue!Next \/ UNCHANGED stream
      <4>1. CASE dry
        BY <1>1, <1>2, <1>5, <2>8, <4>1 DEF stream
      <4>2. CASE taken = w
        <5>1. Queue!Waiting = {}
          BY <1>2, <4>2
        <5>2. Queue!RunDry
          BY <1>1, <1>5, <2>8, <5>1 DEF Queue!RunDry
        <5> QED  BY <5>2 DEF Queue!Next
      <4> QED  BY <3>2, <4>1, <4>2
    <3>4. dev.pc = "ask" => Asks(w)'
      <4>1. taken' - w <= Stretch(Wrap(c + 1), o)
        BY <1>1, <1>2, <2>2, <2>6, <3>1
      <4> QED  BY <1>3, <1>5, <2>8, <4>1 DEF Asks
    <3>5. dev.pc # "ask" => Copies(w)'
      <4>1. SUFFICES ASSUME dev.pc # "ask" PROVE Copies(w)'
        OBVIOUS
      <4>2. /\ left > 0 /\ Limit \in 1 .. WriteMax /\ taken - w <= Ahead(c, o)
            /\ Ahead(c, o) + Limit <= WriteMax \/ taken = w
        BY <4>1 DEF RingAt, Copies
      <4>3. d - 1 + Limit <= WriteMax \/ taken = w
        BY <1>2, <2>2, <4>2
      <4>4. taken' - w <= d - 1
        BY <1>1, <1>2, <2>2, <3>1
      <4> QED  BY <1>1, <1>3, <1>4, <1>5, <2>2, <2>8, <4>2, <4>3, <4>4 DEF Copies
    <3>6. RingAt(w)'
      BY <1>3, <1>5, <1>7, <2>4, <2>8, <3>4, <3>5 DEF RingAt
    <3> QED  BY <1>5, <2>8, <3>3, <3>6 DEF RingInv
  <2> QED  BY <2>7, <2>8
<1> QED  BY <1>6, <1>7

LEMMA NewRingFacts ==
  /\ NewRing \in RingState /\ NewRing.offset = NoOffset /\ NewRing.pc = "ask"
  /\ \A c \in Positions : NewRing.ring[c] = 0
<1>1. /\ 0 \in Positions /\ NoOffset \in {NoOffset} \cup Positions
      /\ [c \in 0 .. WriteMax - 1 |-> 0] \in [Positions -> Nat]
  BY RingAssumption DEF Positions
<1>2. NewRing \in RingState
  BY <1>1 DEF NewRing, RingState
<1>3. /\ NewRing.offset = NoOffset /\ NewRing.pc = "ask"
      /\ NewRing.ring = [c \in 0 .. WriteMax - 1 |-> 0]
  BY DEF NewRing
<1> QED  BY <1>2, <1>3 DEF Positions

LEMMA NewRingStarts ==
  ASSUME dev' = NewRing, taken' = 0, gone' = {}, heard' = 0, dry' = TRUE
  PROVE  RingInv'
<1>1. dev' \in RingState /\ dev'.offset = NoOffset /\ dev'.pc = "ask" /\ NewStart'
  BY NewRingFacts DEF NewStart
<1>2. TurnsOver(0)'
  BY DEF TurnsOver
<1>3. RingAt(0)'
  BY <1>1, <1>2 DEF RingAt
<1> QED  BY <1>3 DEF RingInv

LEMMA RingImplements ==
  ASSUME StreamType, RingInv, paused \in BOOLEAN, RingNext
  PROVE  StreamType' /\ RingInv' /\ (Queue!Next \/ UNCHANGED stream)
<1>1. PICK w \in Nat : RingAt(w)
  BY DEF RingInv
<1>2. CASE Ask
  BY <1>1, <1>2, AskFinds DEF RingInv
<1>3. CASE Copy
  BY <1>1, <1>3, CopyIsTake
<1>4. CASE RingSounds
  BY <1>1, <1>4, RingHears
<1>5. CASE RingSkip
  <2>1. /\ left = 0 /\ left' = left /\ dev' = NewRing
        /\ taken' = 0 /\ gone' = {} /\ heard' = 0 /\ dry' = TRUE
    BY <1>5 DEF RingSkip
  <2>2. StreamType' /\ RingInv'
    BY <2>1, NewRingStarts DEF StreamType
  <2>3. Queue!Next
    BY <2>1 DEF Queue!Next, Queue!Restart
  <2> QED  BY <2>2, <2>3
<1>6. CASE RingPause
  <2>1. /\ left = 0 /\ dev' = [dev EXCEPT !.playing = paused]
        /\ UNCHANGED <<left, taken, gone, heard, dry>>
    BY <1>6 DEF RingPause, TogglePause, stream
  <2>2. /\ dev' \in RingState /\ dev'.offset = dev.offset /\ dev'.pc = dev.pc
        /\ dev'.cursor = dev.cursor /\ dev'.ring = dev.ring
    BY <1>1, <2>1 DEF RingAt, RingState
  <2>3. dev.pc = "ask"
    BY <1>1, <2>1 DEF RingAt, Copies
  <2>4. RingAt(w)'
    BY <1>1, <2>1, <2>2, <2>3 DEF RingAt, TurnsOver, NewStart, Asks
  <2>5. StreamType'
    BY <2>1 DEF StreamType
  <2> QED  BY <1>1, <2>1, <2>4, <2>5 DEF stream, RingInv
<1> QED  BY <1>2, <1>3, <1>4, <1>5, <1>6 DEF RingNext

-----------------------------------------------------------------------------
OutInv ==
  /\ paused \in BOOLEAN
  /\ driver = "dsound" => StreamType /\ RingInv
  /\ driver = "pipewire" => StreamType /\ StreamInv
  /\ driver \notin {"dsound", "pipewire"} => StreamType /\ DeviceInv

LEMMA OutInvInit == OutputInit => OutInv
<1> SUFFICES ASSUME OutputInit PROVE OutInv
  OBVIOUS
<1>1. left = 0 /\ taken = 0 /\ gone = {} /\ heard = 0 /\ dry = TRUE /\ paused \in BOOLEAN
  BY DEF OutputInit
<1>1a. StreamType
  BY <1>1 DEF StreamType
<1>2. CASE driver = "dsound"
  <2>1. dev = NewRing
    BY <1>2 DEF OutputInit
  <2>2. RingAt(0)
    <3>1. TurnsOver(0) /\ NewStart
      BY <1>1, <2>1, NewRingFacts DEF TurnsOver, NewStart
    <3> QED  BY <2>1, <3>1, NewRingFacts DEF RingAt
  <2> QED  BY <1>1, <1>1a, <1>2, <2>2 DEF OutInv, RingInv
<1>3. CASE driver = "pipewire"
  <2>1. dev = NewStream
    BY <1>3 DEF OutputInit
  <2>2. StreamInv
    <3>1. /\ NewStream \in StreamState /\ NewStream.queue = <<>>
          /\ NewStream.free = Buffers /\ NewStream.leaked = 0
      BY StreamAssumption DEF NewStream, StreamState
    <3>2. HoldsBuffers(<<>>, 0, 0, {})
      BY DEF HoldsBuffers
    <3>3. Buffers + Len(<<>>) + 0 = Buffers
      BY StreamAssumption
    <3> QED  BY <1>1, <2>1, <3>1, <3>2, <3>3 DEF StreamInv
  <2> QED  BY <1>1, <1>1a, <1>3, <2>2 DEF OutInv
<1>4. CASE driver \notin {"dsound", "pipewire"}
  <2>1. dev = NewDevice
    BY <1>4 DEF OutputInit
  <2>2. DeviceInv
    <3>1. NewDevice \in DeviceType /\ NewDevice.queue = <<>>
      BY DEF NewDevice, DeviceType
    <3>2. Holds(<<>>, 0, 0, {})
      BY DEF Holds
    <3> QED  BY <1>1, <2>1, <3>1, <3>2 DEF DeviceInv
  <2> QED  BY <1>1, <1>1a, <1>4, <2>2 DEF OutInv
<1> QED  BY <1>2, <1>3, <1>4

LEMMA DriverStays ==
  ASSUME paused \in BOOLEAN, OutputNext
  PROVE  driver' = driver /\ paused' \in BOOLEAN
<1>1. ASSUME NEW n \in Blocks, WriteBlock(n) PROVE driver' = driver /\ paused' \in BOOLEAN
  BY <1>1 DEF WriteBlock
<1>2. ASSUME RingNext PROVE driver' = driver /\ paused' \in BOOLEAN
  BY <1>2 DEF RingNext, Ask, Copy, RingSounds, RingSkip, RingPause, TookBut, Sounds,
              TogglePause
<1>3. ASSUME StreamNext PROVE driver' = driver /\ paused' \in BOOLEAN
  BY <1>3 DEF StreamNext, Fill, NoMemory, StreamSounds, StreamPause, Took, TookBut, GiveUp,
              Sounds, TogglePause
<1>4. ASSUME DeviceNext PROVE driver' = driver /\ paused' \in BOOLEAN
  BY <1>4 DEF DeviceNext, DeviceSounds, DevicePause, BlockingWrite, ShortWrite, Disturbed,
              Prepare, Resume, NasWrite, SdlWrite, Error, Transfer, Took, TookBut,
              GiveUp, Sounds, TogglePause
<1> QED  BY <1>1, <1>2, <1>3, <1>4 DEF OutputNext

LEMMA OutInvNext ==
  ASSUME OutInv, OutputNext
  PROVE  OutInv' /\ (Queue!Next \/ UNCHANGED stream)
<1>1. driver' = driver /\ paused' \in BOOLEAN /\ paused \in BOOLEAN
  BY DriverStays DEF OutInv
<1>2. ASSUME NEW n \in Blocks, WriteBlock(n)
      PROVE  OutInv' /\ UNCHANGED stream
  <2>1. left = 0 /\ left' = n /\ UNCHANGED <<taken, gone, heard, dry, dev>> /\ UNCHANGED stream
    BY <1>2 DEF WriteBlock, stream
  <2>2. n \in Nat /\ n > 0
    BY OutputAssumption
  <2>3. StreamType => StreamType'
    BY <2>1, <2>2 DEF StreamType
  <2>4. RingInv => RingInv'
    <3>1. ASSUME NEW w \in Nat, RingAt(w) PROVE RingAt(w)'
      <4>1. dev.pc = "ask"
        BY <2>1, <3>1 DEF RingAt, Copies
      <4> QED  BY <2>1, <3>1, <4>1 DEF RingAt, TurnsOver, NewStart, Asks
    <3> QED  BY <3>1 DEF RingInv
  <2>5. StreamInv => StreamInv'
    BY <2>1 DEF StreamInv
  <2>6. DeviceInv => DeviceInv'
    BY <2>1 DEF DeviceInv
  <2> QED  BY <1>1, <2>1, <2>3, <2>4, <2>5, <2>6 DEF OutInv
<1>3. CASE driver = "dsound" /\ RingNext
  <2>1. StreamType' /\ RingInv' /\ (Queue!Next \/ UNCHANGED stream)
    BY <1>1, <1>3, RingImplements DEF OutInv
  <2> QED  BY <1>1, <1>3, <2>1 DEF OutInv
<1>4. CASE driver = "pipewire" /\ StreamNext
  <2>1. StreamType' /\ StreamInv' /\ (Queue!Next \/ UNCHANGED stream)
    BY <1>1, <1>4, StreamImplements DEF OutInv
  <2> QED  BY <1>1, <1>4, <2>1 DEF OutInv
<1>5. CASE driver \notin {"dsound", "pipewire"} /\ DeviceNext
  <2>1. StreamType' /\ DeviceInv' /\ (Queue!Next \/ UNCHANGED stream)
    BY <1>1, <1>5, DeviceImplements DEF OutInv
  <2> QED  BY <1>1, <1>5, <2>1 DEF OutInv
<1> QED  BY <1>2, <1>3, <1>4, <1>5 DEF OutputNext

\* Whatever the sizes of blocks, buffers and devices, whatever errors occur, and
\* whenever the player pauses or begins another subsong: the frames of each output
\* plugin are heard in their order, each once, without a gap but for those that
\* were given up.  Old frames come again only in a ring of plugout_dsound.c that has
\* run dry, until it is in step again, and it misses only frames whose places it has
\* passed by then.
THEOREM OutputImplementsQueue == OutputSpec => PlaysInOrder
<1>0. OutputInit => Queue!Init
  BY DEF OutputInit, Queue!Init
<1>1. OutputInit => OutInv
  BY OutInvInit
<1>2. OutInv /\ [OutputNext]_outputVars => OutInv' /\ [Queue!Next]_stream
  <2> SUFFICES ASSUME OutInv, [OutputNext]_outputVars
               PROVE  OutInv' /\ [Queue!Next]_stream
    OBVIOUS
  <2>1. CASE OutputNext
    BY <2>1, OutInvNext
  <2>2. CASE UNCHANGED outputVars
    <3>1. UNCHANGED <<driver, left, taken, gone, heard, dry, paused, dev>> /\ UNCHANGED stream
      BY <2>2 DEF outputVars, stream
    <3>2. OutInv'
      BY <3>1 DEF OutInv, StreamType, StreamInv, DeviceInv, RingInv, RingAt, TurnsOver, NewStart,
                  Asks, Copies, Limit, Free
    <3> QED  BY <3>1, <3>2
  <2> QED  BY <2>1, <2>2
<1> QED  BY <1>0, <1>1, <1>2, PTL DEF OutputSpec, PlaysInOrder

\* The program plays with the plugin that was chosen: what holds of the output
\* plugins by themselves holds of those that the program runs.
THEOREM PluginsPlayInOrder == PluginSpec => OutputSpec /\ PlaysInOrder
<1>1. PluginInit => OutputInit
  BY DEF PluginInit
<1>2. [PluginNext]_pluginVars => [OutputNext]_outputVars
  BY DEF PluginNext, pluginVars
<1>3. PluginSpec => OutputSpec
  BY <1>1, <1>2, PTL DEF PluginSpec, OutputSpec
<1> QED  BY <1>3, OutputImplementsQueue, PTL

-----------------------------------------------------------------------------
\* Recordings.  What the waits in a sequence of commands add up to.
Waits == {"short", "long", "cycles"}

LEMMA PassingType == Passing \in [Int \X Command -> Int]
<1>1. ASSUME NEW t \in Int, NEW c \in Command PROVE t + c.n \in Int
  BY DEF Command
<1> QED  BY <1>1 DEF Passing

LEMMA PassingOf ==
  ASSUME NEW t \in Int, NEW c \in Command
  PROVE  Passing[<<t, c>>] = IF c.op \in Waits THEN t + c.n ELSE t
BY DEF Passing, Waits

LEMMA PassingBy ==
  ASSUME NEW base \in Int, NEW w \in Seq(Command), NEW g \in [0 .. Len(w) -> Int],
         g[0] = base, \A i \in 1 .. Len(w) : g[i] = Passing[<<g[i - 1], w[i]>>]
  PROVE  Accumulated(Passing, base, w) = g[Len(w)]
<1>1. Follows(g, Passing, base, w)
  BY DEF Follows
<1>2. ComesTo(Passing, base, w, g[Len(w)])
  BY <1>1, PassingType, AccumulatedBy
<1> QED  BY <1>2 DEF ComesTo

LEMMA NothingPasses ==
  ASSUME NEW base \in Int, NEW w \in Seq(Command),
         \A i \in 1 .. Len(w) : w[i].op \in Waits => w[i].n = 0
  PROVE  Accumulated(Passing, base, w) = base
<1> DEFINE g == [i \in 0 .. Len(w) |-> base]
<1>1. Len(w) \in Nat /\ g \in [0 .. Len(w) -> Int] /\ g[0] = base /\ g[Len(w)] = base
  OBVIOUS
<1>2. ASSUME NEW i \in 1 .. Len(w) PROVE g[i] = Passing[<<g[i - 1], w[i]>>]
  <2>1. g[i] = base /\ g[i - 1] = base /\ w[i] \in Command
    OBVIOUS
  <2>2. Passing[<<base, w[i]>>] = IF w[i].op \in Waits THEN base + w[i].n ELSE base
    BY <2>1, PassingOf
  <2> QED  BY <2>1, <2>2, SMTT(30)
<1> HIDE DEF g
<1>3. Accumulated(Passing, base, w) = g[Len(w)]
  BY <1>1, <1>2, PassingBy
<1> QED  BY <1>1, <1>3

\* One line of the dump passes the cycles that it tells.
LEMMA LinePasses ==
  ASSUME NEW base \in Int, NEW gap \in Int, NEW reg \in Int
  PROVE  Accumulated(Passing, base, Line(gap, reg)) = base + gap
<1> DEFINE w == Line(gap, reg)
           g == [i \in 0 .. 2 |-> IF i = 0 THEN base ELSE base + gap]
<1>1. /\ w \in Seq(Command) /\ Len(w) = 2
      /\ w[1] \in Command /\ w[1].op = "cycles" /\ w[1].n = gap
      /\ w[2] \in Command /\ w[2].op = "write" /\ base + gap \in Int
  BY DEF Line, Command
<1> HIDE DEF w
<1>2. Passing[<<base, w[1]>>] = base + gap /\ Passing[<<base + gap, w[2]>>] = base + gap
  BY <1>1, PassingOf DEF Waits
<1>3. /\ g \in [0 .. Len(w) -> Int] /\ g[0] = base /\ g[1] = base + gap /\ g[2] = base + gap
  BY <1>1
<1> HIDE DEF g
<1>4. \A i \in 1 .. Len(w) : g[i] = Passing[<<g[i - 1], w[i]>>]
  <2> SUFFICES ASSUME NEW i \in 1 .. Len(w) PROVE g[i] = Passing[<<g[i - 1], w[i]>>]
    OBVIOUS
  <2>1. i = 1 \/ i = 2
    BY <1>1
  <2>2. CASE i = 1
    BY <1>2, <1>3, <2>2
  <2>3. CASE i = 2
    BY <1>2, <1>3, <2>3
  <2> QED  BY <2>1, <2>2, <2>3
<1>5. Accumulated(Passing, base, w) = g[Len(w)]
  BY <1>1, <1>3, <1>4, PassingBy
<1> QED  BY <1>1, <1>3, <1>5 DEF w

\* The chunks of a wait add up to it, also the last one.
LEMMA WaitsOfPass ==
  ASSUME NEW base \in Int, NEW n \in Nat
  PROVE  WaitsOf(n) \in Seq(Command) /\ Accumulated(Passing, base, WaitsOf(n)) = base + n
<1> DEFINE w == WaitsOf(n)
           l == (n + WaitMax - 1) \div WaitMax
           g == [i \in 0 .. l |-> base + Upto(WaitMax, n, i)]
<1>1. WaitMax \in Nat \ {0} /\ ShortMax \in Nat
  BY RecorderAssumption
<1>2. /\ l \in Nat /\ Upto(WaitMax, n, 0) = 0 /\ Upto(WaitMax, n, l) = n
      /\ \A i \in 0 .. l : Upto(WaitMax, n, i) \in Nat
      /\ \A i \in 1 .. l :
           /\ Part(WaitMax, n, i) \in 1 .. WaitMax
           /\ Upto(WaitMax, n, i) = Upto(WaitMax, n, i - 1) + Part(WaitMax, n, i)
  BY <1>1, PartsAddUp
<1>3. w = [i \in 1 .. l |-> Wait(Part(WaitMax, n, i))]
  BY DEF WaitsOf, Part
<1> HIDE DEF l
<1>4. ASSUME NEW c \in Nat
      PROVE  Wait(c) \in Command /\ Wait(c).op \in Waits /\ Wait(c).n = c
  BY DEF Wait, Waits, Command
<1>5. ASSUME NEW i \in 1 .. l PROVE Part(WaitMax, n, i) \in Nat
  BY <1>1, <1>2
<1>6. w \in Seq(Command) /\ Len(w) = l /\ \A i \in 1 .. l : w[i] = Wait(Part(WaitMax, n, i))
  BY <1>2, <1>3, <1>4, <1>5
<1>7. g \in [0 .. Len(w) -> Int] /\ g[0] = base /\ g[l] = base + n
  BY <1>2, <1>6
<1>8. ASSUME NEW i \in 1 .. Len(w) PROVE g[i] = Passing[<<g[i - 1], w[i]>>]
  <2>1. i \in 1 .. l /\ i \in 0 .. l /\ i - 1 \in 0 .. l
    BY <1>2, <1>6
  <2>2. g[i] = g[i - 1] + Part(WaitMax, n, i) /\ g[i - 1] \in Int
    BY <1>2, <1>5, <2>1
  <2>3. w[i] = Wait(Part(WaitMax, n, i)) /\ Part(WaitMax, n, i) \in Nat
    BY <1>5, <1>6, <2>1
  <2> HIDE DEF g, w
  <2> QED  BY <1>4, <2>2, <2>3, PassingOf
<1> HIDE DEF g, w
<1>9. Accumulated(Passing, base, w) = g[Len(w)]
  BY <1>6, <1>7, <1>8, PassingBy
<1> QED  BY <1>6, <1>7, <1>9 DEF w

-----------------------------------------------------------------------------
\* Where the recording of a subsong has come to.
RecType ==
  /\ format \in Formats /\ now \in Nat /\ last \in Nat /\ waited \in Int
  /\ file \in [open : BOOLEAN, blocks : Nat] /\ header \in Nat \cup {NoHeader}
  /\ vgm \in [total : Nat, prev : Nat, acc : Nat]

RecInv ==
  /\ RecType
  /\ family # "recording" => life = "opened" /\ header = NoHeader
  /\ life = "opened" => ~ file.open
  /\ life = "playing" /\ format # "iodumper" => file.open
  /\ life = "playing" /\ format = "vgm" =>
       /\ vgm.total = now * Num /\ vgm.prev = now * Num
       /\ Den * waited + vgm.acc = now * Num /\ vgm.acc < Den
  /\ life = "playing" /\ format = "iodumper" => last = now /\ waited = now
  /\ life = "playing" /\ format = "wav" => waited = 0

LEMMA DumpedType ==
  ASSUME NEW reg \in Nat
  PROVE  /\ Dumped(reg) \in Seq(Command)
         /\ \A i \in 1 .. Len(Dumped(reg)) : Dumped(reg)[i].op = "write"
         /\ Dumped(reg) = <<>> \/ \E e \in Command : Dumped(reg) = <<e>> /\ e.op = "write"
<1>1. CASE reg >= 16
  <2>1. Write(reg) \in Command /\ Write(reg).op = "write"
    BY <1>1 DEF Write, Command
  <2>2. Dumped(reg) = <<Write(reg)>>
    BY <1>1 DEF Dumped
  <2> QED  BY <2>1, <2>2
<1>2. CASE ~ (reg >= 16)
  <2>1. Dumped(reg) = <<>>
    BY <1>2 DEF Dumped
  <2> QED  BY <2>1
<1> QED  BY <1>1, <1>2

\* The waits of vgm_io and the write after them.
LEMMA IoPasses ==
  ASSUME NEW base \in Int, NEW n \in Nat, NEW reg \in Nat
  PROVE  Accumulated(Passing, base, WaitsOf(n) \o Dumped(reg)) = base + n
<1> DEFINE w == WaitsOf(n)
<1>1. w \in Seq(Command) /\ Accumulated(Passing, base, w) = base + n
  BY WaitsOfPass
<1> HIDE DEF w
<1>2. CASE Dumped(reg) = <<>>
  <2>1. w \o Dumped(reg) = w
    BY <1>1, <1>2
  <2> QED  BY <1>1, <2>1 DEF w
<1>3. ASSUME NEW e \in Command, Dumped(reg) = <<e>>, e.op = "write"
      PROVE  Accumulated(Passing, base, w \o Dumped(reg)) = base + n
  <2>1. w \o Dumped(reg) = Append(w, e)
    BY <1>1, <1>3
  <2>2. OneMore(Passing, base, w, e)
    BY <1>1, PassingType, AccumulatedAppend
  <2>3. Passing[<<base + n, e>>] = base + n
    BY <1>3, PassingOf DEF Waits
  <2> QED  BY <1>1, <2>1, <2>2, <2>3 DEF OneMore
<1> QED  BY <1>2, <1>3, DumpedType DEF w

\* Commands that take no time.
Still(w) ==
  /\ w \in Seq(Command)
  /\ \A i \in 1 .. Len(w) : w[i].op \in Waits => w[i].n = 0

LEMMA StillJoins ==
  ASSUME NEW v, NEW w, Still(v), Still(w)
  PROVE  Still(v \o w)
<1>1. v \o w \in Seq(Command) /\ Len(v \o w) = Len(v) + Len(w)
      /\ Len(v) \in Nat /\ Len(w) \in Nat
  BY DEF Still
<1>2. ASSUME NEW i \in 1 .. Len(v \o w)
      PROVE  (v \o w)[i].op \in Waits => (v \o w)[i].n = 0
  <2>1. CASE i <= Len(v)
    <3>1. i \in 1 .. Len(v) /\ (v \o w)[i] = v[i]
      BY <1>1, <2>1 DEF Still
    <3> QED  BY <3>1 DEF Still
  <2>2. CASE i > Len(v)
    <3>1. i - Len(v) \in 1 .. Len(w) /\ (v \o w)[i] = w[i - Len(v)]
      BY <1>1, <2>2 DEF Still
    <3> QED  BY <3>1 DEF Still
  <2> QED  BY <1>1, <2>1, <2>2
<1> QED  BY <1>1, <1>2 DEF Still

LEMMA FirstCommandsAreStill == Still(FirstWrites) /\ Still(FirstLines) /\ Still(<<>>)
<1>1. ASSUME NEW reg \in Nat PROVE Still(Line(0, reg)) /\ Still(Dumped(reg))
  <2>1. Still(Dumped(reg))
    BY DumpedType DEF Still, Waits
  <2>2. /\ Line(0, reg) \in Seq(Command) /\ Len(Line(0, reg)) = 2
        /\ Line(0, reg)[1].n = 0 /\ Line(0, reg)[2].op = "write"
    BY DEF Line, Command
  <2>3. Still(Line(0, reg))
    <3> SUFFICES ASSUME NEW i \in 1 .. 2
                 PROVE  Line(0, reg)[i].op \in Waits => Line(0, reg)[i].n = 0
      BY <2>2 DEF Still
    <3>1. i = 1 \/ i = 2
      OBVIOUS
    <3> QED  BY <2>2, <3>1 DEF Waits
  <2> QED  BY <2>1, <2>3
<1> DEFINE h == <<Write(38), Write(37), Write(36)>>
<1>2. Still(h)
  <2>1. \A reg \in {36, 37, 38} : Write(reg) \in Command /\ Write(reg).op = "write"
    BY DEF Write, Command
  <2> QED  BY <2>1 DEF Still, Waits
<1> HIDE DEF h
<1>3. Still(((h \o Dumped(6)) \o Dumped(7)) \o Dumped(255))
  BY <1>1, <1>2, StillJoins
<1>4. Still((Line(0, 6) \o Line(0, 7)) \o Line(0, 255))
  BY <1>1, StillJoins
<1>5. Still(<<>>)
  BY DEF Still
<1> QED  BY <1>3, <1>4, <1>5 DEF FirstWrites, FirstLines, h

LEMMA StillPasses ==
  ASSUME NEW base \in Int, NEW w, Still(w)
  PROVE  Accumulated(Passing, base, w) = base
BY NothingPasses DEF Still

-----------------------------------------------------------------------------
\* A register is written in a VGM file: the fraction of a sample is carried on.
LEMMA VgmIoKeeps ==
  ASSUME RecInv, NEW gap \in Nat, NEW reg \in Nat, life = "playing", format = "vgm",
         now' = now + gap, VgmIo(now', reg), ~ NewFile, waited' = Waited
  PROVE  /\ waited' \in Int /\ vgm' \in [total : Nat, prev : Nat, acc : Nat]
         /\ vgm'.total = now' * Num /\ vgm'.prev = now' * Num
         /\ Den * waited' + vgm'.acc = now' * Num /\ vgm'.acc < Den
<1> DEFINE acc == vgm.acc + now' * Num - vgm.prev
           k == acc \div Den
<1>1. /\ Num \in Nat /\ Den \in Nat \ {0} /\ now \in Nat /\ now' \in Nat /\ waited \in Int
      /\ vgm.acc \in Nat /\ vgm.prev = now * Num
      /\ Den * waited + vgm.acc = now * Num
  BY RecorderAssumption DEF RecInv, RecType
<1>2. now' * Num = now * Num + gap * Num /\ now * Num \in Nat /\ gap * Num \in Nat
  BY <1>1
<1>3. acc = vgm.acc + gap * Num /\ acc \in Nat
  BY <1>1, <1>2
<1>4. /\ vgm' = [total |-> now' * Num, prev |-> now' * Num, acc |-> acc % Den]
      /\ output' = WaitsOf(k) \o Dumped(reg)
  BY DEF VgmIo, Carry
<1> HIDE DEF acc
<1>5. k \in Nat /\ acc % Den \in Nat /\ acc % Den < Den /\ acc = Den * k + (acc % Den)
  BY <1>1, <1>3, Division
<1> HIDE DEF k
<1>6. waited' = waited + k
  <2>1. waited' = Accumulated(Passing, waited, output')
    BY DEF Waited
  <2> QED  BY <1>1, <1>4, <1>5, <2>1, IoPasses
<1>7. Den * (waited + k) = Den * waited + Den * k /\ Den * waited \in Int /\ Den * k \in Int
  BY <1>1, <1>5
<1>8. Den * waited' + (acc % Den) = now' * Num
  <2>1. \A x, y, r, v, a \in Int : x + v = a => x + y + r = a - v + (y + r)
    OBVIOUS
  <2>2. Den * waited' = Den * waited + Den * k
    BY <1>6, <1>7
  <2>3. Den * waited + Den * k + (acc % Den) = now * Num - vgm.acc + acc
    BY <1>1, <1>2, <1>5, <1>7, <2>1
  <2> QED  BY <1>1, <1>2, <1>3, <2>2, <2>3
<1> QED  BY <1>1, <1>2, <1>4, <1>5, <1>6, <1>8

LEMMA WholeSamples ==
  ASSUME RecInv, life = "playing", format = "vgm"
  PROVE  waited = (now * Num) \div Den /\ vgm.total \div Den = waited
<1>1. /\ now * Num \in Nat /\ Den \in Nat \ {0} /\ waited \in Int /\ vgm.acc \in Nat
      /\ vgm.acc < Den /\ now * Num = Den * waited + vgm.acc /\ vgm.total = now * Num
  <2>1. now \in Nat /\ Num \in Nat
    BY RecorderAssumption DEF RecInv, RecType
  <2> QED  BY <2>1, RecorderAssumption DEF RecInv, RecType
<1>2. (now * Num) \div Den = waited
  <2> DEFINE a == now * Num
  <2>1. a \in Nat /\ a = Den * waited + vgm.acc
    BY <1>1
  <2> HIDE DEF a
  <2>2. a \div Den = waited
    BY <1>1, <2>1, QuotientIs
  <2> QED  BY <2>2 DEF a
<1> QED  BY <1>1, <1>2

LEMMA CountType ==
  ASSUME RecType
  PROVE  Count \in Nat /\ Count # NoHeader
<1>1. vgm.total \in Nat /\ Den \in Nat \ {0} /\ file.blocks \in Nat
  BY RecorderAssumption DEF RecType
<1>2. vgm.total \div Den \in Nat
  BY <1>1, Division
<1> QED  BY <1>1, <1>2 DEF Count, NoHeader

WaitsStep ==
  /\ life' = "playing" /\ output' # <<>> =>
       waited' = CASE format = "vgm" -> (now' * Num) \div Den
                   [] format = "iodumper" -> now'
                   [] OTHER -> 0
  /\ format = "vgm" /\ header' # NoHeader => header' = waited

LEMMA FormatIs == RecType => format \in {"vgm", "iodumper", "wav"}
BY RecorderAssumption DEF RecType

LEMMA IoKeeps ==
  ASSUME RecInv, family = "recording", family' = family, waited' = Waited,
         NEW gap \in Gaps, NEW reg \in Regs, Io(gap, reg)
  PROVE  RecInv' /\ WaitsStep
<1>1. /\ life = "playing" /\ life' = life /\ now' = now + gap /\ header' = NoHeader
      /\ UNCHANGED <<format, file>> /\ gap \in Nat /\ reg \in Nat /\ now \in Nat
      /\ now' \in Nat /\ RecType
  BY RecorderAssumption DEF Io, RecInv, RecType
<1>2. ~ NewFile
  BY <1>1 DEF NewFile
<1>3. CASE format = "vgm"
  <2>1. VgmIo(now', reg) /\ last' = last
    BY <1>3 DEF Io, VgmIo
  <2>2. /\ waited' \in Int /\ vgm' \in [total : Nat, prev : Nat, acc : Nat]
        /\ vgm'.total = now' * Num /\ vgm'.prev = now' * Num
        /\ Den * waited' + vgm'.acc = now' * Num /\ vgm'.acc < Den
    BY <1>1, <1>2, <1>3, <2>1, VgmIoKeeps
  <2>3. RecInv'
    <3>1. RecType'
      BY <1>1, <2>1, <2>2 DEF RecType
    <3> QED  BY <1>1, <1>3, <2>2, <3>1 DEF RecInv
  <2>4. waited' = (now' * Num) \div Den
    <3> DEFINE a == now' * Num
    <3>1. /\ a \in Nat /\ Den \in Nat \ {0} /\ a = Den * waited' + vgm'.acc
          /\ vgm'.acc \in Nat
      BY <1>1, <2>2, RecorderAssumption
    <3> HIDE DEF a
    <3>2. a \div Den = waited'
      BY <2>2, <3>1, QuotientIs
    <3> QED  BY <3>2 DEF a
  <2> QED  BY <1>1, <1>3, <2>3, <2>4 DEF WaitsStep
<1>4. CASE format = "iodumper"
  <2>1. output' = Line(now' - last, reg) /\ last' = now' /\ vgm' = vgm
    BY <1>4 DEF Io, DumpIo
  <2>2. last = now /\ waited = now
    BY <1>1, <1>4 DEF RecInv
  <2>3. waited' = waited + (now' - last)
    <3>1. waited' = Accumulated(Passing, waited, Line(now' - last, reg))
      BY <1>2, <2>1 DEF Waited
    <3> QED  BY <1>1, <2>2, <3>1, LinePasses
  <2>4. waited' = now'
    BY <1>1, <2>2, <2>3
  <2>5. RecType'
    BY <1>1, <2>1, <2>4 DEF RecType
  <2>6. RecInv'
    BY <1>1, <1>4, <2>1, <2>4, <2>5 DEF RecInv
  <2> QED  BY <1>1, <1>4, <2>4, <2>6 DEF WaitsStep
<1> QED  BY <1>3, <1>4 DEF Io

LEMMA WavWriteKeeps ==
  ASSUME RecInv, family = "recording", family' = family, waited' = Waited, WavWrite
  PROVE  RecInv' /\ WaitsStep
<1>1. /\ life = "playing" /\ format = "wav" /\ header' = NoHeader /\ RecType
      /\ UNCHANGED <<format, life, now, vgm, last>>
      /\ file' = [file EXCEPT !.blocks = @ + 1]
      /\ output' = <<[op |-> "block", n |-> 1]>>
  BY DEF WavWrite, RecInv
<1>2. ~ NewFile
  BY <1>1 DEF NewFile, RecType
<1>3. waited = 0
  BY <1>1 DEF RecInv
<1>4. waited' = 0
  <2>1. Still(output')
    BY <1>1 DEF Still, Waits, Command
  <2> QED  BY <1>2, <1>3, <2>1, StillPasses DEF Waited
<1>5. file' \in [open : BOOLEAN, blocks : Nat] /\ file'.open = file.open
  BY <1>1 DEF RecType
<1>6. RecType'
  BY <1>1, <1>4, <1>5 DEF RecType
<1>7. RecInv'
  BY <1>1, <1>4, <1>5, <1>6 DEF RecInv
<1> QED  BY <1>1, <1>4, <1>7 DEF WaitsStep

LEMMA RecCloseKeeps ==
  ASSUME RecInv, family = "recording", family' = family, waited' = Waited, RecClose
  PROVE  RecInv' /\ WaitsStep
<1>1. /\ life = "playing" /\ life' = "closed" /\ output' = <<>> /\ RecType
      /\ header' = (IF file.open /\ CanClose THEN Count ELSE NoHeader)
      /\ file' = [file EXCEPT !.open = @ /\ ~CanClose]
      /\ UNCHANGED <<format, now, vgm, last>>
  BY DEF RecClose, RecInv
<1>2. waited' \in Int
  <2>1. waited' = Accumulated(Passing, IF NewFile THEN 0 ELSE waited, <<>>)
    BY <1>1 DEF Waited
  <2>2. (IF NewFile THEN 0 ELSE waited) \in Int
    BY <1>1 DEF RecType
  <2> QED  BY <2>1, <2>2, FirstCommandsAreStill, StillPasses
<1>3. file' \in [open : BOOLEAN, blocks : Nat]
  <2>1. (file.open /\ ~CanClose) \in BOOLEAN
    OBVIOUS
  <2> QED  BY <1>1, <2>1 DEF RecType
<1>4. RecType'
  BY <1>1, <1>2, <1>3, CountType DEF RecType
<1>5. RecInv'
  BY <1>1, <1>4 DEF RecInv
<1>6. ASSUME format = "vgm", header' # NoHeader PROVE header' = waited
  <2>1. header' = vgm.total \div Den
    BY <1>1, <1>6 DEF Count
  <2> QED  BY <1>1, <1>6, <2>1, WholeSamples
<1> QED  BY <1>1, <1>5, <1>6 DEF WaitsStep

LEMMA SkipDumpKeeps ==
  ASSUME RecInv, family = "recording", family' = family, waited' = Waited, now' = 0,
         life \in {"opened", "playing"}, format' = format, SkipDump
  PROVE  RecInv' /\ WaitsStep
<1>1. /\ format = "iodumper" /\ life' = "playing" /\ last' = 0 /\ output' = FirstLines
      /\ UNCHANGED <<file, header, vgm>> /\ RecType
  BY DEF SkipDump, RecInv
<1>2. NewFile \/ waited = 0
  <2>1. CASE life = "opened"
    BY <1>1, <2>1 DEF NewFile
  <2>2. CASE life = "playing" /\ now > 0
    BY <1>1, <2>2 DEF NewFile
  <2>3. CASE life = "playing" /\ ~ (now > 0)
    BY <1>1, <2>3 DEF RecInv, RecType
  <2> QED  BY <2>1, <2>2, <2>3
<1>3. waited' = 0
  <2>1. waited' = Accumulated(Passing, 0, FirstLines)
    BY <1>1, <1>2 DEF Waited
  <2> QED  BY <2>1, FirstCommandsAreStill, StillPasses
<1>4. RecType'
  BY <1>1, <1>3 DEF RecType
<1>5. RecInv'
  BY <1>1, <1>3, <1>4 DEF RecInv
<1> QED  BY <1>1, <1>3, <1>5 DEF WaitsStep

LEMMA SkipFileKeeps ==
  ASSUME RecInv, family = "recording", family' = family, waited' = Waited, now' = 0,
         life \in {"opened", "playing"}, format' = format,
         NEW song \in Songs, NEW opens \in BOOLEAN, SkipFile(song, opens)
  PROVE  RecInv' /\ WaitsStep
<1> DEFINE closes == file.open => CanClose
           opened == closes /\ Expands(song) /\ opens
<1>1. /\ format # "iodumper"
      /\ life' = IF opened THEN "playing" ELSE "failed"
      /\ file' = [open |-> opened \/ ~closes, blocks |-> IF closes THEN 0 ELSE file.blocks]
      /\ header' = IF file.open /\ closes THEN Count ELSE NoHeader
      /\ vgm' = IF ~opened \/ format # "vgm" THEN vgm ELSE [Fresh EXCEPT !.total = 0]
      /\ output' = IF opened /\ format = "vgm" THEN FirstWrites ELSE <<>>
      /\ last' = last /\ RecType
  BY DEF SkipFile, RecInv
<1> HIDE DEF closes, opened
<1>2. Still(output')
  BY <1>1, FirstCommandsAreStill
<1>3. waited' = IF NewFile THEN 0 ELSE waited
  <2>1. (IF NewFile THEN 0 ELSE waited) \in Int
    BY <1>1 DEF RecType
  <2> QED  BY <1>2, <2>1, StillPasses DEF Waited
<1>4. ASSUME opened PROVE NewFile
  <2>1. CASE life = "opened"
    BY <1>1, <1>4, <2>1 DEF NewFile
  <2>2. CASE life = "playing"
    <3>1. file.open /\ closes
      BY <1>1, <1>4, <2>2 DEF RecInv, opened
    <3>2. header' # NoHeader
      BY <1>1, <3>1, CountType
    <3> QED  BY <3>2 DEF NewFile
  <2> QED  BY <2>1, <2>2
<1>5. /\ vgm' \in [total : Nat, prev : Nat, acc : Nat]
      /\ opened /\ format = "vgm" => vgm'.total = 0 /\ vgm'.prev = 0 /\ vgm'.acc = 0
  BY <1>1 DEF Fresh, RecType
<1>6. file' \in [open : BOOLEAN, blocks : Nat] /\ (opened => file'.open)
  <2>1. (opened \/ ~closes) \in BOOLEAN /\ (IF closes THEN 0 ELSE file.blocks) \in Nat
    BY <1>1 DEF closes, opened, RecType
  <2> QED  BY <1>1, <2>1
<1>7. RecType'
  BY <1>1, <1>3, <1>5, <1>6, CountType DEF RecType
<1>8. Num \in Nat /\ Den \in Nat \ {0} /\ 0 * Num = 0 /\ Den * 0 = 0 /\ 0 \div Den = 0
  <2>1. Num \in Nat /\ Den \in Nat \ {0}
    BY RecorderAssumption
  <2> QED  BY <2>1
<1>9. RecInv'
  <2>1. CASE opened
    <3>1. life' = "playing" /\ file'.open /\ waited' = 0 /\ now' = 0 /\ format' = format
      BY <1>1, <1>3, <1>4, <1>6, <2>1
    <3>2. format = "vgm" => /\ vgm'.total = now' * Num /\ vgm'.prev = now' * Num
                            /\ Den * waited' + vgm'.acc = now' * Num /\ vgm'.acc < Den
      BY <1>5, <1>8, <2>1, <3>1
    <3> QED  BY <1>1, <1>7, <3>1, <3>2 DEF RecInv
  <2>2. CASE ~opened
    <3>1. life' = "failed"
      BY <1>1, <2>2
    <3> QED  BY <1>7, <3>1 DEF RecInv
  <2> QED  BY <2>1, <2>2
<1>10. ASSUME format = "vgm", header' # NoHeader PROVE header' = waited
  <2>1. file.open /\ header' = vgm.total \div Den
    BY <1>1, <1>10 DEF Count
  <2>2. life = "playing"
    BY <2>1 DEF RecInv
  <2> QED  BY <1>10, <2>1, <2>2, WholeSamples
<1>11. ASSUME life' = "playing", output' # <<>> PROVE format = "vgm" /\ waited' = 0
  BY <1>1, <1>3, <1>4, <1>11
<1> QED  BY <1>8, <1>9, <1>10, <1>11 DEF WaitsStep

LEMMA RecNextKeeps ==
  ASSUME RecInv, family = "recording", family' = family, waited' = Waited, RecNext
  PROVE  RecInv' /\ WaitsStep
<1>1. ASSUME NEW gap \in Gaps, NEW reg \in Regs, Io(gap, reg) PROVE RecInv' /\ WaitsStep
  BY <1>1, IoKeeps
<1>2. CASE WavWrite
  BY <1>2, WavWriteKeeps
<1>3. ASSUME NEW song \in Songs, NEW opens \in BOOLEAN, RecSkip(song, opens)
      PROVE  RecInv' /\ WaitsStep
  <2>1. /\ life \in {"opened", "playing"} /\ now' = 0 /\ format' = format
        /\ SkipFile(song, opens) \/ SkipDump
    BY <1>3 DEF RecSkip
  <2> QED  BY <2>1, SkipFileKeeps, SkipDumpKeeps
<1>4. CASE RecClose
  BY <1>4, RecCloseKeeps
<1> QED  BY <1>1, <1>2, <1>3, <1>4 DEF RecNext

LEMMA RecStutters ==
  ASSUME RecInv, UNCHANGED <<recordingVars, family>>
  PROVE  RecInv' /\ (WaitsStep \/ family = "recording")
<1>1. UNCHANGED <<format, life, now, file, vgm, last, output, header, waited, family>>
  BY DEF recordingVars, recVars
<1>2. RecInv'
  BY <1>1 DEF RecInv, RecType
<1>3. family # "recording" => WaitsStep
  BY <1>1 DEF RecInv, WaitsStep
<1> QED  BY <1>2, <1>3

LEMMA RecInvInit == PluginInit => RecInv
<1> SUFFICES ASSUME PluginInit PROVE RecInv
  OBVIOUS
<1>1. /\ format \in Formats /\ life = "opened" /\ now = 0 /\ last = 0 /\ waited = 0
      /\ file = [open |-> FALSE, blocks |-> 0] /\ header = NoHeader
      /\ vgm = [total |-> 0, prev |-> 0, acc |-> 0]
  BY DEF PluginInit, RecInit
<1>2. RecType
  BY <1>1 DEF RecType
<1> QED  BY <1>1, <1>2 DEF RecInv

\* For every ratio of samples to cycles, every limit of a wait and every program:
\* the waits that plugout_vgm.c writes before a register add up to its time in
\* whole samples, rounded once, the dumper's to its time in cycles, and the header
\* of a finished file tells the sum of the file's waits.
THEOREM RecordedWaitsAddUp == PluginSpec => WaitsAddUp
<1>1. PluginInit => RecInv
  BY RecInvInit
<1>2. RecInv /\ [PluginNext]_pluginVars => RecInv' /\ [WaitsStep]_pluginVars
  <2> SUFFICES ASSUME RecInv, [PluginNext]_pluginVars
               PROVE  RecInv' /\ [WaitsStep]_pluginVars
    OBVIOUS
  <2>1. CASE PluginNext /\ family = "recording"
    <3>1. family' = family /\ ((RecNext /\ waited' = Waited) \/ UNCHANGED recordingVars)
      BY <2>1 DEF PluginNext
    <3>2. RecNext /\ waited' = Waited
      BY <2>1 DEF PluginNext
    <3> QED  BY <2>1, <3>1, <3>2, RecNextKeeps
  <2>2. CASE PluginNext /\ family # "recording"
    <3>1. UNCHANGED <<recordingVars, family>>
      BY <2>2 DEF PluginNext
    <3> QED  BY <2>2, <3>1, RecStutters
  <2>3. CASE UNCHANGED pluginVars
    <3>1. UNCHANGED <<recordingVars, family>>
      BY <2>3 DEF pluginVars
    <3> QED  BY <2>3, <3>1, RecStutters
  <2> QED  BY <2>1, <2>2, <2>3
<1>3. WaitsAddUp <=> [][WaitsStep]_pluginVars
  BY DEF WaitsAddUp, WaitsStep
<1> QED  BY <1>1, <1>2, <1>3, PTL DEF PluginSpec

-----------------------------------------------------------------------------
\* expand_filename.
LEMMA WidthType ==
  ASSUME NEW song \in Songs, NEW part \in STRING
  PROVE  Width(part, song) \in Nat
BY DEF Width, Digits

LEMMA ExpandingType ==
  ASSUME NEW song \in Songs
  PROVE  /\ Expanding(song) \in [Partial \X STRING -> Partial]
         /\ Widening(song) \in [Nat \X STRING -> Nat]
<1>1. ASSUME NEW e \in Partial, NEW part \in STRING
      PROVE  [e EXCEPT !.dst = @ + Width(part, song), !.src = @ + 1] \in Partial
             /\ [e EXCEPT !.bad = TRUE] \in Partial
  <2> DEFINE n == Width(part, song)
  <2>1. n \in Nat
    BY WidthType
  <2> HIDE DEF n
  <2>2. e.dst + n \in Nat /\ e.src + 1 \in Nat
    BY <2>1 DEF Partial
  <2>3. [e EXCEPT !.dst = @ + n, !.src = @ + 1] \in Partial
    BY <2>2 DEF Partial
  <2>4. [e EXCEPT !.bad = TRUE] \in Partial
    BY DEF Partial
  <2> QED  BY <2>3, <2>4 DEF n
<1>2. Expanding(song) \in [Partial \X STRING -> Partial]
  BY <1>1 DEF Expanding
<1>3. Widening(song) \in [Nat \X STRING -> Nat]
  <2>1. ASSUME NEW n \in Nat, NEW part \in STRING PROVE n + Width(part, song) \in Nat
    <3>1. Width(part, song) \in Nat
      BY WidthType
    <3> DEFINE k == Width(part, song)
    <3>2. k \in Nat
      BY <3>1
    <3> HIDE DEF k
    <3>3. n + k \in Nat
      BY <3>2
    <3> QED  BY <3>3 DEF k
  <2> QED  BY <2>1 DEF Widening
<1> QED  BY <1>2, <1>3

\* A pattern that was read to its end has come to its width.
LEMMA ExpansionIsWhole ==
  ASSUME NEW song \in Songs, template \in Templates
  PROVE  /\ Expansion(song) \in Partial
         /\ Expansion(song).src = Len(template) => Expansion(song).dst = FullWidth(song)
<1> DEFINE w == template
           start == [dst |-> 0, src |-> 0, bad |-> FALSE]
           step == Expanding(song)
           widen == Widening(song)
<1>1. w \in Seq(STRING) /\ Len(w) \in Nat /\ start \in Partial /\ 0 \in Nat
  BY RecorderAssumption DEF Partial
<1>2. step \in [Partial \X STRING -> Partial] /\ widen \in [Nat \X STRING -> Nat]
  BY ExpandingType
<1> HIDE DEF w, start, step, widen
<1>3. PICK f : Through(f, step, start, w) /\ Accumulated(step, start, w) = f[Len(w)]
  <2>1. Reached(step, start, w)
    BY <1>1, <1>2, AccumulatedThrough
  <2> QED  BY <2>1 DEF Reached
<1>4. PICK g : Through(g, widen, 0, w) /\ Accumulated(widen, 0, w) = g[Len(w)]
  <2>1. Reached(widen, 0, w)
    BY <1>1, <1>2, AccumulatedThrough
  <2> QED  BY <2>1 DEF Reached
<1> DEFINE T == {i \in Nat : i <= Len(w) =>
                   /\ f[i] \in Partial /\ g[i] \in Nat /\ f[i].src <= i
                   /\ f[i].src = i => f[i].dst = g[i]}
<1>5. 0 \in T
  <2>1. f[0] = start /\ g[0] = 0
    BY <1>1, <1>3, <1>4 DEF Through
  <2> QED  BY <1>1, <2>1 DEF start
<1>6. ASSUME NEW i \in Nat, i \in T PROVE i + 1 \in T
  <2> SUFFICES ASSUME i + 1 <= Len(w)
               PROVE  /\ f[i + 1] \in Partial /\ g[i + 1] \in Nat /\ f[i + 1].src <= i + 1
                      /\ f[i + 1].src = i + 1 => f[i + 1].dst = g[i + 1]
    OBVIOUS
  <2>0. i <= Len(w)
    BY <1>1
  <2>1. /\ f[i] \in Partial /\ g[i] \in Nat /\ f[i].src <= i
        /\ f[i].src = i => f[i].dst = g[i]
    BY <1>6, <2>0
  <2>2. i + 1 \in 0 .. Len(w) /\ i + 1 # 0 /\ i + 1 - 1 = i /\ w[i + 1] \in STRING
    BY <1>1
  <2>3. f[i + 1] = step[<<f[i], w[i + 1]>>] /\ g[i + 1] = widen[<<g[i], w[i + 1]>>]
    BY <1>3, <1>4, <2>2 DEF Through
  <2> DEFINE e == f[i]
             part == w[i + 1]
  <2>4. f[i + 1] = IF e.bad \/ e.dst >= NameLast THEN e
                   ELSE IF part \notin Known THEN [e EXCEPT !.bad = TRUE]
                   ELSE [e EXCEPT !.dst = @ + Width(part, song), !.src = @ + 1]
    BY <2>1, <2>2, <2>3 DEF step, Expanding
  <2>5. g[i + 1] = g[i] + Width(part, song)
    BY <2>1, <2>2, <2>3 DEF widen, Widening
  <2>6. Width(part, song) \in Nat
    BY <2>2, WidthType
  <2>7. f[i + 1] \in Partial /\ g[i + 1] \in Nat
    BY <1>2, <2>1, <2>2, <2>3
  <2>8. e.src \in Nat /\ e.dst \in Nat
    BY <2>1 DEF Partial
  <2>9. CASE f[i + 1].src = e.src
    BY <2>1, <2>7, <2>8, <2>9
  <2>10. CASE f[i + 1].src # e.src
    <3>1. f[i + 1] = [e EXCEPT !.dst = @ + Width(part, song), !.src = @ + 1]
      <4>1. [e EXCEPT !.bad = TRUE].src = e.src
        BY <2>1 DEF Partial
      <4> QED  BY <2>4, <2>10, <4>1
    <3>2. f[i + 1].src = e.src + 1 /\ f[i + 1].dst = e.dst + Width(part, song)
      BY <2>1, <3>1 DEF Partial
    <3> QED  BY <2>1, <2>5, <2>6, <2>7, <2>8, <3>2
  <2> QED  BY <2>9, <2>10
<1> HIDE DEF T
<1>7. \A i \in Nat : i \in T
  BY <1>5, <1>6, Induction
<1>8. /\ f[Len(w)] \in Partial
      /\ f[Len(w)].src = Len(w) => f[Len(w)].dst = g[Len(w)]
  BY <1>1, <1>7 DEF T
<1>9. Expansion(song) = f[Len(w)] /\ FullWidth(song) = g[Len(w)]
  BY <1>3, <1>4 DEF Expansion, FullWidth, w, start, step, widen
<1> QED  BY <1>8, <1>9 DEF w

NameInv ==
  /\ template \in Templates /\ name \in Nat
  /\ format = "iodumper" => name = 0
  /\ NameIsWhole

LEMMA FilledWhole ==
  ASSUME NEW song \in Songs, template \in Templates
  PROVE  /\ Filled(song) \in Nat /\ Filled(song) <= NameSize
         /\ Expands(song) => Filled(song) = FullWidth(song) + 1
<1> DEFINE e == Expansion(song)
<1>1. e \in Partial /\ (e.src = Len(template) => e.dst = FullWidth(song))
  BY ExpansionIsWhole
<1>2. e.dst \in Nat /\ NameLast \in Nat /\ NameLast + 1 = NameSize
  BY <1>1, RecorderAssumption DEF Partial, NameLast
<1> QED  BY <1>1, <1>2 DEF Filled, Expands

LEMMA NameNext ==
  ASSUME NameInv, RecNext
  PROVE  NameInv'
<1>1. ASSUME NEW gap \in Gaps, NEW reg \in Regs, Io(gap, reg) PROVE NameInv'
  BY <1>1 DEF Io, NameInv, NameIsWhole, FullWidth
<1>2. CASE WavWrite
  BY <1>2 DEF WavWrite, NameInv, NameIsWhole, FullWidth
<1>3. CASE RecClose
  <2>1. life' = "closed" /\ UNCHANGED <<template, format, name>>
    BY <1>3 DEF RecClose
  <2> QED  BY <2>1 DEF NameInv, NameIsWhole
<1>4. ASSUME NEW song \in Songs, NEW opens \in BOOLEAN, RecSkip(song, opens)
      PROVE  NameInv'
  <2>1. UNCHANGED <<format, template>> /\ FullWidth(song)' = FullWidth(song)
    BY <1>4 DEF RecSkip, FullWidth
  <2>2. CASE SkipDump
    <3>1. name' = name /\ name = 0
      BY <2>2 DEF SkipDump, NameInv
    <3> QED  BY <2>1, <3>1, RecorderAssumption DEF NameInv, NameIsWhole
  <2>3. CASE SkipFile(song, opens)
    <3> DEFINE closes == file.open => CanClose
    <3>1. /\ format # "iodumper" /\ name' = IF closes THEN Filled(song) ELSE name
          /\ life' = "playing" => closes /\ Expands(song)
      BY <2>3 DEF SkipFile
    <3> HIDE DEF closes
    <3>2. name' \in Nat /\ name' <= NameSize
      BY <3>1, FilledWhole DEF NameInv, NameIsWhole
    <3>3. life' = "playing" => name' = FullWidth(song)' + 1
      BY <2>1, <3>1, FilledWhole DEF NameInv
    <3> QED  BY <2>1, <3>1, <3>2, <3>3 DEF NameInv, NameIsWhole
  <2> QED  BY <1>4, <2>2, <2>3 DEF RecSkip
<1> QED  BY <1>1, <1>2, <1>3, <1>4 DEF RecNext

\* For every pattern, every size of the buffer and every number of a subsong: a
\* file that is open has the name that its pattern gives, to the last character,
\* and the name ends within its buffer.
THEOREM NamesAreWhole == PluginSpec => []NameIsWhole
<1>1. PluginInit => NameInv
  BY RecorderAssumption DEF PluginInit, RecInit, NameInv, NameIsWhole
<1>2. NameInv /\ [PluginNext]_pluginVars => NameInv'
  <2> SUFFICES ASSUME NameInv, [PluginNext]_pluginVars PROVE NameInv'
    OBVIOUS
  <2>1. CASE RecNext
    BY <2>1, NameNext
  <2>2. CASE UNCHANGED recordingVars
    <3>1. UNCHANGED <<format, template, life, name>>
      BY <2>2 DEF recordingVars, recVars
    <3> QED  BY <3>1 DEF NameInv, NameIsWhole, FullWidth
  <2> QED  BY <2>1, <2>2 DEF PluginNext, pluginVars
<1>3. NameInv => NameIsWhole
  BY DEF NameInv
<1> QED  BY <1>1, <1>2, <1>3, PTL DEF PluginSpec

-----------------------------------------------------------------------------
\* What midifile.c keeps.
FileType ==
  [open: BOOLEAN, note: [Channel -> Nat], mute: [Channel -> BOOLEAN], prev: Int,
   written: Seq(WrittenEvent)]

\* The same file, but for the note of a channel.
Renoted(f, g, c, n) ==
  /\ g \in FileType
  /\ g.note = [f.note EXCEPT ![c] = n]
  /\ g.mute = f.mute /\ g.open = f.open

LEMMA EventWrites ==
  ASSUME NEW f \in FileType, NEW at \in Int, NEW c \in Channel, NEW n \in Nat,
         NEW what \in {"on", "off", "pan", "end"}
  PROVE  /\ Event(f, at, what, c, n) \in FileType
         /\ Event(f, at, what, c, n).note = f.note
         /\ Event(f, at, what, c, n).mute = f.mute
         /\ Event(f, at, what, c, n).open = f.open
<1> DEFINE delta == (at - f.prev) \div Resolution
           event == [what |-> what, chan |-> c, note |-> n, delta |-> delta]
           prev == f.prev + delta * Resolution
<1>1. Resolution \in Nat \ {0} /\ f.prev \in Int
  BY TimeAssumption DEF FileType
<1>2. delta \in Int
  BY <1>1
<1>3. prev \in Int
  <2> HIDE DEF delta
  <2> QED  BY <1>1, <1>2
<1>4. event \in WrittenEvent
  <2> HIDE DEF delta
  <2> QED  BY <1>2 DEF WrittenEvent
<1>5. Append(f.written, event) \in Seq(WrittenEvent)
  <2> HIDE DEF event
  <2> QED  BY <1>4 DEF FileType
<1>6. Event(f, at, what, c, n) = [f EXCEPT !.prev = prev, !.written = Append(@, event)]
  BY DEF Event
<1> HIDE DEF prev, event
<1> QED  BY <1>3, <1>5, <1>6 DEF FileType

LEMMA NoteOffEnds ==
  ASSUME NEW f \in FileType, NEW at \in Int, NEW c \in Channel
  PROVE  Renoted(f, NoteOff(f, at, c), c, 0)
<1> DEFINE g == Event(f, at, "off", c, f.note[c])
<1>1. f.note[c] \in Nat /\ f.note \in [Channel -> Nat]
  BY DEF FileType
<1>2. g \in FileType /\ g.note = f.note /\ g.mute = f.mute /\ g.open = f.open
  BY <1>1, EventWrites
<1>3. NoteOff(f, at, c) = IF f.note[c] = 0 THEN f ELSE [g EXCEPT !.note[c] = 0]
  BY DEF NoteOff
<1> HIDE DEF g
<1>4. [g EXCEPT !.note[c] = 0] \in FileType
  BY <1>2 DEF FileType
<1> QED  BY <1>1, <1>2, <1>3, <1>4 DEF Renoted, FileType

\* A muted channel begins no note.
LEMMA NoteOnBegins ==
  ASSUME NEW f \in FileType, NEW at \in Int, NEW c \in Channel, NEW n \in Nat
  PROVE  Renoted(f, NoteOn(f, at, c, n), c, IF f.mute[c] THEN f.note[c] ELSE n)
<1> DEFINE g == Event(f, at, "on", c, n)
<1>1. g \in FileType /\ g.note = f.note /\ g.mute = f.mute /\ g.open = f.open
  BY EventWrites
<1>2. NoteOn(f, at, c, n) = IF f.mute[c] THEN f ELSE [g EXCEPT !.note[c] = n]
  BY DEF NoteOn
<1> HIDE DEF g
<1>3. [g EXCEPT !.note[c] = n] \in FileType
  BY <1>1 DEF FileType
<1> QED  BY <1>1, <1>2, <1>3 DEF Renoted, FileType

LEMMA NoteOnInRangeBegins ==
  ASSUME NEW f \in FileType, NEW at \in Int, NEW c \in Channel, NEW n \in Nat
  PROVE  Renoted(f, NoteOnInRange(f, at, c, n), c,
                 IF f.mute[c] \/ ~InRange(n) THEN f.note[c] ELSE n)
<1>1. CASE InRange(n)
  BY <1>1, NoteOnBegins DEF NoteOnInRange
<1>2. CASE ~InRange(n)
  BY <1>2 DEF NoteOnInRange, Renoted, FileType
<1> QED  BY <1>1, <1>2

LEMMA PanKeeps ==
  ASSUME NEW f \in FileType, NEW at \in Int, NEW c \in Channel
  PROVE  /\ Pan(f, at, c) \in FileType
         /\ Pan(f, at, c).note = f.note
         /\ Pan(f, at, c).mute = f.mute /\ Pan(f, at, c).open = f.open
BY EventWrites DEF Pan

-----------------------------------------------------------------------------
MidiInv ==
  /\ plugin \in Plugins
  /\ m \in FileType
  /\ cycles \in Nat
  /\ div \in [Channel -> Freq]
  /\ running \in [Channel -> BOOLEAN] /\ master \in [Channel -> BOOLEAN]
  /\ playing \in [Channel -> BOOLEAN]
  /\ \A c \in Channel : running[c] => master[c]
  /\ NoteHasChannel /\ NoteIsCurrent

LEMMA RenotedTwice ==
  ASSUME NEW f \in FileType, NEW g, NEW h, NEW c \in Channel, NEW k, NEW n,
         Renoted(f, g, c, k), Renoted(g, h, c, n)
  PROVE  Renoted(f, h, c, n)
<1>1. f.note \in [Channel -> Nat]
  BY DEF FileType
<1> QED  BY <1>1 DEF Renoted

LEMMA FileFresh ==
  ASSUME m \in FileType
  PROVE  /\ File \in FileType
         /\ File.note = m.note /\ File.mute = m.mute /\ File.open = m.open
         /\ File.prev = m.prev /\ File.written = <<>>
         /\ \A c \in Channel : Renoted(m, File, c, m.note[c])
<1>1. <<>> \in Seq(WrittenEvent)
  OBVIOUS
<1>2. /\ File \in FileType
      /\ File.note = m.note /\ File.mute = m.mute /\ File.open = m.open
      /\ File.prev = m.prev /\ File.written = <<>>
  BY <1>1 DEF File, FileType
<1>3. \A c \in Channel : m.note = [m.note EXCEPT ![c] = m.note[c]]
  BY DEF FileType
<1> QED  BY <1>2, <1>3 DEF Renoted

\* plugout_midi.c: a register write that concerns one channel, whose note it sets
\* to n.
LEMMA OneChannelWritten ==
  ASSUME MidiInv, plugin = "midi", UNCHANGED <<plugin, cycles, playing>>,
         NEW c \in Channel, NEW n, NEW d \in Freq, NEW r \in BOOLEAN, NEW a \in BOOLEAN,
         Renoted(m, m', c, n),
         div' = [div EXCEPT ![c] = d],
         running' = [running EXCEPT ![c] = r],
         master' = [master EXCEPT ![c] = a],
         r => a,
         n # 0 => r /\ n = NoteOf[d]
  PROVE  MidiInv'
<1>1. m.note \in [Channel -> Nat] /\ m' \in FileType /\ m'.note = [m.note EXCEPT ![c] = n]
  BY DEF MidiInv, FileType, Renoted
<1>2. /\ div' \in [Channel -> Freq]
      /\ running' \in [Channel -> BOOLEAN] /\ master' \in [Channel -> BOOLEAN]
  BY DEF MidiInv
<1>3. ASSUME NEW b \in Channel
      PROVE  /\ running'[b] => master'[b]
             /\ m'.note[b] # 0 => /\ running'[b] /\ master'[b]
                                  /\ m'.note[b] = NoteOf[div'[b]]
  <2>1. CASE b = c
    BY <1>1, <2>1 DEF MidiInv
  <2>2. CASE b # c
    BY <1>1, <2>2 DEF MidiInv, NoteHasChannel, NoteIsCurrent
  <2> QED  BY <2>1, <2>2
<1> QED  BY <1>1, <1>2, <1>3 DEF MidiInv, NoteHasChannel, NoteIsCurrent

LEMMA NoteOfType ==
  ASSUME NEW f \in Freq
  PROVE  NoteOf[f] \in Nat \ {0}
BY NoteAssumption

\* A channel of the MIDI writer that is on has the note of its frequency.
LEMMA ChannelState ==
  ASSUME MidiInv, plugin = "midi", NEW c \in Channel
  PROVE  /\ div[c] \in Freq /\ NoteOf[div[c]] \in Nat \ {0}
         /\ m.note[c] \in Nat
         /\ running[c] \in BOOLEAN /\ master[c] \in BOOLEAN
         /\ running[c] => master[c]
         /\ m.note[c] # 0 => running[c] /\ master[c] /\ m.note[c] = NoteOf[div[c]]
<1>1. div[c] \in Freq
  BY DEF MidiInv
<1> QED  BY <1>1, NoteOfType DEF MidiInv, FileType, NoteHasChannel, NoteIsCurrent

LEMMA MasterlessEnds ==
  ASSUME MidiInv, plugin = "midi", NEW c \in Channel, NEW on \in BOOLEAN
  PROVE  \E k \in Nat : /\ Renoted(m, Masterless(c, on), c, k)
                        /\ k # 0 => on /\ k = m.note[c]
<1>1. m \in FileType /\ cycles \in Int
  BY DEF MidiInv
<1>2. Renoted(File, NoteOff(File, cycles, c), c, 0)
  BY <1>1, FileFresh, NoteOffEnds
<1>3. Renoted(m, NoteOff(File, cycles, c), c, 0)
  BY <1>1, <1>2, FileFresh, RenotedTwice
<1>4. CASE ~on /\ running[c]
  BY <1>3, <1>4 DEF Masterless
<1>5. CASE ~(~on /\ running[c])
  <2>1. Masterless(c, on) = File /\ (m.note[c] # 0 => on)
    BY <1>5, ChannelState DEF Masterless
  <2> QED  BY <1>1, <2>1, FileFresh, ChannelState
<1> QED  BY <1>4, <1>5

LEMMA NewVolumeSets ==
  ASSUME NEW f \in FileType, NEW c \in Channel, NEW vol \in {0, 1}, cycles \in Int,
         NEW n \in Nat, NoteOf[div[c]] = n, running'[c] \in BOOLEAN
  PROVE  \E k \in Nat : /\ Renoted(f, NewVolume(f, c, vol), c, k)
                        /\ k \in {0, f.note[c], n}
                        /\ k # 0 /\ k # f.note[c] => running'[c]
<1>1. f.note[c] \in Nat /\ Renoted(f, f, c, f.note[c])
  BY DEF FileType, Renoted
<1>2. CASE vol = 0
  BY <1>2, NoteOffEnds DEF NewVolume
<1>3. CASE vol # 0 /\ running'[c] /\ f.note[c] = 0
  <2>1. NewVolume(f, c, vol) = NoteOnInRange(f, cycles, c, n)
    BY <1>3 DEF NewVolume
  <2> DEFINE k == IF f.mute[c] \/ ~InRange(n) THEN f.note[c] ELSE n
  <2>2. Renoted(f, NoteOnInRange(f, cycles, c, n), c, k)
    BY NoteOnInRangeBegins
  <2>3. k \in Nat /\ k \in {f.note[c], n}
    BY <1>1
  <2> HIDE DEF k
  <2> QED  BY <1>3, <2>1, <2>2, <2>3
<1>4. CASE vol # 0 /\ ~(running'[c] /\ f.note[c] = 0)
  BY <1>1, <1>4 DEF NewVolume
<1> QED  BY <1>2, <1>3, <1>4

LEMMA WriteEnvelopeNotes ==
  ASSUME MidiInv, NEW c \in Channel, NEW vol \in {0, 1}, NEW up \in BOOLEAN,
         WriteEnvelope(c, vol, up)
  PROVE  MidiInv'
<1> DEFINE on == vol # 0 \/ up
           r == running[c] /\ on
<1>1. plugin = "midi" /\ m \in FileType /\ cycles \in Int
  BY DEF WriteEnvelope, IsMidi, MidiInv
<1>2. /\ master' = [master EXCEPT ![c] = on] /\ running' = [running EXCEPT ![c] = r]
      /\ m' = NewVolume(Masterless(c, on), c, vol)
      /\ UNCHANGED <<plugin, cycles, div, playing>>
  BY DEF WriteEnvelope, SetMaster
<1>3. on \in BOOLEAN /\ r \in BOOLEAN /\ (r => on) /\ running'[c] = r
  BY <1>2 DEF MidiInv
<1> HIDE DEF on
<1> DEFINE f == Masterless(c, on)
<1>4. PICK k \in Nat : Renoted(m, f, c, k) /\ (k # 0 => on /\ k = m.note[c])
  BY <1>1, <1>3, MasterlessEnds
<1>5. f \in FileType /\ f.note[c] = k /\ m' = NewVolume(f, c, vol)
  BY <1>1, <1>2, <1>4 DEF Renoted, FileType
<1> HIDE DEF f
<1>6. PICK n \in Nat : /\ Renoted(f, m', c, n)
                       /\ n \in {0, k, NoteOf[div[c]]}
                       /\ n # 0 /\ n # k => running'[c]
  <2>1. NoteOf[div[c]] \in Nat
    BY <1>1, ChannelState
  <2>2. running'[c] \in BOOLEAN
    BY <1>3
  <2> QED  BY <1>1, <1>5, <2>1, <2>2, NewVolumeSets
<1>7. Renoted(m, m', c, n)
  BY <1>1, <1>4, <1>5, <1>6, RenotedTwice
<1>8. n # 0 => r /\ n = NoteOf[div[c]]
  BY <1>1, <1>3, <1>4, <1>6, ChannelState
<1>9. div[c] \in Freq /\ div' = [div EXCEPT ![c] = div[c]]
  BY <1>2 DEF MidiInv
<1> HIDE DEF r
<1> QED  BY <1>1, <1>2, <1>3, <1>7, <1>8, <1>9, OneChannelWritten

LEMMA WriteWaveMasterNotes ==
  ASSUME MidiInv, NEW on \in BOOLEAN, WriteWaveMaster(on)
  PROVE  MidiInv'
<1> DEFINE r == running[Wave] /\ on
<1>1. plugin = "midi" /\ Wave \in Channel
  BY DEF WriteWaveMaster, IsMidi, Wave, Channel
<1>2. /\ master' = [master EXCEPT ![Wave] = on] /\ running' = [running EXCEPT ![Wave] = r]
      /\ m' = Masterless(Wave, on)
      /\ UNCHANGED <<plugin, cycles, div, playing>>
  BY DEF WriteWaveMaster, SetMaster
<1>3. PICK n \in Nat : Renoted(m, m', Wave, n) /\ (n # 0 => on /\ n = m.note[Wave])
  BY <1>1, <1>2, MasterlessEnds
<1>4. r \in BOOLEAN /\ (r => on) /\ (n # 0 => r /\ n = NoteOf[div[Wave]])
  BY <1>1, <1>3, ChannelState
<1>5. div[Wave] \in Freq /\ div' = [div EXCEPT ![Wave] = div[Wave]]
  BY <1>1, <1>2 DEF MidiInv
<1> HIDE DEF r
<1> QED  BY <1>1, <1>2, <1>3, <1>4, <1>5, OneChannelWritten

LEMMA WriteWaveVolumeNotes ==
  ASSUME MidiInv, NEW vol \in {0, 1}, WriteWaveVolume(vol)
  PROVE  MidiInv'
<1>1. plugin = "midi" /\ Wave \in Channel /\ m \in FileType /\ cycles \in Int
  BY DEF WriteWaveVolume, IsMidi, Wave, Channel, MidiInv
<1>2. /\ m' = NewVolume(File, Wave, vol)
      /\ UNCHANGED <<plugin, cycles, div, playing, running, master>>
  BY DEF WriteWaveVolume
<1>3. /\ File \in FileType /\ File.note[Wave] = m.note[Wave]
      /\ Renoted(m, File, Wave, m.note[Wave])
  BY <1>1, FileFresh
<1>4. NoteOf[div[Wave]] \in Nat /\ running'[Wave] \in BOOLEAN
  BY <1>1, <1>2, ChannelState
<1>5. PICK n \in Nat : /\ Renoted(File, m', Wave, n)
                       /\ n \in {0, m.note[Wave], NoteOf[div[Wave]]}
                       /\ n # 0 /\ n # m.note[Wave] => running'[Wave]
  BY <1>1, <1>2, <1>3, <1>4, NewVolumeSets
<1>6. Renoted(m, m', Wave, n)
  BY <1>1, <1>3, <1>5, RenotedTwice
<1>7. n # 0 => running[Wave] /\ n = NoteOf[div[Wave]]
  BY <1>1, <1>2, <1>5, ChannelState
<1>8. /\ div[Wave] \in Freq /\ div' = [div EXCEPT ![Wave] = div[Wave]]
      /\ running' = [running EXCEPT ![Wave] = running[Wave]]
      /\ master' = [master EXCEPT ![Wave] = master[Wave]]
      /\ running[Wave] \in BOOLEAN /\ master[Wave] \in BOOLEAN
      /\ running[Wave] => master[Wave]
  BY <1>1, <1>2 DEF MidiInv
<1> QED  BY <1>1, <1>2, <1>6, <1>7, <1>8, OneChannelWritten

\* A frequency of note n leaves the channel without a note or with that one.
LEMMA GlideSets ==
  ASSUME MidiInv, plugin = "midi", NEW c \in Channel, NEW n \in Nat
  PROVE  \E k \in Nat : /\ Renoted(m, Glide(c, n), c, k)
                        /\ k # 0 => running[c] /\ k = n
<1>1. m \in FileType /\ cycles \in Int
  BY DEF MidiInv
<1> DEFINE off == NoteOff(File, cycles, c)
           k == IF off.mute[c] \/ ~InRange(n) THEN off.note[c] ELSE n
<1>2. Renoted(File, off, c, 0)
  BY <1>1, FileFresh, NoteOffEnds
<1>3. Renoted(m, off, c, 0) /\ off \in FileType
  BY <1>1, <1>2, FileFresh, RenotedTwice DEF Renoted
<1>4. off.note[c] = 0
  BY <1>1, <1>3 DEF Renoted, FileType
<1>5. CASE running[c] /\ n # m.note[c]
  <2>1. Glide(c, n) = NoteOnInRange(off, cycles, c, n)
    BY <1>5 DEF Glide
  <2> HIDE DEF off
  <2>2. Renoted(off, Glide(c, n), c, k) /\ k \in {0, n}
    BY <1>1, <1>3, <1>4, <2>1, NoteOnInRangeBegins
  <2> HIDE DEF k
  <2>3. Renoted(m, Glide(c, n), c, k)
    BY <1>1, <1>3, <2>2, RenotedTwice
  <2> QED  BY <1>5, <2>2, <2>3
<1>6. CASE ~(running[c] /\ n # m.note[c])
  <2>1. Glide(c, n) = File
    BY <1>6 DEF Glide
  <2>2. m.note[c] # 0 => running[c] /\ m.note[c] = n
    BY <1>6, ChannelState
  <2> QED  BY <1>1, <2>1, <2>2, FileFresh, ChannelState
<1> QED  BY <1>5, <1>6

LEMMA WriteFreqLowNotes ==
  ASSUME MidiInv, NEW c \in Channel, NEW lo \in Los, WriteFreqLow(c, lo)
  PROVE  MidiInv'
<1> DEFINE d == <<div[c][1], lo>>
<1>1. plugin = "midi"
  BY DEF WriteFreqLow, IsMidi
<1>2. d \in Freq
  BY <1>1, ChannelState DEF Freq
<1>3. /\ div' = [div EXCEPT ![c] = d] /\ div'[c] = d
      /\ UNCHANGED <<plugin, cycles, playing, running, master>>
  BY DEF WriteFreqLow, MidiInv
<1>4. m' = Glide(c, NoteOf[d])
  BY <1>3 DEF WriteFreqLow
<1> HIDE DEF d
<1>5. NoteOf[d] \in Nat
  BY <1>2, NoteOfType
<1>6. PICK n \in Nat : Renoted(m, m', c, n) /\ (n # 0 => running[c] /\ n = NoteOf[d])
  BY <1>1, <1>4, <1>5, GlideSets
<1>7. /\ running' = [running EXCEPT ![c] = running[c]]
      /\ master' = [master EXCEPT ![c] = master[c]]
      /\ running[c] \in BOOLEAN /\ master[c] \in BOOLEAN
      /\ running[c] => master[c]
  BY <1>1, <1>3 DEF MidiInv
<1> QED  BY <1>1, <1>2, <1>3, <1>6, <1>7, OneChannelWritten

LEMMA WriteControlNotes ==
  ASSUME MidiInv, NEW c \in Channel, NEW hi \in His, NEW trigger \in BOOLEAN,
         WriteControl(c, hi, trigger)
  PROVE  MidiInv'
<1> DEFINE d == <<hi, div[c][2]>>
           n == NoteOf[d]
           starts == trigger /\ InRange(n) /\ master[c]
           off == NoteOff(File, cycles, c)
           r == running[c] \/ starts
<1>1. plugin = "midi" /\ m \in FileType /\ cycles \in Int
  BY DEF WriteControl, IsMidi, MidiInv
<1>2. d \in Freq
  BY <1>1, ChannelState DEF Freq
<1>3. /\ div' = [div EXCEPT ![c] = d] /\ div'[c] = d
      /\ UNCHANGED <<plugin, cycles, playing, master>>
  BY DEF WriteControl, MidiInv
<1> HIDE DEF d
<1>4. /\ m' = IF starts THEN NoteOn(off, cycles, c, n)
              ELSE IF trigger THEN off ELSE Glide(c, n)
      /\ running' = [running EXCEPT ![c] = r]
  BY <1>3 DEF WriteControl
<1>5. n \in Nat
  BY <1>2, NoteOfType
<1>6. Renoted(m, off, c, 0) /\ off \in FileType
  <2>1. Renoted(File, off, c, 0)
    BY <1>1, FileFresh, NoteOffEnds
  <2> QED  BY <1>1, <2>1, FileFresh, RenotedTwice DEF Renoted
<1>7. off.note[c] = 0
  BY <1>1, <1>6 DEF Renoted, FileType
<1>8. /\ running[c] \in BOOLEAN /\ master[c] \in BOOLEAN /\ starts \in BOOLEAN
      /\ running[c] => master[c]
      /\ master' = [master EXCEPT ![c] = master[c]]
  BY <1>1, <1>3 DEF MidiInv, InRange
<1>9. \E k \in Nat : Renoted(m, m', c, k) /\ (k # 0 => r /\ k = n)
  <2>1. CASE starts
    <3> HIDE DEF off, n
    <3> DEFINE k == IF off.mute[c] THEN off.note[c] ELSE n
    <3>1. Renoted(off, m', c, k) /\ k \in {0, n}
      BY <1>1, <1>4, <1>5, <1>6, <1>7, <2>1, NoteOnBegins
    <3> HIDE DEF k
    <3>2. Renoted(m, m', c, k)
      BY <1>1, <1>6, <3>1, RenotedTwice
    <3> QED  BY <1>5, <2>1, <3>1, <3>2
  <2>2. CASE ~starts /\ trigger
    BY <1>4, <1>6, <2>2
  <2>3. CASE ~starts /\ ~trigger
    <3>1. m' = Glide(c, n)
      BY <1>4, <2>3
    <3> HIDE DEF n
    <3>2. PICK k \in Nat : Renoted(m, m', c, k) /\ (k # 0 => running[c] /\ k = n)
      BY <1>1, <1>5, <3>1, GlideSets
    <3> QED  BY <3>2
  <2> QED  BY <2>1, <2>2, <2>3
<1>10. PICK k \in Nat : Renoted(m, m', c, k) /\ (k # 0 => r /\ k = n)
  BY <1>9
<1>11. r \in BOOLEAN /\ (r => master[c])
  BY <1>8
<1> HIDE DEF r, starts, off
<1> QED  BY <1>1, <1>2, <1>3, <1>4, <1>8, <1>10, <1>11, OneChannelWritten

\* Every channel's note is set in turn.
LEMMA AllRenoted ==
  ASSUME NEW f0 \in FileType, NEW f1, NEW f2, NEW f3, NEW f4,
         NEW n0, NEW n1, NEW n2, NEW n3,
         Renoted(f0, f1, 0, n0), Renoted(f1, f2, 1, n1),
         Renoted(f2, f3, 2, n2), Renoted(f3, f4, 3, n3)
  PROVE  /\ f4 \in FileType /\ f4.mute = f0.mute /\ f4.open = f0.open
         /\ f3 \in FileType /\ f3.mute = f0.mute /\ f3.open = f0.open
         /\ f4.note[0] = n0 /\ f4.note[1] = n1 /\ f4.note[2] = n2 /\ f4.note[3] = n3
         /\ f3.note[0] = n0 /\ f3.note[1] = n1 /\ f3.note[2] = n2
         /\ f3.note[3] = f0.note[3]
<1>1. {0, 1, 2, 3} \subseteq Channel
  BY DEF Channel
<1>2. /\ f0.note \in [Channel -> Nat] /\ f1.note \in [Channel -> Nat]
      /\ f2.note \in [Channel -> Nat] /\ f3.note \in [Channel -> Nat]
  BY DEF Renoted, FileType
<1> QED  BY <1>1, <1>2 DEF Renoted

LEMMA AllFour ==
  ASSUME NEW c \in Channel
  PROVE  c \in {0, 1, 2, 3}
BY DEF Channel

LEMMA OffEnds ==
  ASSUME NEW f \in FileType
  PROVE  Off(f) \in FileType /\ Off(f).open = f.open /\ \A c \in Channel : Off(f).note[c] = 0
<1> DEFINE Next1(g, c) == NoteOff(g, g.prev + 1, c)
           f1 == Next1(f, 0)
           f2 == Next1(f1, 1)
           f3 == Next1(f2, 2)
           f4 == Next1(f3, 3)
<1>1. ASSUME NEW g \in FileType, NEW c \in Channel
      PROVE  Renoted(g, Next1(g, c), c, 0) /\ Next1(g, c) \in FileType
  <2>1. g.prev + 1 \in Int
    BY DEF FileType
  <2> QED  BY <2>1, NoteOffEnds DEF Renoted
<1>2. {0, 1, 2, 3} \subseteq Channel
  BY DEF Channel
<1>3. Off(f) = f4
  BY DEF Off, Channels, Tones
<1> HIDE DEF Next1
<1>4. f1 \in FileType /\ f2 \in FileType /\ f3 \in FileType
  BY <1>1, <1>2
<1>5. Renoted(f, f1, 0, 0) /\ Renoted(f1, f2, 1, 0) /\ Renoted(f2, f3, 2, 0) /\ Renoted(f3, f4, 3, 0)
  BY <1>1, <1>2, <1>4
<1> HIDE DEF f1, f2, f3, f4
<1> QED  BY <1>3, <1>5, AllRenoted, AllFour

OffAt(f, at) == Channels(LAMBDA g, c : NoteOff(g, at, c), f)

LEMMA OffAtEnds ==
  ASSUME NEW f \in FileType, NEW at \in Int
  PROVE  /\ OffAt(f, at) \in FileType /\ OffAt(f, at).open = f.open
         /\ \A c \in Channel : OffAt(f, at).note[c] = 0
<1> DEFINE Next1(g, c) == NoteOff(g, at, c)
           f1 == Next1(f, 0)
           f2 == Next1(f1, 1)
           f3 == Next1(f2, 2)
           f4 == Next1(f3, 3)
<1>1. ASSUME NEW g \in FileType, NEW c \in Channel
      PROVE  Renoted(g, Next1(g, c), c, 0) /\ Next1(g, c) \in FileType
  BY NoteOffEnds DEF Renoted
<1>2. {0, 1, 2, 3} \subseteq Channel
  BY DEF Channel
<1>3. OffAt(f, at) = f4
  BY DEF OffAt, Channels, Tones
<1> HIDE DEF Next1
<1>4. f1 \in FileType /\ f2 \in FileType /\ f3 \in FileType
  BY <1>1, <1>2
<1>5. Renoted(f, f1, 0, 0) /\ Renoted(f1, f2, 1, 0) /\ Renoted(f2, f3, 2, 0) /\ Renoted(f3, f4, 3, 0)
  BY <1>1, <1>2, <1>4
<1> HIDE DEF f1, f2, f3, f4
<1> QED  BY <1>3, <1>5, AllRenoted, AllFour

PanAt(f, at) == Channels(LAMBDA g, c : Pan(g, at, c), f)

LEMMA PanAtKeeps ==
  ASSUME NEW f \in FileType, NEW at \in Int
  PROVE  /\ PanAt(f, at) \in FileType
         /\ PanAt(f, at).note = f.note
         /\ PanAt(f, at).mute = f.mute /\ PanAt(f, at).open = f.open
<1> DEFINE f1 == Pan(f, at, 0)
           f2 == Pan(f1, at, 1)
           f3 == Pan(f2, at, 2)
           f4 == Pan(f3, at, 3)
<1>1. {0, 1, 2, 3} \subseteq Channel
  BY DEF Channel
<1>2. PanAt(f, at) = f4
  BY DEF PanAt, Channels, Tones
<1>3. f1 \in FileType /\ f1.open = f.open /\ f1.note = f.note /\ f1.mute = f.mute
  BY <1>1, PanKeeps
<1> HIDE DEF f1
<1>4. f2 \in FileType /\ f2.open = f.open /\ f2.note = f.note /\ f2.mute = f.mute
  BY <1>1, <1>3, PanKeeps
<1> HIDE DEF f2
<1>5. f3 \in FileType /\ f3.open = f.open /\ f3.note = f.note /\ f3.mute = f.mute
  BY <1>1, <1>4, PanKeeps
<1> HIDE DEF f3
<1>6. f4 \in FileType /\ f4.open = f.open /\ f4.note = f.note /\ f4.mute = f.mute
  BY <1>1, <1>5, PanKeeps
<1> HIDE DEF f4
<1> QED  BY <1>2, <1>6

-----------------------------------------------------------------------------
\* No note begins, and the channels stay as they are.
LEMMA NotesEnd ==
  ASSUME MidiInv, m' \in FileType, cycles' \in Nat,
         UNCHANGED <<plugin, div, running, master, playing>>,
         \A c \in Channel : m'.note[c] \in {0, m.note[c]}
  PROVE  MidiInv'
BY DEF MidiInv, NoteHasChannel, NoteIsCurrent

LEMMA PowerOffNotes == MidiInv /\ PowerOff => MidiInv'
<1> SUFFICES ASSUME MidiInv, PowerOff PROVE MidiInv'
  OBVIOUS
<1>1. m \in FileType /\ cycles \in Int
  BY DEF MidiInv
<1>2. File \in FileType
  BY <1>1, FileFresh
<1>3. m' \in FileType /\ \A c \in Channel : m'.note[c] = 0
  BY <1>1, <1>2, OffAtEnds DEF PowerOff, OffAt
<1>4. <<0, 0>> \in Freq
  BY NoteAssumption DEF Freq
<1>5. /\ div' \in [Channel -> Freq]
      /\ running' = [c \in Channel |-> FALSE] /\ master' = [c \in Channel |-> TRUE]
      /\ UNCHANGED <<plugin, cycles, playing>>
  BY <1>4 DEF PowerOff
<1> QED  BY <1>3, <1>5 DEF MidiInv, NoteHasChannel, NoteIsCurrent

LEMMA WritePanNotes == MidiInv /\ WritePan => MidiInv'
<1> SUFFICES ASSUME MidiInv, WritePan PROVE MidiInv'
  OBVIOUS
<1>1. m \in FileType /\ cycles \in Int
  BY DEF MidiInv
<1>2. m' \in FileType /\ m'.note = m.note
  BY <1>1, FileFresh, PanAtKeeps DEF WritePan, PanAt
<1> QED  BY <1>2, NotesEnd DEF WritePan, chanVars, MidiInv

LEMMA AltVolumeNotes ==
  ASSUME MidiInv, NEW c \in Channel, NEW vol, AltVolume(c, vol)
  PROVE  MidiInv'
BY FileFresh, NotesEnd DEF AltVolume, MidiInv

LEMMA AltTriggerNotes ==
  ASSUME MidiInv, NEW c \in Channel, AltTrigger(c)
  PROVE  MidiInv'
<1>1. m \in FileType /\ cycles \in Int /\ m.note \in [Channel -> Nat]
  BY DEF MidiInv, FileType
<1>2. Renoted(File, m', c, 0) /\ File \in FileType /\ File.note = m.note
  BY <1>1, FileFresh, NoteOffEnds DEF AltTrigger
<1>3. m' \in FileType /\ m'.note = [m.note EXCEPT ![c] = 0]
  BY <1>2 DEF Renoted
<1> QED  BY <1>1, <1>3 DEF AltTrigger, MidiInv, NoteHasChannel, NoteIsCurrent

LEMMA AltNoteSets ==
  ASSUME NEW f \in FileType, NEW at \in Int, NEW c \in Channel,
         NEW plays, NEW n \in Nat, playing[c] \in BOOLEAN, f.note[c] # 0 => playing[c]
  PROVE  \E k \in Nat : /\ Renoted(f, AltNote(f, at, c, plays, n), c, k)
                        /\ k # 0 => plays /\ (playing[c] \/ InRange(n))
<1>1. f.note[c] \in Nat /\ Renoted(f, f, c, f.note[c])
  BY DEF FileType, Renoted
<1> DEFINE off == NoteOff(f, at, c)
<1>2. Renoted(f, off, c, 0) /\ off \in FileType
  BY NoteOffEnds DEF Renoted
<1>3. off.note[c] = 0
  BY <1>2 DEF Renoted, FileType
<1>4. CASE ~playing[c] /\ plays
  <2> DEFINE k == IF f.mute[c] \/ ~InRange(n) THEN f.note[c] ELSE n
  <2>1. Renoted(f, AltNote(f, at, c, plays, n), c, k)
    BY <1>4, NoteOnInRangeBegins DEF AltNote
  <2>2. k \in Nat /\ (k # 0 => InRange(n))
    BY <1>1, <1>4
  <2> HIDE DEF k
  <2> QED  BY <1>4, <2>1, <2>2
<1>5. CASE ~playing[c] /\ ~plays
  <2>1. AltNote(f, at, c, plays, n) = f /\ f.note[c] = 0
    BY <1>5 DEF AltNote
  <2> QED  BY <1>1, <2>1
<1>6. CASE playing[c] /\ ~plays
  <2>1. AltNote(f, at, c, plays, n) = off
    BY <1>6 DEF AltNote
  <2> QED  BY <1>2, <2>1
<1>7. CASE playing[c] /\ plays /\ n # f.note[c]
  <2>1. AltNote(f, at, c, plays, n) = NoteOnInRange(off, at, c, n)
    BY <1>7 DEF AltNote
  <2> HIDE DEF off
  <2> DEFINE k == IF off.mute[c] \/ ~InRange(n) THEN off.note[c] ELSE n
  <2>2. Renoted(off, NoteOnInRange(off, at, c, n), c, k) /\ k \in Nat
    BY <1>2, <1>3, NoteOnInRangeBegins
  <2> HIDE DEF k
  <2>3. Renoted(f, AltNote(f, at, c, plays, n), c, k)
    BY <1>2, <2>1, <2>2, RenotedTwice
  <2> QED  BY <1>7, <2>2, <2>3
<1>8. CASE playing[c] /\ plays /\ n = f.note[c]
  <2>1. AltNote(f, at, c, plays, n) = f
    BY <1>8 DEF AltNote
  <2> QED  BY <1>1, <1>8, <2>1
<1> QED  BY <1>4, <1>5, <1>6, <1>7, <1>8

LEMMA StepNotes ==
  ASSUME MidiInv, NEW n \in Delays, NEW mute \in [Channel -> BOOLEAN],
         NEW plays \in [0 .. 2 -> BOOLEAN], NEW freq \in [0 .. 2 -> Freq],
         Step(n, mute, plays, freq)
  PROVE  MidiInv'
<1> DEFINE f == [File EXCEPT !.mute = mute]
           note == [c \in 0 .. 2 |-> NoteOf[freq[c]]]
<1>1. m \in FileType /\ cycles \in Nat /\ n \in Nat
  BY TimeAssumption DEF MidiInv
<1>2. cycles' = cycles + n /\ UNCHANGED <<plugin, div, running, master>>
  BY DEF Step
<1>3a. cycles' \in Nat
  BY <1>1, <1>2
<1>3. f \in FileType /\ f.note = m.note
  BY <1>1, FileFresh DEF FileType
<1>4. CASE plugin = "midi"
  <2>1. m' = f /\ UNCHANGED playing
    BY <1>4 DEF Step
  <2> HIDE DEF f
  <2> QED  BY <1>2, <1>3a, <1>3, <2>1, NotesEnd
<1>5. CASE plugin # "midi"
  <2> DEFINE Alt(g, c) == AltNote(g, cycles', c, plays[c], note[c])
             Plays(c) == plays[c] /\ (playing[c] \/ InRange(note[c]))
             f1 == Alt(f, 0)
             f2 == Alt(f1, 1)
             f3 == Alt(f2, 2)
  <2>1. m' = f3 /\ playing' = [c \in Channel |-> IF c = 3 THEN playing[c] ELSE Plays(c)]
    BY <1>5 DEF Step, Tones
  <2>2. {0, 1, 2, 3} \subseteq Channel /\ {0, 1, 2} \subseteq 0 .. 2
    BY DEF Channel
  <2>3. \A c \in 0 .. 2 : note[c] \in Nat /\ plays[c] \in BOOLEAN /\ c \in Channel
    BY NoteOfType DEF Channel
  <2>4. \A c \in Channel : playing[c] \in BOOLEAN /\ (m.note[c] # 0 => playing[c])
    BY <1>5 DEF MidiInv, NoteHasChannel
  <2> HIDE DEF f, note
  <2>4a. ASSUME NEW g \in FileType, NEW c \in 0 .. 2, g.note[c] = m.note[c]
        PROVE  \E k \in Nat : Renoted(g, Alt(g, c), c, k) /\ (k # 0 => Plays(c))
    <3>1. /\ c \in Channel /\ plays[c] \in BOOLEAN /\ note[c] \in Nat /\ cycles' \in Int
          /\ playing[c] \in BOOLEAN /\ (g.note[c] # 0 => playing[c])
      BY <1>3a, <2>3, <2>4, <2>4a
    <3> QED  BY <3>1, AltNoteSets
  <2> HIDE DEF Alt, Plays
  <2>5. PICK n0 \in Nat : Renoted(f, f1, 0, n0) /\ (n0 # 0 => Plays(0))
    BY <1>3, <2>2, <2>4a
  <2> HIDE DEF f1
  <2>6. f1 \in FileType /\ f1.note[1] = m.note[1] /\ f1.note[2] = m.note[2]
    BY <1>3, <2>2, <2>5, SMTT(30) DEF Renoted, FileType
  <2>7. PICK n1 \in Nat : Renoted(f1, f2, 1, n1) /\ (n1 # 0 => Plays(1))
    BY <2>2, <2>6, <2>4a
  <2> HIDE DEF f2
  <2>8. f2 \in FileType /\ f2.note[2] = m.note[2]
    BY <2>2, <2>6, <2>7 DEF Renoted, FileType
  <2>9. PICK n2 \in Nat : Renoted(f2, f3, 2, n2) /\ (n2 # 0 => Plays(2))
    BY <2>2, <2>8, <2>4a
  <2> HIDE DEF f3
  <2>10. Renoted(f3, f3, 3, f3.note[3])
    BY <2>2, <2>9 DEF Renoted, FileType
  <2>11. /\ m' \in FileType
         /\ m'.note[0] = n0 /\ m'.note[1] = n1 /\ m'.note[2] = n2 /\ m'.note[3] = m.note[3]
    BY <1>3, <2>1, <2>5, <2>7, <2>9, <2>10, AllRenoted
  <2>11a. \A c \in 0 .. 2 : Plays(c) \in BOOLEAN
    BY <2>3, <2>4 DEF Plays, InRange
  <2>12. /\ playing' \in [Channel -> BOOLEAN]
         /\ playing'[0] = Plays(0) /\ playing'[1] = Plays(1) /\ playing'[2] = Plays(2)
         /\ playing'[3] = playing[3]
    <3>1. \A c \in Channel : c # 3 => c \in 0 .. 2
      BY DEF Channel
    <3> QED  BY <2>1, <2>2, <2>4, <2>11a, <3>1
  <2>13. \A c \in Channel : m'.note[c] # 0 => playing'[c]
    BY <2>2, <2>4, <2>5, <2>7, <2>9, <2>11, <2>12, AllFour
  <2> QED
    BY <1>2, <1>3a, <1>5, <2>11, <2>12, <2>13 DEF MidiInv, NoteHasChannel, NoteIsCurrent
<1> QED  BY <1>4, <1>5

LEMMA EndOfTrackKeeps ==
  ASSUME NEW f \in FileType
  PROVE  EndOfTrack(f) \in FileType /\ EndOfTrack(f).note = f.note
<1> DEFINE g == Event(f, f.prev, "end", 0, 0)
<1>1. f.prev \in Int /\ 0 \in Channel /\ 0 \in Nat
  BY DEF FileType, Channel
<1>2. g \in FileType /\ g.note = f.note
  BY <1>1, EventWrites
<1>3. EndOfTrack(f) = [g EXCEPT !.open = FALSE]
  BY DEF EndOfTrack
<1> HIDE DEF g
<1> QED  BY <1>2, <1>3 DEF FileType

LEMMA SkipNotes ==
  ASSUME MidiInv, NEW opens \in BOOLEAN, Skip(opens)
  PROVE  MidiInv'
<1> DEFINE f == IF m.open THEN EndOfTrack(File) ELSE File
<1>1. m \in FileType /\ File \in FileType
  BY FileFresh DEF MidiInv
<1>2. f \in FileType
  BY <1>1, EndOfTrackKeeps
<1>3. m' = [f EXCEPT !.open = opens, !.prev = 0, !.note = [c \in Channel |-> 0]]
  BY DEF Skip
<1> HIDE DEF f
<1>4. m' \in FileType /\ m'.note = [c \in Channel |-> 0]
  <2> DEFINE silent == [c \in Channel |-> 0]
  <2>1. silent \in [Channel -> Nat]
    OBVIOUS
  <2> HIDE DEF silent
  <2>2. m' = [f EXCEPT !.open = opens, !.prev = 0, !.note = silent]
    BY <1>3 DEF silent
  <2> DEFINE f1 == [f EXCEPT !.open = opens]
             f2 == [f1 EXCEPT !.prev = 0]
             f3 == [f2 EXCEPT !.note = silent]
  <2>3. f1 \in FileType
    BY <1>2 DEF FileType
  <2>4. m' = f3
    BY <1>2, <2>2 DEF FileType
  <2> HIDE DEF f1
  <2>5. f2 \in FileType
    <3>1. \A t \in Int : [f1 EXCEPT !.prev = t] \in FileType
      BY <2>3 DEF FileType
    <3> QED  BY <3>1
  <2> HIDE DEF f2
  <2>6. f3 \in FileType /\ f3.note = silent
    BY <2>1, <2>5 DEF FileType
  <2> QED  BY <2>4, <2>6 DEF silent
<1>5. cycles' \in Nat /\ UNCHANGED <<plugin, chanVars>>
  BY DEF Skip
<1> QED  BY <1>4, <1>5, NotesEnd DEF chanVars

LEMMA CloseNotes == MidiInv /\ Close => MidiInv'
<1> SUFFICES ASSUME MidiInv, Close PROVE MidiInv'
  OBVIOUS
<1>1. m \in FileType /\ File \in FileType /\ File.note = m.note
  BY FileFresh DEF MidiInv
<1>2. Off(File) \in FileType /\ \A c \in Channel : Off(File).note[c] = 0
  BY <1>1, OffEnds
<1>3. m' \in {File, EndOfTrack(Off(File))}
  BY DEF Close
<1>4. m' \in FileType /\ \A c \in Channel : m'.note[c] \in {0, m.note[c]}
  BY <1>1, <1>2, <1>3, EndOfTrackKeeps
<1> QED  BY <1>4, NotesEnd DEF Close, chanVars, MidiInv

LEMMA MidiStarts == Init => MidiInv
<1> SUFFICES ASSUME Init PROVE MidiInv
  OBVIOUS
<1>1. <<>> \in Seq(WrittenEvent)
  OBVIOUS
<1>2. m \in FileType
  BY <1>1 DEF Init, FileType
<1>3. <<0, 0>> \in Freq
  BY NoteAssumption DEF Freq
<1> QED  BY <1>2, <1>3 DEF Init, MidiInv, NoteHasChannel, NoteIsCurrent

LEMMA WriteToNotes ==
  ASSUME MidiInv, NEW c \in Channel, WriteTo(c)
  PROVE  MidiInv'
BY WriteEnvelopeNotes, WriteWaveMasterNotes, WriteWaveVolumeNotes, WriteFreqLowNotes,
   WriteControlNotes, AltVolumeNotes, AltTriggerNotes DEF WriteTo

LEMMA MidiKept == MidiInv /\ [Next]_vars => MidiInv'
<1> SUFFICES ASSUME MidiInv, [Next]_vars PROVE MidiInv'
  OBVIOUS
<1>1. CASE \E c \in 0 .. 2 : WriteTo(c)
  <2>1. PICK c \in 0 .. 2 : WriteTo(c)
    BY <1>1
  <2>2. c \in Channel
    BY DEF Channel
  <2> QED  BY <2>1, <2>2, WriteToNotes
<1>2. CASE \E n \in Delays, mute \in [Channel -> BOOLEAN], plays \in [0 .. 2 -> BOOLEAN],
             freq \in [0 .. 2 -> Freq] : Step(n, mute, plays, freq)
  BY <1>2, StepNotes
<1>3. CASE \E opens \in {TRUE, ~OpenMayFail} : Skip(opens)
  BY <1>3, SkipNotes, NoteAssumption
<1>4. CASE UNCHANGED vars
  BY <1>4 DEF vars, chanVars, MidiInv, NoteHasChannel, NoteIsCurrent
<1> QED  BY <1>1, <1>2, <1>3, <1>4, PowerOffNotes, WritePanNotes, CloseNotes DEF Next

THEOREM MidiInvariant == Spec => []MidiInv
BY MidiStarts, MidiKept, PTL DEF Spec

\* No order of triggers, volumes, masters, mutes and power leaves a note on whose
\* channel has stopped, in either of the two writers (midi_io, midi_step).
THEOREM NotesHaveChannels == Spec => []NoteHasChannel
BY MidiInvariant, PTL DEF MidiInv

\* The note that is on is the one of the two frequency registers together, in
\* whichever order they are written (midi_io).
THEOREM NotesAreCurrent == Spec => []NoteIsCurrent
BY MidiInvariant, PTL DEF MidiInv

-----------------------------------------------------------------------------
\* What a reader knows after the events of a call so far.
HeardOf(f) == Accumulated(Hear, sounding, f.written)
TimeOf(f) == Accumulated(Tick, clock, f.written)

\* It agrees with what midifile.c keeps: the notes that are on, and the time, if
\* the events happened at at.
HearsNotes(f) == f \in FileType /\ HeardOf(f) = f.note
KeepsTime(f, at) ==
  /\ TimeOf(f) \in Int /\ TimeOf(f) * Resolution = f.prev
  /\ f.written # <<>> => TimeOf(f) = at \div Resolution

HistType == sounding \in [Channel -> Int] /\ clock \in Int

LEMMA Readers ==
  /\ Hear \in [[Channel -> Int] \X WrittenEvent -> [Channel -> Int]]
  /\ Tick \in [Int \X WrittenEvent -> Int]
<1>1. ASSUME NEW s \in [Channel -> Int], NEW e \in WrittenEvent
      PROVE  Hear[<<s, e>>] \in [Channel -> Int]
  BY DEF Hear, WrittenEvent, Overlap
<1>2. Hear \in [[Channel -> Int] \X WrittenEvent -> [Channel -> Int]]
  <2> DEFINE D == [Channel -> Int] \X WrittenEvent
  <2>1. Hear = [p \in D |-> Hear[p]]
    BY DEF Hear
  <2>2. ASSUME NEW p \in D PROVE Hear[p] \in [Channel -> Int]
    <3>1. p = <<p[1], p[2]>> /\ p[1] \in [Channel -> Int] /\ p[2] \in WrittenEvent
      OBVIOUS
    <3> QED  BY <1>1, <3>1
  <2> HIDE DEF D
  <2>3. [p \in D |-> Hear[p]] \in [D -> [Channel -> Int]]
    BY <2>2
  <2> QED  BY <2>1, <2>3 DEF D
<1>3. Tick \in [Int \X WrittenEvent -> Int]
  BY DEF Tick, WrittenEvent
<1> QED  BY <1>2, <1>3

LEMMA HeardType ==
  ASSUME HistType, NEW f \in FileType
  PROVE  HeardOf(f) \in [Channel -> Int] /\ TimeOf(f) \in Int
<1>1. f.written \in Seq(WrittenEvent)
  BY DEF FileType
<1>2. PICK e \in WrittenEvent : TRUE
  <2>1. [what |-> "pan", chan |-> 0, note |-> 0, delta |-> 0] \in WrittenEvent
    BY DEF WrittenEvent, Channel
  <2> QED  BY <2>1
<1> QED  BY <1>1, <1>2, Readers, AccumulatedAppend DEF HeardOf, TimeOf, HistType

LEMMA OneMoreEvent ==
  ASSUME HistType, NEW w \in Seq(WrittenEvent), NEW e \in WrittenEvent
  PROVE  /\ Accumulated(Hear, sounding, Append(w, e)) = Hear[<<Accumulated(Hear, sounding, w), e>>]
         /\ Accumulated(Tick, clock, Append(w, e)) = Tick[<<Accumulated(Tick, clock, w), e>>]
<1>1. sounding \in [Channel -> Int] /\ clock \in Int
  BY DEF HistType
<1>2. OneMore(Hear, sounding, w, e)
  BY <1>1, Readers, AccumulatedAppend
<1>3. OneMore(Tick, clock, w, e)
  BY <1>1, Readers, AccumulatedAppend
<1> QED  BY <1>2, <1>3 DEF OneMore

Hears(f, g, what, c, n) ==
  \E delta \in Int :
    HeardOf(g) = Hear[<<HeardOf(f), [what |-> what, chan |-> c, note |-> n, delta |-> delta]>>]

\* midi_write_event rounds the time of the event down, once.
LEMMA EventIsHeard ==
  ASSUME HistType, NEW f \in FileType, NEW at \in Int, NEW c \in Channel, NEW n \in Nat,
         NEW what \in {"on", "off", "pan", "end"}
  PROVE  LET g == Event(f, at, what, c, n)
         IN  /\ g.written # <<>>
             /\ Hears(f, g, what, c, n)
             /\ KeepsTime(f, at) => KeepsTime(g, at)
<1> DEFINE delta == (at - f.prev) \div Resolution
           event == [what |-> what, chan |-> c, note |-> n, delta |-> delta]
           g == Event(f, at, what, c, n)
<1>1. Resolution \in Nat \ {0} /\ f.prev \in Int
  BY TimeAssumption DEF FileType
<1>2. delta \in Int
  BY <1>1
<1>3. event \in WrittenEvent /\ event.delta = delta
  <2> HIDE DEF delta
  <2> QED  BY <1>2 DEF WrittenEvent
<1>4. f.written \in Seq(WrittenEvent)
  BY DEF FileType
<1>5. g.written = Append(f.written, event) /\ g.prev = f.prev + delta * Resolution
  <2> HIDE DEF delta
  <2> QED  BY DEF Event, delta, FileType
<1> HIDE DEF event, g
<1>6. HeardOf(g) = Hear[<<HeardOf(f), event>>] /\ TimeOf(g) = Tick[<<TimeOf(f), event>>]
  <2> HIDE DEF delta
  <2>1. /\ Accumulated(Hear, sounding, Append(f.written, event))
             = Hear[<<Accumulated(Hear, sounding, f.written), event>>]
        /\ Accumulated(Tick, clock, Append(f.written, event))
             = Tick[<<Accumulated(Tick, clock, f.written), event>>]
    BY <1>3, <1>4, OneMoreEvent
  <2> QED  BY <1>5, <2>1 DEF HeardOf, TimeOf
<1>7. TimeOf(f) \in Int
  BY HeardType
<1>8. TimeOf(g) = TimeOf(f) + delta
  BY <1>3, <1>6, <1>7 DEF Tick
<1>9. ASSUME KeepsTime(f, at) PROVE KeepsTime(g, at)
  <2> DEFINE t == TimeOf(f)
  <2> HIDE DEF t
  <2>1. t \in Int /\ f.prev = t * Resolution
    BY <1>9 DEF KeepsTime, t
  <2>2. delta = (at \div Resolution) - t
    BY <1>1, <2>1
  <2>3. TimeOf(g) = at \div Resolution /\ at \div Resolution \in Int
    BY <1>1, <1>8, <2>1, <2>2 DEF t
  <2>4. g.prev = (at \div Resolution) * Resolution
    <3> DEFINE q == at \div Resolution
    <3>1. q \in Int
      BY <1>1
    <3>2. g.prev = t * Resolution + (q - t) * Resolution
      BY <1>5, <2>1, <2>2
    <3> HIDE DEF q
    <3>3. t * Resolution + (q - t) * Resolution = q * Resolution
      BY <1>1, <2>1, <3>1
    <3> QED  BY <3>2, <3>3 DEF q
  <2> QED  BY <2>3, <2>4 DEF KeepsTime
<1>10. g.written # <<>>
  BY <1>4, <1>5
<1>11. Hears(f, g, what, c, n)
  BY <1>2, <1>6 DEF Hears, event
<1> QED  BY <1>9, <1>10, <1>11 DEF g

Keeps(f, g, at) ==
  HearsNotes(g) /\ g.open = f.open /\ (KeepsTime(f, at) => KeepsTime(g, at))

\* The note of a channel has no bearing on the time.
LEMMA SameWritten ==
  ASSUME NEW f, NEW g, g.written = f.written
  PROVE  /\ HeardOf(g) = HeardOf(f)
         /\ \A at : g.prev = f.prev /\ KeepsTime(f, at) => KeepsTime(g, at)
BY DEF HeardOf, TimeOf, KeepsTime

LEMMA NoteOffIsHeard ==
  ASSUME HistType, NEW f, HearsNotes(f), NEW at \in Int, NEW c \in Channel
  PROVE  Keeps(f, NoteOff(f, at, c), at)
<1>1. f \in FileType /\ f.note \in [Channel -> Nat] /\ f.note[c] \in Nat /\ HeardOf(f) = f.note
  BY DEF HearsNotes, FileType
<1> DEFINE g == Event(f, at, "off", c, f.note[c])
           h == [g EXCEPT !.note[c] = 0]
<1>2. g \in FileType /\ g.note = f.note /\ g.open = f.open
  BY <1>1, EventWrites
<1>3. Hears(f, g, "off", c, f.note[c])
  BY <1>1, EventIsHeard
<1>4. KeepsTime(f, at) => KeepsTime(g, at)
  BY <1>1, EventIsHeard
<1> HIDE DEF g
<1>5. HeardOf(g) = [f.note EXCEPT ![c] = 0]
  <2>0. PICK delta \in Int :
          HeardOf(g) = Hear[<<f.note, [what |-> "off", chan |-> c, note |-> f.note[c],
                                       delta |-> delta]>>]
    BY <1>1, <1>3 DEF Hears
  <2> DEFINE e == [what |-> "off", chan |-> c, note |-> f.note[c], delta |-> delta]
  <2>1. e \in WrittenEvent /\ f.note \in [Channel -> Int]
    BY <1>1 DEF WrittenEvent
  <2> QED  BY <2>0, <2>1 DEF Hear
<1>6. /\ h \in FileType /\ h.written = g.written /\ h.prev = g.prev /\ h.open = f.open
      /\ h.note = [f.note EXCEPT ![c] = 0]
  BY <1>2 DEF FileType
<1> HIDE DEF h
<1>7. Keeps(f, h, at)
  BY <1>4, <1>5, <1>6, SameWritten DEF Keeps, HearsNotes
<1>8. NoteOff(f, at, c) \in {f, h} /\ Keeps(f, f, at)
  BY DEF NoteOff, g, h, Keeps
<1> QED  BY <1>7, <1>8

\* A note begins where none is on.
LEMMA NoteOnIsHeard ==
  ASSUME HistType, NEW f, HearsNotes(f), NEW at \in Int, NEW c \in Channel, NEW n \in Nat,
         f.note[c] = 0
  PROVE  Keeps(f, NoteOn(f, at, c, n), at)
<1>1. f \in FileType /\ f.note \in [Channel -> Nat] /\ HeardOf(f) = f.note
  BY DEF HearsNotes, FileType
<1> DEFINE g == Event(f, at, "on", c, n)
           h == [g EXCEPT !.note[c] = n]
<1>2. g \in FileType /\ g.note = f.note /\ g.open = f.open
  BY <1>1, EventWrites
<1>3. Hears(f, g, "on", c, n)
  BY <1>1, EventIsHeard
<1>4. KeepsTime(f, at) => KeepsTime(g, at)
  BY <1>1, EventIsHeard
<1> HIDE DEF g
<1>5. HeardOf(g) = [f.note EXCEPT ![c] = n]
  <2>0. PICK delta \in Int :
          HeardOf(g) = Hear[<<f.note, [what |-> "on", chan |-> c, note |-> n,
                                       delta |-> delta]>>]
    BY <1>1, <1>3 DEF Hears
  <2> DEFINE e == [what |-> "on", chan |-> c, note |-> n, delta |-> delta]
  <2>1. e \in WrittenEvent /\ f.note \in [Channel -> Int]
    BY <1>1 DEF WrittenEvent
  <2> QED  BY <2>0, <2>1 DEF Hear
<1>6. /\ h \in FileType /\ h.written = g.written /\ h.prev = g.prev /\ h.open = f.open
      /\ h.note = [f.note EXCEPT ![c] = n]
  BY <1>2 DEF FileType
<1> HIDE DEF h
<1>7. Keeps(f, h, at)
  BY <1>4, <1>5, <1>6, SameWritten DEF Keeps, HearsNotes
<1>8. NoteOn(f, at, c, n) \in {f, h} /\ Keeps(f, f, at)
  BY DEF NoteOn, g, h, Keeps
<1> QED  BY <1>7, <1>8

LEMMA NoteOnInRangeIsHeard ==
  ASSUME HistType, NEW f, HearsNotes(f), NEW at \in Int, NEW c \in Channel, NEW n \in Nat,
         f.note[c] = 0
  PROVE  Keeps(f, NoteOnInRange(f, at, c, n), at)
<1>1. NoteOnInRange(f, at, c, n) \in {f, NoteOn(f, at, c, n)} /\ Keeps(f, f, at)
  BY DEF NoteOnInRange, Keeps
<1> QED  BY <1>1, NoteOnIsHeard

LEMMA PanIsHeard ==
  ASSUME HistType, NEW f, HearsNotes(f), NEW at \in Int, NEW c \in Channel
  PROVE  Keeps(f, Pan(f, at, c), at)
<1>1. f \in FileType /\ f.note \in [Channel -> Nat] /\ HeardOf(f) = f.note /\ 0 \in Nat
  BY DEF HearsNotes, FileType
<1> DEFINE g == Event(f, at, "pan", c, 0)
<1>2. g \in FileType /\ g.note = f.note /\ g.open = f.open
  BY <1>1, EventWrites
<1>3. Hears(f, g, "pan", c, 0)
  BY <1>1, EventIsHeard
<1>4. KeepsTime(f, at) => KeepsTime(g, at)
  BY <1>1, EventIsHeard
<1>5. HeardOf(g) = f.note
  <2>0. PICK delta \in Int :
          HeardOf(g) = Hear[<<f.note, [what |-> "pan", chan |-> c, note |-> 0,
                                       delta |-> delta]>>]
    BY <1>1, <1>3 DEF Hears
  <2> DEFINE e == [what |-> "pan", chan |-> c, note |-> 0, delta |-> delta]
  <2>1. e \in WrittenEvent /\ f.note \in [Channel -> Int]
    BY <1>1 DEF WrittenEvent
  <2> HIDE DEF g
  <2> QED  BY <2>0, <2>1 DEF Hear
<1> HIDE DEF g
<1>6. Pan(f, at, c) \in {f, g} /\ Keeps(f, f, at)
  BY DEF Pan, g, Keeps
<1> QED  BY <1>2, <1>4, <1>5, <1>6 DEF Keeps, HearsNotes

LEMMA KeepsTwice ==
  ASSUME NEW f, NEW g, NEW h, NEW at, Keeps(f, g, at), Keeps(g, h, at)
  PROVE  Keeps(f, h, at)
BY DEF Keeps

\* Another note, after the one that is on.
LEMMA NextNoteIsHeard ==
  ASSUME HistType, NEW f, HearsNotes(f), NEW at \in Int, NEW c \in Channel, NEW n \in Nat
  PROVE  /\ Keeps(f, NoteOn(NoteOff(f, at, c), at, c, n), at)
         /\ Keeps(f, NoteOnInRange(NoteOff(f, at, c), at, c, n), at)
<1> DEFINE g == NoteOff(f, at, c)
<1>1. Keeps(f, g, at) /\ HearsNotes(g)
  BY NoteOffIsHeard DEF Keeps
<1>2. g.note[c] = 0
  <2>1. f \in FileType
    BY DEF HearsNotes
  <2>2. Renoted(f, g, c, 0)
    BY <2>1, NoteOffEnds
  <2> QED  BY <2>1, <2>2 DEF Renoted, FileType
<1> HIDE DEF g
<1>3. Keeps(g, NoteOn(g, at, c, n), at) /\ Keeps(g, NoteOnInRange(g, at, c, n), at)
  BY <1>1, <1>2, NoteOnIsHeard, NoteOnInRangeIsHeard
<1>4. Keeps(f, NoteOn(g, at, c, n), at) /\ Keeps(f, NoteOnInRange(g, at, c, n), at)
  BY <1>1, <1>3, KeepsTwice
<1> QED  BY <1>4 DEF g

-----------------------------------------------------------------------------
HistInv ==
  /\ MidiInv /\ HistType /\ used \in Used
  /\ phase = "playing" <=> m.open
  /\ m.open => sounding = m.note /\ m.prev = clock * Resolution
  /\ NotesTakeTurns /\ TimesAddUp

\* A call begins with a file that agrees with the reader.
Ready == HistType /\ MidiInv /\ HearsNotes(File)

LEMMA FileIsHeard ==
  ASSUME HistInv, m.open
  PROVE  Ready /\ \A at : KeepsTime(File, at)
<1>1. m \in FileType /\ clock \in Int /\ sounding \in [Channel -> Int]
  BY DEF HistInv, MidiInv, HistType
<1>2. File \in FileType /\ File.note = m.note /\ File.prev = m.prev /\ File.written = <<>>
  BY <1>1, FileFresh
<1>3. HeardOf(File) = sounding
  BY <1>1, <1>2, Readers, AccumulatedEmpty DEF HeardOf
<1>4. TimeOf(File) = clock
  BY <1>1, <1>2, Readers, AccumulatedEmpty DEF TimeOf
<1> QED  BY <1>1, <1>2, <1>3, <1>4 DEF Ready, HearsNotes, KeepsTime, HistInv

\* A call that writes what a reader can follow.
LEMMA CallIsHeard ==
  ASSUME HistInv, m.open, MidiInv', m'.open, phase' = "playing",
         Keeps(File, m', cycles'), sounding' = Heard, clock' = Time, used' = used
  PROVE  HistInv'
<1>1. HearsNotes(m') /\ KeepsTime(m', cycles')
  BY FileIsHeard DEF Keeps
<1>2. sounding' = m'.note /\ m' \in FileType
  BY <1>1 DEF HearsNotes, HeardOf, Heard
<1>3. sounding' \in [Channel -> Int]
  BY <1>2 DEF FileType
<1>4. clock' \in Int /\ m'.prev = clock' * Resolution
  BY <1>1 DEF KeepsTime, TimeOf, Time
<1>5. m'.written # <<>> => clock' = cycles' \div Resolution
  BY <1>1 DEF KeepsTime, TimeOf, Time
<1> QED
  BY <1>2, <1>3, <1>4, <1>5 DEF HistInv, HistType, NotesTakeTurns, TimesAddUp

LEMMA CyclesAreTime == MidiInv => cycles \in Int
BY DEF MidiInv

LEMMA MasterlessIsHeard ==
  ASSUME Ready, NEW c \in Channel, NEW on
  PROVE  Keeps(File, Masterless(c, on), cycles)
<1>1. Keeps(File, NoteOff(File, cycles, c), cycles) /\ Keeps(File, File, cycles)
  BY CyclesAreTime, NoteOffIsHeard DEF Ready, Keeps
<1> QED  BY <1>1 DEF Masterless

LEMMA NewVolumeIsHeard ==
  ASSUME Ready, plugin = "midi", div' = div, NEW f, HearsNotes(f), NEW c \in Channel, NEW vol
  PROVE  Keeps(f, NewVolume(f, c, vol), cycles)
<1>1. NoteOf[div[c]] \in Nat
  BY ChannelState DEF Ready
<1>2. Keeps(f, NoteOff(f, cycles, c), cycles) /\ Keeps(f, f, cycles)
  BY CyclesAreTime, NoteOffIsHeard DEF Ready, Keeps
<1>3. ASSUME f.note[c] = 0
      PROVE  Keeps(f, NoteOnInRange(f, cycles, c, NoteOf[div[c]]), cycles)
  BY <1>1, <1>3, CyclesAreTime, NoteOnInRangeIsHeard DEF Ready
<1> QED  BY <1>2, <1>3 DEF NewVolume

LEMMA GlideIsHeard ==
  ASSUME Ready, NEW c \in Channel, NEW n \in Nat
  PROVE  Keeps(File, Glide(c, n), cycles)
<1>1. Keeps(File, NoteOnInRange(NoteOff(File, cycles, c), cycles, c, n), cycles)
  BY CyclesAreTime, NextNoteIsHeard DEF Ready
<1>2. Keeps(File, File, cycles)
  BY DEF Ready, Keeps
<1> QED  BY <1>1, <1>2 DEF Glide

LEMMA WriteEnvelopeIsHeard ==
  ASSUME Ready, NEW c \in Channel, NEW vol, NEW up, WriteEnvelope(c, vol, up)
  PROVE  Keeps(File, m', cycles)
<1> DEFINE f == Masterless(c, vol # 0 \/ up)
<1>1. Keeps(File, f, cycles)
  BY MasterlessIsHeard
<1>2. m' = NewVolume(f, c, vol) /\ div' = div /\ plugin = "midi"
  BY DEF WriteEnvelope, IsMidi
<1> HIDE DEF f
<1>3. Keeps(f, m', cycles)
  BY <1>1, <1>2, NewVolumeIsHeard DEF Keeps
<1> QED  BY <1>1, <1>3, KeepsTwice

LEMMA WriteControlIsHeard ==
  ASSUME Ready, NEW c \in Channel, NEW hi \in His, NEW trigger, WriteControl(c, hi, trigger)
  PROVE  Keeps(File, m', cycles)
<1> DEFINE n == NoteOf[<<hi, div[c][2]>>]
<1>1. plugin = "midi" /\ div'[c] = <<hi, div[c][2]>>
  BY DEF WriteControl, IsMidi, Ready, MidiInv
<1>2. n \in Nat
  <2>1. <<hi, div[c][2]>> \in Freq
    BY <1>1, ChannelState DEF Freq, Ready
  <2> QED  BY <2>1, NoteOfType
<1>3. m' \in {NoteOn(NoteOff(File, cycles, c), cycles, c, n), NoteOff(File, cycles, c),
              Glide(c, n)}
  BY <1>1 DEF WriteControl
<1> HIDE DEF n
<1>4. /\ Keeps(File, NoteOn(NoteOff(File, cycles, c), cycles, c, n), cycles)
      /\ Keeps(File, NoteOff(File, cycles, c), cycles)
  BY <1>2, CyclesAreTime, NextNoteIsHeard, NoteOffIsHeard DEF Ready
<1>5. Keeps(File, Glide(c, n), cycles)
  BY <1>2, GlideIsHeard
<1> QED  BY <1>3, <1>4, <1>5

LEMMA WriteToIsHeard ==
  ASSUME Ready, NEW c \in Channel, WriteTo(c)
  PROVE  /\ Keeps(File, m', cycles') /\ cycles' = cycles
         /\ m.open /\ phase = "playing" /\ phase' = phase
<1>1. cycles \in Int /\ Keeps(File, File, cycles) /\ HearsNotes(File) /\ HistType
  BY CyclesAreTime DEF Ready, Keeps
<1>2. CASE \E vol \in {0, 1}, up \in BOOLEAN : WriteEnvelope(c, vol, up)
  BY <1>2, WriteEnvelopeIsHeard DEF WriteEnvelope, IsMidi
<1>3. CASE c = Wave /\ \E on \in BOOLEAN : WriteWaveMaster(on)
  BY <1>3, MasterlessIsHeard DEF WriteWaveMaster, IsMidi
<1>4. CASE c = Wave /\ \E vol \in {0, 1} : WriteWaveVolume(vol)
  BY <1>1, <1>4, NewVolumeIsHeard DEF WriteWaveVolume, IsMidi
<1>5. CASE \E lo \in Los : WriteFreqLow(c, lo)
  <2>1. PICK lo \in Los : WriteFreqLow(c, lo)
    BY <1>5
  <2>2. plugin = "midi" /\ div'[c] = <<div[c][1], lo>>
    BY <2>1 DEF WriteFreqLow, IsMidi, Ready, MidiInv
  <2>3. NoteOf[div'[c]] \in Nat
    BY <2>2, ChannelState, NoteOfType DEF Freq, Ready
  <2> QED  BY <2>1, <2>3, GlideIsHeard DEF WriteFreqLow, IsMidi
<1>6. CASE \E hi \in His, trigger \in BOOLEAN : WriteControl(c, hi, trigger)
  BY <1>6, WriteControlIsHeard DEF WriteControl, IsMidi
<1>7. CASE \E vol \in {0, 1} : AltVolume(c, vol)
  BY <1>1, <1>7 DEF AltVolume
<1>8. CASE AltTrigger(c)
  BY <1>1, <1>8, NoteOffIsHeard DEF AltTrigger
<1> QED  BY <1>2, <1>3, <1>4, <1>5, <1>6, <1>7, <1>8 DEF WriteTo

\* The loops over the channels.
LEMMA PowerOffIsHeard ==
  ASSUME Ready, PowerOff
  PROVE  Keeps(File, m', cycles)
<1>1. cycles \in Int /\ HearsNotes(File) /\ HistType /\ {0, 1, 2, 3} \subseteq Channel
  BY CyclesAreTime DEF Ready, Channel
<1> DEFINE f1 == NoteOff(File, cycles, 0)
           f2 == NoteOff(f1, cycles, 1)
           f3 == NoteOff(f2, cycles, 2)
           f4 == NoteOff(f3, cycles, 3)
<1>2. m' = f4
  BY DEF PowerOff, Channels, Tones
<1>3. Keeps(File, f1, cycles) /\ HearsNotes(f1)
  BY <1>1, NoteOffIsHeard DEF Keeps
<1> HIDE DEF f1
<1>4. Keeps(File, f2, cycles) /\ HearsNotes(f2)
  BY <1>1, <1>3, NoteOffIsHeard, KeepsTwice DEF Keeps
<1> HIDE DEF f2
<1>5. Keeps(File, f3, cycles) /\ HearsNotes(f3)
  BY <1>1, <1>4, NoteOffIsHeard, KeepsTwice DEF Keeps
<1> HIDE DEF f3
<1>6. Keeps(File, f4, cycles)
  BY <1>1, <1>5, NoteOffIsHeard, KeepsTwice
<1> QED  BY <1>2, <1>6

LEMMA WritePanIsHeard ==
  ASSUME Ready, WritePan
  PROVE  Keeps(File, m', cycles)
<1>1. cycles \in Int /\ HearsNotes(File) /\ HistType /\ {0, 1, 2, 3} \subseteq Channel
  BY CyclesAreTime DEF Ready, Channel
<1> DEFINE f1 == Pan(File, cycles, 0)
           f2 == Pan(f1, cycles, 1)
           f3 == Pan(f2, cycles, 2)
           f4 == Pan(f3, cycles, 3)
<1>2. m' = f4
  BY DEF WritePan, Channels, Tones
<1>3. Keeps(File, f1, cycles) /\ HearsNotes(f1)
  BY <1>1, PanIsHeard DEF Keeps
<1> HIDE DEF f1
<1>4. Keeps(File, f2, cycles) /\ HearsNotes(f2)
  BY <1>1, <1>3, PanIsHeard, KeepsTwice DEF Keeps
<1> HIDE DEF f2
<1>5. Keeps(File, f3, cycles) /\ HearsNotes(f3)
  BY <1>1, <1>4, PanIsHeard, KeepsTwice DEF Keeps
<1> HIDE DEF f3
<1>6. Keeps(File, f4, cycles)
  BY <1>1, <1>5, PanIsHeard, KeepsTwice
<1> QED  BY <1>2, <1>6

\* The end of a track says nothing about notes.
LEMMA OffIsHeard ==
  ASSUME HistType, NEW f, HearsNotes(f)
  PROVE  HearsNotes(EndOfTrack(f)) /\ HearsNotes(Off(f))
<1> DEFINE Next1(g, c) == NoteOff(g, g.prev + 1, c)
           f1 == Next1(f, 0)
           f2 == Next1(f1, 1)
           f3 == Next1(f2, 2)
           f4 == Next1(f3, 3)
<1>1. ASSUME NEW g, HearsNotes(g), NEW c \in Channel
      PROVE  HearsNotes(Next1(g, c))
  <2>1. g.prev + 1 \in Int
    BY <1>1 DEF FileType, HearsNotes
  <2> QED  BY <1>1, <2>1, NoteOffIsHeard DEF Keeps
<1>2. {0, 1, 2, 3} \subseteq Channel
  BY DEF Channel
<1>3. Off(f) = f4
  BY DEF Off, Channels, Tones
<1> HIDE DEF Next1
<1>4. HearsNotes(f4)
  BY <1>1, <1>2
<1>5. HearsNotes(EndOfTrack(f))
  <2> DEFINE g == Event(f, f.prev, "end", 0, 0)
  <2>1. /\ f \in FileType /\ f.prev \in Int /\ f.note \in [Channel -> Int]
        /\ HeardOf(f) = f.note /\ 0 \in Nat
    BY DEF FileType, HearsNotes
  <2>2. g \in FileType /\ g.note = f.note /\ Hears(f, g, "end", 0, 0)
    <3>1. /\ f \in FileType /\ f.prev \in Int /\ 0 \in Channel /\ 0 \in Nat
          /\ "end" \in {"on", "off", "pan", "end"}
      BY <1>2, <2>1
    <3>2. g \in FileType /\ g.note = f.note
      BY <3>1, EventWrites
    <3>3. Hears(f, g, "end", 0, 0)
      BY <3>1, EventIsHeard
    <3> QED  BY <3>2, <3>3
  <2>3. EndOfTrack(f) = [g EXCEPT !.open = FALSE]
    BY DEF EndOfTrack
  <2> HIDE DEF g
  <2>4. HeardOf(g) = f.note
    <3>1. PICK delta \in Int :
            HeardOf(g) = Hear[<<f.note, [what |-> "end", chan |-> 0, note |-> 0,
                                         delta |-> delta]>>]
      BY <2>1, <2>2 DEF Hears
    <3>2. [what |-> "end", chan |-> 0, note |-> 0, delta |-> delta] \in WrittenEvent
      BY <1>2 DEF WrittenEvent
    <3> QED  BY <2>1, <3>1, <3>2 DEF Hear
  <2>5. EndOfTrack(f) \in FileType /\ EndOfTrack(f).written = g.written
        /\ EndOfTrack(f).note = g.note
    BY <2>2, <2>3 DEF FileType
  <2> QED  BY <2>2, <2>4, <2>5, SameWritten DEF HearsNotes
<1> QED  BY <1>3, <1>4, <1>5

LEMMA CloseIsHeard ==
  ASSUME HistInv, Close, MidiInv', sounding' = Heard, clock' = Time, used' = used
  PROVE  HistInv'
<1>1. m.open /\ phase' = "closed" /\ m' = EndOfTrack(Off(File))
  BY DEF Close, HistInv
<1>2. Ready /\ m \in FileType /\ File \in FileType
  BY <1>1, FileIsHeard, FileFresh DEF HistInv, MidiInv
<1>3. HearsNotes(m') /\ ~m'.open
  <2> DEFINE f == Off(File)
  <2>1. f \in FileType /\ HearsNotes(f)
    BY <1>2, OffIsHeard, OffEnds DEF Ready
  <2> HIDE DEF f
  <2>2. HearsNotes(EndOfTrack(f))
    BY <1>2, <2>1, OffIsHeard DEF Ready
  <2>3. 0 \in Channel /\ 0 \in Nat /\ f.prev \in Int
    BY <2>1 DEF Channel, FileType
  <2>4. Event(f, f.prev, "end", 0, 0) \in FileType
    BY <2>1, <2>3, EventWrites
  <2>5. ~EndOfTrack(f).open
    BY <2>4 DEF EndOfTrack, FileType
  <2> QED  BY <1>1, <2>2, <2>5 DEF f
<1>4. m'.note = Silence
  <2>1. \A c \in Channel : m'.note[c] = 0
    BY <1>1, <1>2, OffEnds, EndOfTrackKeeps
  <2>2. m'.note \in [Channel -> Nat]
    BY <1>3 DEF HearsNotes, FileType
  <2> QED  BY <2>1, <2>2 DEF Silence
<1>5. sounding' = Silence /\ m' \in FileType
  BY <1>3, <1>4 DEF HearsNotes, HeardOf, Heard
<1>6. clock' \in Int
  BY <1>2, <1>5, HeardType DEF Ready, Time, TimeOf
<1>7. sounding' \in [Channel -> Int]
  BY <1>5 DEF Silence
<1> QED  BY <1>1, <1>3, <1>5, <1>6, <1>7 DEF HistInv, HistType, NotesTakeTurns, TimesAddUp

LEMMA SkipIsHeard ==
  ASSUME HistInv, NEW opens \in BOOLEAN, Skip(opens), MidiInv',
         sounding' = Silence, clock' = 0, used' = used
  PROVE  HistInv'
<1> DEFINE f == IF m.open THEN EndOfTrack(File) ELSE File
<1>1. m \in FileType /\ File \in FileType
  BY FileFresh DEF HistInv, MidiInv
<1>2. f \in FileType
  BY <1>1, EndOfTrackKeeps
<1>3. m' = [f EXCEPT !.open = opens, !.prev = 0, !.note = [c \in Channel |-> 0]]
  BY DEF Skip
<1> HIDE DEF f
<1>4. m'.open = opens /\ m'.prev = 0 /\ m'.note = Silence
  BY <1>2, <1>3 DEF FileType, Silence
<1>5. cycles' = 0 /\ phase' = (IF opens THEN "playing" ELSE "failed")
  BY DEF Skip
<1>6. Silence \in [Channel -> Int] /\ 0 * Resolution = 0 /\ 0 \div Resolution = 0
  BY TimeAssumption DEF Silence
<1> QED  BY <1>4, <1>5, <1>6 DEF HistInv, HistType, NotesTakeTurns, TimesAddUp

\* plugout_altmidi.c: a channel that does not play has no note on.
LEMMA AltNoteIsHeard ==
  ASSUME Ready, NEW f, HearsNotes(f), NEW at \in Int, NEW c \in Channel,
         NEW plays, NEW n \in Nat, f.note[c] # 0 => playing[c]
  PROVE  Keeps(f, AltNote(f, at, c, plays, n), at)
<1>1. f.note[c] = 0 => Keeps(f, NoteOnInRange(f, at, c, n), at)
  BY NoteOnInRangeIsHeard DEF Ready
<1>2. Keeps(f, NoteOff(f, at, c), at) /\ Keeps(f, f, at)
  BY NoteOffIsHeard DEF Ready, Keeps
<1>3. Keeps(f, NoteOnInRange(NoteOff(f, at, c), at, c, n), at)
  BY NextNoteIsHeard DEF Ready
<1> QED  BY <1>1, <1>2, <1>3 DEF AltNote

\* The channels that the loop has not come to have their notes still.
LEMMA AltNoteKeepsOthers ==
  ASSUME MidiInv, NEW f \in FileType, NEW at \in Int, NEW c \in Channel,
         NEW plays, NEW n \in Nat, f.note[c] # 0 => playing[c],
         NEW b \in Channel, b # c
  PROVE  AltNote(f, at, c, plays, n).note[b] = f.note[b]
<1>1. playing[c] \in BOOLEAN /\ f.note \in [Channel -> Nat]
  BY DEF MidiInv, FileType
<1>2. PICK k \in Nat : Renoted(f, AltNote(f, at, c, plays, n), c, k)
  BY <1>1, AltNoteSets
<1> QED  BY <1>1, <1>2 DEF Renoted

LEMMA StepIsHeard ==
  ASSUME HistInv, NEW n \in Delays, NEW mute \in [Channel -> BOOLEAN],
         NEW plays \in [0 .. 2 -> BOOLEAN], NEW freq \in [0 .. 2 -> Freq],
         Step(n, mute, plays, freq), MidiInv',
         sounding' = Heard, clock' = Time, used' = used
  PROVE  HistInv'
<1> DEFINE f == [File EXCEPT !.mute = mute]
           note == [c \in 0 .. 2 |-> NoteOf[freq[c]]]
<1>1. m.open /\ phase = "playing" /\ phase' = "playing" /\ cycles' \in Int
  <2>1. phase = "playing" /\ phase' = phase
    BY DEF Step
  <2>2. cycles' \in Nat
    BY DEF MidiInv
  <2> QED  BY <2>1, <2>2 DEF HistInv
<1>2. Ready /\ m \in FileType
  BY <1>1, FileIsHeard DEF HistInv, MidiInv
<1>3. f \in FileType /\ f.note = m.note /\ f.open = m.open /\ f.written = File.written
      /\ f.prev = File.prev /\ File.open = m.open /\ File.note = m.note
  BY <1>2, FileFresh DEF FileType
<1>4. Keeps(File, f, cycles')
  <2> HIDE DEF f
  <2>1. HeardOf(f) = f.note
    BY <1>2, <1>3, SameWritten DEF Ready, HearsNotes
  <2>2. KeepsTime(File, cycles') => KeepsTime(f, cycles')
    BY <1>3, SameWritten
  <2> QED  BY <1>3, <2>1, <2>2 DEF Keeps, HearsNotes
<1>5. CASE plugin = "midi"
  <2>1. m' = f
    BY <1>5 DEF Step
  <2> HIDE DEF f
  <2>2. Keeps(File, m', cycles') /\ m'.open
    BY <1>1, <1>3, <1>4, <2>1
  <2> QED  BY <1>1, <2>2, CallIsHeard
<1>6. CASE plugin # "midi"
  <2> DEFINE Alt(g, c) == AltNote(g, cycles', c, plays[c], note[c])
             f1 == Alt(f, 0)
             f2 == Alt(f1, 1)
             f3 == Alt(f2, 2)
  <2>1. m' = f3
    BY <1>6 DEF Step, Tones
  <2>2. {0, 1, 2} \subseteq Channel /\ \A c \in 0 .. 2 : c \in Channel
    BY DEF Channel
  <2>3. \A c \in 0 .. 2 : note[c] \in Nat
    BY NoteOfType
  <2>4. \A c \in Channel : m.note[c] # 0 => playing[c]
    BY <1>6 DEF HistInv, MidiInv, NoteHasChannel
  <2> HIDE DEF f, note
  <2>5. ASSUME NEW g, HearsNotes(g), NEW c \in 0 .. 2, g.note[c] = m.note[c]
        PROVE  /\ Keeps(g, Alt(g, c), cycles')
               /\ \A b \in Channel : b # c => Alt(g, c).note[b] = g.note[b]
    <3>1. c \in Channel /\ note[c] \in Nat /\ (g.note[c] # 0 => playing[c])
      BY <2>2, <2>3, <2>4, <2>5
    <3>2. g \in FileType
      BY <2>5 DEF HearsNotes
    <3>3. Keeps(g, Alt(g, c), cycles')
      BY <1>1, <1>2, <2>5, <3>1, AltNoteIsHeard
    <3>4. \A b \in Channel : b # c => Alt(g, c).note[b] = g.note[b]
      BY <1>1, <1>2, <3>1, <3>2, AltNoteKeepsOthers DEF Ready
    <3> QED  BY <3>3, <3>4
  <2> HIDE DEF Alt
  <2>6. HearsNotes(f) /\ f.note[0] = m.note[0] /\ f.note[1] = m.note[1] /\ f.note[2] = m.note[2]
    BY <1>3, <1>4 DEF Keeps
  <2>7. Keeps(f, f1, cycles') /\ f1.note[1] = m.note[1] /\ f1.note[2] = m.note[2]
    BY <2>2, <2>5, <2>6
  <2> HIDE DEF f1
  <2>8. Keeps(f1, f2, cycles') /\ f2.note[2] = m.note[2]
    <3>1. HearsNotes(f1)
      BY <2>7 DEF Keeps
    <3> QED  BY <2>2, <2>5, <2>7, <3>1
  <2> HIDE DEF f2
  <2>9. Keeps(f2, f3, cycles')
    <3>1. HearsNotes(f2)
      BY <2>8 DEF Keeps
    <3> QED  BY <2>5, <2>8, <3>1
  <2> HIDE DEF f3
  <2>10. Keeps(File, f3, cycles')
    BY <1>4, <2>7, <2>8, <2>9, KeepsTwice
  <2>11. m'.open
    BY <1>1, <1>3, <2>1, <2>10 DEF Keeps
  <2> QED  BY <1>1, <2>1, <2>10, <2>11, CallIsHeard
<1> QED  BY <1>5, <1>6

-----------------------------------------------------------------------------
LEMMA HistKept == HistInv /\ [MCNext]_<<vars, hist>> => HistInv'
<1> SUFFICES ASSUME HistInv, [MCNext]_<<vars, hist>> PROVE HistInv'
  OBVIOUS
<1>1. MidiInv /\ used \in Channel /\ used \in 0 .. 2
  BY UsedAssumption DEF HistInv, Channel
<1>2. CASE /\ WriteTo(used) /\ sounding' = Heard /\ clock' = Time /\ UNCHANGED used
  <2>1. m.open
    BY <1>2 DEF WriteTo, WriteEnvelope, WriteWaveMaster, WriteWaveVolume, WriteFreqLow,
                WriteControl, AltVolume, AltTrigger, IsMidi
  <2>2. Ready
    BY <2>1, FileIsHeard
  <2>3. Keeps(File, m', cycles') /\ phase' = "playing"
    BY <1>1, <1>2, <2>2, WriteToIsHeard
  <2>4. m'.open
    BY <1>1, <2>1, <2>3, FileFresh DEF Keeps, MidiInv
  <2>5. MidiInv'
    BY <1>1, <1>2, WriteToNotes
  <2> QED  BY <1>2, <2>1, <2>3, <2>4, <2>5, CallIsHeard
<1>3. CASE (PowerOff \/ WritePan) /\ sounding' = Heard /\ clock' = Time /\ UNCHANGED used
  <2>1. m.open /\ cycles' = cycles /\ phase' = "playing"
    BY <1>3 DEF PowerOff, WritePan, IsMidi
  <2>2. Ready
    BY <2>1, FileIsHeard
  <2>3. Keeps(File, m', cycles')
    BY <1>3, <2>1, <2>2, PowerOffIsHeard, WritePanIsHeard
  <2>4. m'.open
    BY <1>1, <2>1, <2>3, FileFresh DEF Keeps, MidiInv
  <2>5. MidiInv'
    BY <1>1, <1>3, PowerOffNotes, WritePanNotes
  <2> QED  BY <1>3, <2>1, <2>3, <2>4, <2>5, CallIsHeard
<1>4. CASE OneStep /\ sounding' = Heard /\ clock' = Time /\ UNCHANGED used
  <2>1. PICK n \in Delays, mute \in BOOLEAN, plays \in BOOLEAN, freq \in Freq :
          Step(n, [c \in Channel |-> c = used /\ mute], [c \in 0 .. 2 |-> c = used /\ plays],
               [c \in 0 .. 2 |-> freq])
    BY <1>4 DEF OneStep
  <2>2. /\ [c \in Channel |-> c = used /\ mute] \in [Channel -> BOOLEAN]
        /\ [c \in 0 .. 2 |-> c = used /\ plays] \in [0 .. 2 -> BOOLEAN]
        /\ [c \in 0 .. 2 |-> freq] \in [0 .. 2 -> Freq]
    OBVIOUS
  <2>3. MidiInv'
    BY <1>1, <2>1, <2>2, StepNotes
  <2> QED  BY <1>4, <2>1, <2>2, <2>3, StepIsHeard
<1>5. CASE Close /\ sounding' = Heard /\ clock' = Time /\ UNCHANGED used
  BY <1>1, <1>5, CloseNotes, CloseIsHeard
<1>6. CASE NewTrack /\ sounding' = Silence /\ clock' = 0 /\ UNCHANGED used
  <2>1. PICK opens \in BOOLEAN : Skip(opens)
    BY <1>6, NoteAssumption DEF NewTrack
  <2>2. MidiInv'
    BY <1>1, <2>1, SkipNotes
  <2> QED  BY <1>6, <2>1, <2>2, SkipIsHeard
<1>7. CASE UNCHANGED <<vars, hist>>
  BY <1>7 DEF vars, hist, chanVars, HistInv, HistType, MidiInv, NoteHasChannel, NoteIsCurrent,
              NotesTakeTurns, TimesAddUp
<1> QED  BY <1>2, <1>3, <1>4, <1>5, <1>6, <1>7 DEF MCNext

LEMMA HistStarts == MCInit => HistInv
<1> SUFFICES ASSUME MCInit PROVE HistInv
  OBVIOUS
<1>1. MidiInv /\ m.open = FALSE /\ phase = "opened"
  BY MidiStarts DEF MCInit, Init
<1>2. sounding = Silence /\ clock = 0 /\ used \in Used
  BY DEF MCInit
<1>3. Silence \in [Channel -> Int]
  BY DEF Silence
<1> QED  BY <1>1, <1>2, <1>3 DEF HistInv, HistType, NotesTakeTurns, TimesAddUp

THEOREM HistInvariant == MCSpec => []HistInv
BY HistStarts, HistKept, PTL DEF MCSpec

\* For every note table and every sequence of register writes, mutes and calls
\* back, the notes in the file begin and end in turns and are the ones that
\* midifile.c takes to be on (midi_note_on, midi_note_off, midi_close).
THEOREM NotesBeginAndEnd == MCSpec => []NotesTakeTurns
BY HistInvariant, PTL DEF HistInv

\* For every resolution, delays and cycles, the rounded times of the events add
\* up to the rounded time of the last one (midi_write_event).
THEOREM TimesAreExact == MCSpec => []TimesAddUp
BY HistInvariant, PTL DEF HistInv
=============================================================================
