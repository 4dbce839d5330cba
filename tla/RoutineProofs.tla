---------------------------- MODULE RoutineProofs ----------------------------
(***************************************************************************)
(* Proofs about the routines of GBS files: calls, returns and interrupts   *)
(* keep the stack in order whatever code the file has.                     *)
(***************************************************************************)
EXTENDS Routines, FiniteSetTheorems, TLAPS

-----------------------------------------------------------------------------
(***************************************************************************)
(* The stack.  Each routine that runs has its return address on it, and on *)
(* that the words it has pushed.  Of the cartridge's replayer, the first   *)
(* routine, nothing is left there: it begins a stack of its own.           *)
(***************************************************************************)
Routine == [ret: Nat, to: Nat, sp: Nat, pushed: Nat]

Holds(mem, at, val) ==
  /\ at \in DOMAIN mem /\ at + 1 \in DOMAIN mem
  /\ mem[at] = Low(val) /\ mem[at + 1] = High(val)

Stacked(first, fr, s, mem) ==
  \A i \in first .. Len(fr) :
    /\ fr[i].sp - 2 - 2 * fr[i].pushed = IF i = Len(fr) THEN s ELSE fr[i + 1].sp
    /\ s + 2 <= fr[i].sp
    /\ \A j \in i + 1 .. Len(fr) : fr[j].sp + 2 <= fr[i].sp
    /\ Holds(mem, fr[i].sp - 2, fr[i].ret)

\* A word put on the stack, and one taken from it.
Put2(mem, at, val) == With(With(mem, at, Low(val)), at + 1, High(val))

LEMMA WordIs ==
  ASSUME NEW val \in Nat
  PROVE  /\ Low(val) + 256 * High(val) = val
         /\ val < 65536 => Word(val) = val
         /\ Low(val) \in 0 .. 255 /\ High(val) \in Nat
BY DEF Low, High, Word

LEMMA PutHolds ==
  ASSUME NEW mem, NEW at \in Nat, NEW val
  PROVE  /\ Holds(Put2(mem, at, val), at, val)
         /\ \A x \in Nat : \A v : Holds(mem, x, v) /\ (x > at + 1 \/ x + 1 < at) =>
                                     Holds(Put2(mem, at, val), x, v)
<1> DEFINE m1 == With(mem, at, Low(val))
           m2 == With(m1, at + 1, High(val))
<1>1. /\ DOMAIN m1 = DOMAIN mem \cup {at}
      /\ \A x \in DOMAIN m1 : m1[x] = IF x = at THEN Low(val) ELSE mem[x]
  BY DEF With
<1> HIDE DEF m1
<1>2. /\ DOMAIN m2 = DOMAIN m1 \cup {at + 1}
      /\ \A x \in DOMAIN m2 : m2[x] = IF x = at + 1 THEN High(val) ELSE m1[x]
  BY DEF With
<1> HIDE DEF m2
<1>3. Holds(m2, at, val)
  BY <1>1, <1>2 DEF Holds
<1>4. ASSUME NEW x \in Nat, NEW v, Holds(mem, x, v), x > at + 1 \/ x + 1 < at
      PROVE  Holds(m2, x, v)
  BY <1>1, <1>2, <1>4 DEF Holds
<1> QED  BY <1>3, <1>4 DEF Put2, m1, m2

LEMMA TakeHolds ==
  ASSUME NEW mem, NEW at \in Nat, NEW x \in Nat, NEW v, Holds(mem, x, v), x > at + 1
  PROVE  Holds(Without(mem, {at, at + 1}), x, v)
BY DEF Holds, Without

LEMMA Words ==
  ASSUME NEW x \in Nat, NEW k \in Nat, NEW s \in Nat, x - 2 - 2 * k = s
  PROVE  /\ x - 2 - 2 * (k + 1) = s - 2
         /\ x - 2 - 2 * (k - 1) = s + 2
<1>1. /\ 2 * (k + 1) = 2 * k + 2 /\ 2 * (k - 1) = 2 * k - 2 /\ 2 * k \in Nat
      /\ 2 * (k + 1) \in Int /\ 2 * (k - 1) \in Int
  OBVIOUS
<1> QED  BY <1>1

LEMMA Above ==
  ASSUME NEW x \in Nat, NEW s \in Nat
  PROVE  /\ s + 2 <= x => x - 2 \in Nat /\ x - 2 > s - 2 + 1 /\ s - 2 + 2 <= x
         /\ s + 4 <= x => x - 2 \in Nat /\ x - 2 > s + 1
         /\ s + 2 + 2 <= x => x - 2 \in Nat /\ x - 2 > s + 1
OBVIOUS

LEMMA Fields ==
  ASSUME NEW fr \in Seq(Routine), NEW i \in 1 .. Len(fr)
  PROVE  /\ fr[i].ret \in Nat /\ fr[i].to \in Nat /\ fr[i].sp \in Nat /\ fr[i].pushed \in Nat
<1>1. fr[i] \in Routine
  OBVIOUS
<1> QED  BY <1>1 DEF Routine

LEMMA Prefix ==
  ASSUME NEW S, NEW q \in Seq(S), NEW k \in 0 .. Len(q)
  PROVE  /\ SubSeq(q, 1, k) \in Seq(S) /\ Len(SubSeq(q, 1, k)) = k
         /\ \A i \in 1 .. k : SubSeq(q, 1, k)[i] = q[i]
OBVIOUS

\* A call, and a return.
LEMMA EnterStacked ==
  ASSUME NEW first \in {1, 2}, NEW fr \in Seq(Routine), first <= Len(fr) + 1,
         NEW s \in Nat, s >= 2, NEW mem, Stacked(first, fr, s, mem),
         NEW e \in Routine, e.sp = s, e.pushed = 0
  PROVE  Stacked(first, Append(fr, e), s - 2, Put2(mem, s - 2, e.ret))
<1> DEFINE new == Append(fr, e)
           m == Put2(mem, s - 2, e.ret)
<1>1. /\ new \in Seq(Routine) /\ Len(new) = Len(fr) + 1 /\ new[Len(fr) + 1] = e
      /\ \A i \in 1 .. Len(fr) : new[i] = fr[i]
  OBVIOUS
<1> HIDE DEF new
<1>2. s - 2 \in Nat /\ s - 2 + 1 = s - 1 /\ Len(fr) \in Nat
  OBVIOUS
<1>3. Holds(m, s - 2, e.ret)
  BY <1>2, PutHolds
<1>4. ASSUME NEW i \in first .. Len(fr)
      PROVE  /\ new[i].sp - 2 - 2 * new[i].pushed = new[i + 1].sp
             /\ s + 2 <= new[i].sp
             /\ \A j \in i + 1 .. Len(new) : new[j].sp + 2 <= new[i].sp
             /\ Holds(m, new[i].sp - 2, new[i].ret)
  <2>0. i \in 1 .. Len(fr) /\ i \in Nat
    BY <1>2
  <2>1. new[i] = fr[i] /\ fr[i].sp \in Nat /\ fr[i].pushed \in Nat
    BY <1>1, <2>0, Fields
  <2>2. /\ fr[i].sp - 2 - 2 * fr[i].pushed = IF i = Len(fr) THEN s ELSE fr[i + 1].sp
        /\ s + 2 <= fr[i].sp
        /\ \A j \in i + 1 .. Len(fr) : fr[j].sp + 2 <= fr[i].sp
        /\ Holds(mem, fr[i].sp - 2, fr[i].ret)
    BY DEF Stacked
  <2>3. new[i].sp - 2 - 2 * new[i].pushed = new[i + 1].sp
    <3>1. CASE i = Len(fr)
      BY <1>1, <2>1, <2>2, <3>1
    <3>2. CASE i # Len(fr)
      <4>1. i + 1 \in 1 .. Len(fr)
        BY <1>2, <2>0, <3>2
      <4> QED  BY <1>1, <2>1, <2>2, <3>2, <4>1
    <3> QED  BY <3>1, <3>2
  <2>4. ASSUME NEW j \in i + 1 .. Len(new) PROVE new[j].sp + 2 <= new[i].sp
    <3>1. CASE j = Len(fr) + 1
      BY <1>1, <2>1, <2>2, <3>1
    <3>2. CASE j # Len(fr) + 1
      <4>1. j \in 1 .. Len(fr) /\ j \in i + 1 .. Len(fr)
        BY <1>1, <1>2, <2>0, <3>2
      <4> QED  BY <1>1, <2>1, <2>2, <4>1
    <3> QED  BY <3>1, <3>2
  <2>5. Holds(m, fr[i].sp - 2, fr[i].ret)
    <3>0. fr[i].sp \in Nat /\ s + 2 <= fr[i].sp
      BY <2>1, <2>2
    <3>1. fr[i].sp - 2 \in Nat /\ fr[i].sp - 2 > s - 2 + 1
      BY <3>0, Above
    <3> QED  BY <1>2, <2>2, <3>1, PutHolds
  <2> QED  BY <2>1, <2>2, <2>3, <2>4, <2>5
<1>5. ASSUME NEW i \in first .. Len(new)
      PROVE  /\ new[i].sp - 2 - 2 * new[i].pushed =
                  IF i = Len(new) THEN s - 2 ELSE new[i + 1].sp
             /\ s - 2 + 2 <= new[i].sp
             /\ \A j \in i + 1 .. Len(new) : new[j].sp + 2 <= new[i].sp
             /\ Holds(m, new[i].sp - 2, new[i].ret)
  <2>1. CASE i = Len(fr) + 1
    BY <1>1, <1>2, <1>3, <2>1
  <2>2. CASE i # Len(fr) + 1
    <3>1. i \in first .. Len(fr) /\ i # Len(new) /\ i \in 1 .. Len(new)
      BY <1>1, <1>2, <2>2
    <3>2. new[i].sp \in Nat
      BY <1>1, <3>1, Fields
    <3> QED  BY <1>2, <1>4, <3>1, <3>2
  <2> QED  BY <2>1, <2>2
<1> HIDE DEF m
<1> QED  BY <1>5 DEF Stacked, new, m

LEMMA LeaveStacked ==
  ASSUME NEW first \in {1, 2}, NEW fr \in Seq(Routine), first <= Len(fr),
         NEW s \in Nat, NEW mem, Stacked(first, fr, s, mem), fr[Len(fr)].pushed = 0
  PROVE  /\ fr[Len(fr)].sp = s + 2 /\ Holds(mem, s, fr[Len(fr)].ret)
         /\ Front(fr) \in Seq(Routine) /\ Len(Front(fr)) = Len(fr) - 1
         /\ \A i \in 1 .. Len(fr) - 1 : Front(fr)[i] = fr[i]
         /\ Stacked(first, Front(fr), s + 2, Without(mem, {s, s + 1}))
<1> DEFINE n == Len(fr)
           old == Front(fr)
           m == Without(mem, {s, s + 1})
<1>1. /\ old \in Seq(Routine) /\ Len(old) = n - 1 /\ n \in Nat /\ n >= 1
      /\ \A i \in 1 .. n - 1 : old[i] = fr[i]
  <2>1. n \in Nat /\ n >= 1
    OBVIOUS
  <2>2. old = SubSeq(fr, 1, n - 1)
    BY DEF Front
  <2>3. /\ SubSeq(fr, 1, n - 1) \in Seq(Routine) /\ Len(SubSeq(fr, 1, n - 1)) = n - 1
        /\ \A i \in 1 .. n - 1 : SubSeq(fr, 1, n - 1)[i] = fr[i]
    <3>1. n - 1 \in 0 .. Len(fr)
      BY <2>1
    <3> HIDE DEF n
    <3> QED  BY <3>1, Prefix
  <2> QED  BY <2>1, <2>2, <2>3
<1> HIDE DEF old
<1>2. n \in first .. Len(fr) /\ n \in 1 .. Len(fr)
  BY <1>1
<1>3. fr[n].sp - 2 - 2 * fr[n].pushed = s /\ Holds(mem, fr[n].sp - 2, fr[n].ret)
  BY <1>2 DEF Stacked
<1>4. fr[n].sp \in Nat /\ fr[n].pushed = 0
  BY <1>2, Fields
<1>5. fr[n].sp = s + 2 /\ Holds(mem, s, fr[n].ret)
  <2>1. fr[n].sp = s + 2
    BY <1>3, <1>4
  <2>2. fr[n].sp - 2 = s
    BY <2>1
  <2> QED  BY <1>3, <2>1, <2>2
<1> HIDE DEF n
<1>6. ASSUME NEW i \in first .. Len(old)
      PROVE  /\ old[i].sp - 2 - 2 * old[i].pushed = IF i = Len(old) THEN s + 2 ELSE old[i + 1].sp
             /\ s + 2 + 2 <= old[i].sp
             /\ \A j \in i + 1 .. Len(old) : old[j].sp + 2 <= old[i].sp
             /\ Holds(m, old[i].sp - 2, old[i].ret)
  <2>1. /\ i \in first .. n /\ i \in 1 .. n - 1 /\ i \in 1 .. n /\ i # n /\ i \in Nat
        /\ n \in i + 1 .. n /\ n = Len(fr)
    BY <1>1 DEF n
  <2>2. old[i] = fr[i] /\ fr[i].sp \in Nat
    BY <1>1, <2>1, Fields
  <2>3. /\ fr[i].sp - 2 - 2 * fr[i].pushed = fr[i + 1].sp
        /\ \A j \in i + 1 .. n : fr[j].sp + 2 <= fr[i].sp
        /\ Holds(mem, fr[i].sp - 2, fr[i].ret)
    BY <2>1 DEF Stacked
  <2>4. s + 2 + 2 <= fr[i].sp
    BY <1>5, <2>1, <2>3
  <2>5. Holds(m, fr[i].sp - 2, fr[i].ret)
    <3>1. fr[i].sp - 2 \in Nat /\ fr[i].sp - 2 > s + 1
      BY <2>2, <2>4, Above
    <3> QED  BY <2>3, <3>1, TakeHolds
  <2>6. \A j \in i + 1 .. Len(old) : j \in i + 1 .. n /\ old[j] = fr[j]
    BY <1>1, <2>1
  <2>7. i # Len(old) => old[i + 1] = fr[i + 1]
    BY <1>1, <2>1
  <2>8. i = Len(old) => i + 1 = n
    BY <1>1
  <2> QED  BY <1>5, <2>2, <2>3, <2>4, <2>5, <2>6, <2>7, <2>8
<1> HIDE DEF m
<1>7. Stacked(first, old, s + 2, m)
  BY <1>6 DEF Stacked
<1> QED  BY <1>1, <1>5, <1>7 DEF old, m, n

\* A routine pushes a word, and pops one.
Pushed(fr, k) == [fr EXCEPT ![Len(fr)].pushed = @ + k]

LEMMA PushedIs ==
  ASSUME NEW fr \in Seq(Routine), fr # <<>>, NEW k \in {1, -1},
         k = -1 => fr[Len(fr)].pushed > 0
  PROVE  /\ Pushed(fr, k) \in Seq(Routine) /\ Len(Pushed(fr, k)) = Len(fr)
         /\ \A i \in 1 .. Len(fr) :
              /\ Pushed(fr, k)[i].ret = fr[i].ret /\ Pushed(fr, k)[i].to = fr[i].to
              /\ Pushed(fr, k)[i].sp = fr[i].sp
              /\ Pushed(fr, k)[i].pushed =
                   IF i = Len(fr) THEN fr[i].pushed + k ELSE fr[i].pushed
<1> DEFINE n == Len(fr)
           e == [fr[n] EXCEPT !.pushed = @ + k]
<1>1. n \in 1 .. Len(fr) /\ fr[n] \in Routine /\ fr[n].pushed \in Nat
  <2>1. n \in 1 .. Len(fr)
    OBVIOUS
  <2> QED  BY <2>1, Fields
<1>2. fr[n].pushed + k \in Nat
  BY <1>1
<1>3. e \in Routine /\ e.ret = fr[n].ret /\ e.to = fr[n].to /\ e.sp = fr[n].sp
      /\ e.pushed = fr[n].pushed + k
  BY <1>1, <1>2 DEF Routine
<1>4. Pushed(fr, k) = [fr EXCEPT ![n] = e]
  BY DEF Pushed
<1> HIDE DEF e
<1>5. /\ Pushed(fr, k) \in Seq(Routine) /\ Len(Pushed(fr, k)) = Len(fr)
      /\ \A i \in 1 .. Len(fr) : Pushed(fr, k)[i] = IF i = n THEN e ELSE fr[i]
  BY <1>1, <1>3, <1>4
<1> QED  BY <1>3, <1>5

LEMMA PushStacked ==
  ASSUME NEW first \in {1, 2}, NEW fr \in Seq(Routine), first <= Len(fr),
         NEW s \in Nat, s >= 2, NEW mem, Stacked(first, fr, s, mem), NEW val
  PROVE  Stacked(first, Pushed(fr, 1), s - 2, Put2(mem, s - 2, val))
<1> DEFINE new == Pushed(fr, 1)
           m == Put2(mem, s - 2, val)
<1>1. /\ new \in Seq(Routine) /\ Len(new) = Len(fr) /\ Len(fr) \in Nat
      /\ \A i \in 1 .. Len(fr) :
              /\ new[i].ret = fr[i].ret /\ new[i].sp = fr[i].sp
              /\ new[i].pushed = IF i = Len(fr) THEN fr[i].pushed + 1 ELSE fr[i].pushed
  BY PushedIs
<1>2. s - 2 \in Nat
  OBVIOUS
<1> HIDE DEF new
<1>3. ASSUME NEW i \in first .. Len(new)
      PROVE  /\ new[i].sp - 2 - 2 * new[i].pushed = IF i = Len(new) THEN s - 2 ELSE new[i + 1].sp
             /\ s - 2 + 2 <= new[i].sp
             /\ \A j \in i + 1 .. Len(new) : new[j].sp + 2 <= new[i].sp
             /\ Holds(m, new[i].sp - 2, new[i].ret)
  <2>1. i \in first .. Len(fr) /\ i \in 1 .. Len(fr) /\ i \in Nat
    BY <1>1
  <2>2. fr[i].sp \in Nat /\ fr[i].pushed \in Nat
    BY <2>1, Fields
  <2>3. /\ fr[i].sp - 2 - 2 * fr[i].pushed = IF i = Len(fr) THEN s ELSE fr[i + 1].sp
        /\ s + 2 <= fr[i].sp
        /\ \A j \in i + 1 .. Len(fr) : fr[j].sp + 2 <= fr[i].sp
        /\ Holds(mem, fr[i].sp - 2, fr[i].ret)
    BY <2>1 DEF Stacked
  <2>4. new[i].sp = fr[i].sp /\ new[i].ret = fr[i].ret
        /\ new[i].pushed = IF i = Len(fr) THEN fr[i].pushed + 1 ELSE fr[i].pushed
    BY <1>1, <2>1
  <2>5. Holds(m, fr[i].sp - 2, fr[i].ret)
    <3>0. fr[i].sp \in Nat /\ s + 2 <= fr[i].sp
      BY <2>2, <2>3
    <3>1. fr[i].sp - 2 \in Nat /\ fr[i].sp - 2 > s - 2 + 1
      BY <3>0, Above
    <3> QED  BY <1>2, <2>3, <3>1, PutHolds
  <2>6. \A j \in i + 1 .. Len(new) : j \in i + 1 .. Len(fr) /\ new[j].sp = fr[j].sp
    BY <1>1, <2>1
  <2>7. new[i].sp - 2 - 2 * new[i].pushed = IF i = Len(new) THEN s - 2 ELSE new[i + 1].sp
    <3>1. CASE i = Len(fr)
      <4>1. fr[i].sp - 2 - 2 * fr[i].pushed = s
        BY <2>3, <3>1
      <4>2. fr[i].sp - 2 - 2 * (fr[i].pushed + 1) = s - 2
        BY <2>2, <4>1, Words, ZenonT(30)
      <4> QED  BY <1>1, <2>4, <3>1, <4>2
    <3>2. CASE i # Len(fr)
      <4>1. new[i + 1].sp = fr[i + 1].sp
        BY <1>1, <2>1, <3>2
      <4> QED  BY <1>1, <2>2, <2>3, <2>4, <3>2, <4>1
    <3> QED  BY <3>1, <3>2
  <2>8. s - 2 + 2 <= new[i].sp
    <3>1. s - 2 + 2 <= fr[i].sp
      BY <2>2, <2>3, Above
    <3> QED  BY <2>4, <3>1
  <2> QED  BY <2>3, <2>4, <2>5, <2>6, <2>7, <2>8
<1> HIDE DEF m
<1> QED  BY <1>3 DEF Stacked, new, m

LEMMA PopStacked ==
  ASSUME NEW first \in {1, 2}, NEW fr \in Seq(Routine), first <= Len(fr),
         NEW s \in Nat, NEW mem, Stacked(first, fr, s, mem), fr[Len(fr)].pushed > 0
  PROVE  /\ s + 4 <= fr[Len(fr)].sp
         /\ Stacked(first, Pushed(fr, -1), s + 2, Without(mem, {s, s + 1}))
<1> DEFINE n == Len(fr)
           new == Pushed(fr, -1)
           m == Without(mem, {s, s + 1})
<1>0. n \in first .. Len(fr) /\ n \in 1 .. Len(fr)
  OBVIOUS
<1>1. /\ new \in Seq(Routine) /\ Len(new) = n /\ n \in Nat
      /\ \A i \in 1 .. n :
              /\ new[i].ret = fr[i].ret /\ new[i].sp = fr[i].sp
              /\ new[i].pushed = IF i = n THEN fr[i].pushed - 1 ELSE fr[i].pushed
  <2>1. /\ new \in Seq(Routine) /\ Len(new) = Len(fr)
        /\ \A i \in 1 .. Len(fr) :
              /\ new[i].ret = fr[i].ret /\ new[i].sp = fr[i].sp
              /\ new[i].pushed = IF i = Len(fr) THEN fr[i].pushed + (-1) ELSE fr[i].pushed
    BY PushedIs
  <2>2. \A i \in 1 .. Len(fr) : fr[i].pushed + (-1) = fr[i].pushed - 1
    BY Fields
  <2> QED  BY <2>1, <2>2
<1> HIDE DEF new
<1>2. s + 4 <= fr[n].sp
  <2>1. fr[n].sp - 2 - 2 * fr[n].pushed = s
    BY <1>0 DEF Stacked
  <2>2. fr[n].sp \in Nat /\ fr[n].pushed \in Nat /\ fr[n].pushed > 0
    BY <1>0, Fields
  <2> QED  BY <2>1, <2>2, SMTT(30)
<1>3. ASSUME NEW i \in first .. Len(new)
      PROVE  /\ new[i].sp - 2 - 2 * new[i].pushed = IF i = Len(new) THEN s + 2 ELSE new[i + 1].sp
             /\ s + 2 + 2 <= new[i].sp
             /\ \A j \in i + 1 .. Len(new) : new[j].sp + 2 <= new[i].sp
             /\ Holds(m, new[i].sp - 2, new[i].ret)
  <2>1. i \in first .. n /\ i \in 1 .. n /\ i \in Nat
    BY <1>1
  <2>2. fr[i].sp \in Nat /\ fr[i].pushed \in Nat /\ fr[n].sp \in Nat
    BY <1>0, <2>1, Fields
  <2>3. /\ fr[i].sp - 2 - 2 * fr[i].pushed = IF i = n THEN s ELSE fr[i + 1].sp
        /\ \A j \in i + 1 .. n : fr[j].sp + 2 <= fr[i].sp
        /\ Holds(mem, fr[i].sp - 2, fr[i].ret)
    BY <2>1 DEF Stacked
  <2>4. new[i].sp = fr[i].sp /\ new[i].ret = fr[i].ret
        /\ new[i].pushed = IF i = n THEN fr[i].pushed - 1 ELSE fr[i].pushed
    BY <1>1, <2>1
  <2>9. s + 4 <= fr[i].sp
    <3>1. CASE i = n
      BY <1>2, <3>1
    <3>2. CASE i # n
      <4>1. fr[n].sp + 2 <= fr[i].sp
        BY <1>1, <2>1, <2>3, <3>2
      <4> QED  BY <1>2, <2>2, <4>1
    <3> QED  BY <3>1, <3>2
  <2>5. Holds(m, fr[i].sp - 2, fr[i].ret)
    <3>1. fr[i].sp - 2 \in Nat /\ fr[i].sp - 2 > s + 1
      BY <2>2, <2>9, Above
    <3> QED  BY <2>3, <3>1, TakeHolds
  <2>6. \A j \in i + 1 .. Len(new) : j \in i + 1 .. n /\ new[j].sp = fr[j].sp
    BY <1>1, <2>1
  <2>7. new[i].sp - 2 - 2 * new[i].pushed = IF i = Len(new) THEN s + 2 ELSE new[i + 1].sp
    <3>1. CASE i = n
      <4>1. fr[i].sp - 2 - 2 * fr[i].pushed = s
        BY <2>3, <3>1
      <4>2. fr[i].sp \in Nat /\ fr[i].pushed \in Nat
        BY <2>2
      <4>3. fr[i].sp - 2 - 2 * (fr[i].pushed - 1) = s + 2
        BY <4>1, <4>2, Words
      <4> QED  BY <1>1, <2>4, <3>1, <4>3
    <3>2. CASE i # n
      <4>1. new[i + 1].sp = fr[i + 1].sp
        BY <1>1, <2>1, <3>2
      <4> QED  BY <1>1, <2>2, <2>3, <2>4, <3>2, <4>1
    <3> QED  BY <3>1, <3>2
  <2>8. s + 2 + 2 <= new[i].sp
    BY <2>2, <2>4, <2>9
  <2> QED  BY <2>3, <2>4, <2>5, <2>6, <2>7, <2>8
<1> HIDE DEF m
<1> QED  BY <1>2, <1>3 DEF Stacked, new, m, n

-----------------------------------------------------------------------------
(***************************************************************************)
(* The invariant.  A point is an address where the CPU goes on: the        *)
(* program counter is one, for the innermost routine, and so are the       *)
(* addresses that the others wait to be returned to.                       *)
(***************************************************************************)
RstPcs == {0, 8, 16, 24, 32, 40, 48, 56}
HandlerPcs == {64, 67, 70, 80, 83, 86}
LdSpPc == 339
EarlyPcs == {256, 257, 336, LdSpPc}    \* of the replayer, before it sets its stack,
SetupPcs == {340, 342, 344, 346, 348, 350, 352, 354}   \* before it has called init,
LatePcs == {357, 359, 361, 362}                        \* and after that
ReplayerPcs == EarlyPcs \cup SetupPcs \cup LatePcs
FilePoints == LoadAddr .. 32823

\* A routine that is the i-th of those that run may be at a point.
Stands(i, routine, point) ==
  /\ point \in RstPcs \cup HandlerPcs \cup FilePoints
              \cup (IF Replayer THEN ReplayerPcs ELSE {})
  /\ point \in HandlerPcs => routine.to \in {64, 80} /\ routine.pushed = 0
  /\ Replayer => (point \in ReplayerPcs <=> i = 1)

\* The stack has room for an interrupt and for what its handler calls, and with
\* interrupts on for another of both.
Room(point) == 2 * MaxWords + IF point \in HandlerPcs THEN 4 ELSE 6
IrqRoom(point) == 2 * MaxWords + IF point \in HandlerPcs THEN 0 ELSE 2

\* Routines: how they were entered,
Entered(fr) ==
  /\ fr \in Seq(Routine)
  /\ fr # <<>> => fr[1].ret = HaltAtPc /\ fr[1].sp = Stack
  /\ Replayer => /\ fr # <<>> /\ fr[1].to = 256
                 /\ Len(fr) > 1 => fr[2].sp = Stack /\ fr[2].ret \in LatePcs
  /\ \A i \in 1 .. Len(fr) :
       /\ fr[i].sp <= Stack
       /\ fr[i].to \in {64, 80} => Stack - fr[i].sp < IrqRoom(fr[i].ret)
       /\ fr[i].ret \in RstPcs => fr[i].to \in {64, 80}
       /\ i # 1 => Stands(i - 1, fr[i - 1], fr[i].ret)

\* the innermost one, and whether interrupts are on;
Inside(fr, point, s, on) ==
  /\ IF fr = <<>> THEN point = HaltAtPc /\ s = Stack ELSE Stands(Len(fr), fr[Len(fr)], point)
  /\ s \in Nat /\ s <= Stack /\ Stack - s < Room(point)
  /\ on => Stack - s < IrqRoom(point)
  /\ point = HaltAtPc => on
  /\ Replayer /\ Len(fr) = 1 =>
       /\ s = IF point \in EarlyPcs THEN Stack - 2 ELSE Stack
       /\ on => point \in LatePcs

\* and those the interrupts call, as long as the file's code does not turn them on.
InTurn(fr, point, on, will) ==
  /\ ~will => /\ on => point = HaltAtPc
              /\ \A i \in 1 .. Len(fr) : fr[i].to \in {64, 80} => i = 1 /\ ~Replayer
  /\ point = HaltAtPc => ~will

First == IF Replayer THEN 2 ELSE 1
InOrderInv(fr, point, s, mem, on, will) ==
  /\ Entered(fr)
  /\ Inside(fr, point, s, on)
  /\ InTurn(fr, point, on, will)
  /\ Stacked(First, fr, s, mem)

RoutinesInv ==
  /\ \E h \in Handlers : rom = RomOf(h)
  /\ InOrderInv(frames, pc, sp, ram, ime, willing)
  /\ ime \in BOOLEAN /\ willing \in BOOLEAN
  /\ pc = HaltAtPc => halted
  /\ Replayer /\ pc = LdSpPc => hl = Stack

-----------------------------------------------------------------------------
(***************************************************************************)
(* What an instruction does to the invariant, by what it does to the       *)
(* routines: it goes on in one, it enters one, it leaves one, or it puts a *)
(* word on the stack or takes it from there.                               *)
(***************************************************************************)
LEMMA Bounds ==
  /\ LoadAddr \in Nat /\ LoadAddr >= 97 /\ LoadAddr <= 32767
  /\ MaxWords \in Nat /\ 2 * MaxWords \in Nat
  /\ Stack \in Nat /\ Stack >= 32768 + 2 * MaxWords + 4 /\ Stack <= 65535
  /\ InitAddr \in Code /\ PlayAddr \in Code
  /\ \A c \in Code : c \in Nat /\ c >= LoadAddr /\ c <= 32767
<1>1. LoadAddr \in Int /\ 97 <= LoadAddr /\ LoadAddr <= 32767
  BY FileAssumption
<1>4. MaxWords \in Nat
  BY FileAssumption
<1>5. Code \subseteq LoadAddr .. 32767
  BY FileAssumption
<1>6. {InitAddr, PlayAddr} \subseteq Code
  BY FileAssumption
<1>2. Stack \in 32768 + 2 * (MaxWords + 2) .. 65535
  BY FileAssumption
<1>3. 2 * (MaxWords + 2) = 2 * MaxWords + 4 /\ 2 * MaxWords \in Nat
  BY <1>4
<1> QED  BY <1>1, <1>2, <1>3, <1>4, <1>5, <1>6

LEMMA PointsApart ==
  /\ \A p \in RstPcs \cup HandlerPcs \cup FilePoints \cup ReplayerPcs : p \in Nat /\ p # HaltAtPc
  /\ \A p \in FilePoints \cup RstPcs : p \notin HandlerPcs
  /\ \A c \in Code : c \in FilePoints /\ c \notin RstPcs
BY Bounds DEF RstPcs, HandlerPcs, FilePoints, ReplayerPcs, EarlyPcs, LdSpPc, SetupPcs, LatePcs, HaltAtPc

\* It goes on in the innermost routine.
LEMMA MoveKeepsInv ==
  ASSUME NEW fr, NEW p, NEW s, NEW mem, NEW on, NEW will, InOrderInv(fr, p, s, mem, on, will),
         NEW q, NEW on2, NEW will2,
         fr # <<>>, Stands(Len(fr), fr[Len(fr)], q), q \notin HandlerPcs,
         Replayer => Len(fr) # 1,
         on2 => on \/ (will2 /\ Stack - s < 2 * MaxWords), will => will2
  PROVE  InOrderInv(fr, q, s, mem, on2, will2)
<1>0. Entered(fr) /\ Inside(fr, p, s, on) /\ InTurn(fr, p, on, will) /\ Stacked(First, fr, s, mem)
  BY DEF InOrderInv
<1>1. q # HaltAtPc
  BY PointsApart DEF Stands
<1>2. p # HaltAtPc
  BY <1>0, PointsApart DEF Inside, Stands
<1>3. Inside(fr, q, s, on2)
  <2>1. s \in Nat /\ s <= Stack /\ Stack - s < 2 * MaxWords + 6
    BY <1>0, Bounds DEF Inside, Room
  <2>2. on2 => Stack - s < 2 * MaxWords + 2
    BY <1>0, Bounds, <2>1 DEF Inside, IrqRoom
  <2>3. Stack - s < Room(q) /\ (on2 => Stack - s < IrqRoom(q))
    BY Bounds, <2>1, <2>2 DEF Room, IrqRoom
  <2> QED  BY <1>1, <2>1, <2>3 DEF Inside
<1>4. InTurn(fr, q, on2, will2)
  BY <1>0, <1>1, <1>2 DEF InTurn
<1> QED  BY <1>0, <1>3, <1>4 DEF InOrderInv

\* It enters a routine, or an interrupt does.
LEMMA EnterKeepsInv ==
  ASSUME NEW fr, NEW p, NEW s, NEW mem, NEW on, NEW will, InOrderInv(fr, p, s, mem, on, will),
         NEW e \in Routine, NEW q, NEW on2, NEW will2,
         e.sp = s, e.pushed = 0,
         Stands(Len(fr) + 1, e, q),
         IF fr = <<>> THEN e.ret = HaltAtPc ELSE Stands(Len(fr), fr[Len(fr)], e.ret),
         e.to \in {64, 80} => Stack - s < IrqRoom(e.ret),
         e.ret \in RstPcs => e.to \in {64, 80},
         Replayer /\ Len(fr) = 1 => s = Stack /\ e.ret \in LatePcs,
         Stack - s + 2 < Room(q), on2 => Stack - s + 2 < IrqRoom(q),
         ~will2 => ~on2 /\ ~will /\ (e.to \in {64, 80} => fr = <<>>)
  PROVE  InOrderInv(Append(fr, e), q, s - 2, Put2(mem, s - 2, e.ret), on2, will2)
<1> DEFINE new == Append(fr, e)
<1>0. Entered(fr) /\ Inside(fr, p, s, on) /\ InTurn(fr, p, on, will) /\ Stacked(First, fr, s, mem)
  BY DEF InOrderInv
<1>1. fr \in Seq(Routine) /\ s \in Nat /\ s <= Stack /\ Len(fr) \in Nat
  BY <1>0 DEF Entered, Inside
<1>2. /\ new \in Seq(Routine) /\ Len(new) = Len(fr) + 1 /\ new[Len(new)] = e /\ new # <<>>
      /\ \A i \in 1 .. Len(fr) : new[i] = fr[i]
  <2>1. /\ new \in Seq(Routine) /\ Len(new) = Len(fr) + 1 /\ new[Len(fr) + 1] = e
        /\ \A i \in 1 .. Len(fr) : new[i] = fr[i]
    BY <1>1
  <2> HIDE DEF new
  <2>2. new # <<>>
    BY <1>1, <2>1
  <2> QED  BY <2>1, <2>2
<1>3. fr = <<>> <=> Len(fr) = 0
  BY <1>1
<1>4. s >= 2
  <2>1. Stack - s + 2 < 2 * MaxWords + 6
    BY <1>1, Bounds DEF Room
  <2> QED  BY <1>1, <2>1, Bounds
<1>5. q # HaltAtPc
  BY PointsApart DEF Stands
<1> HIDE DEF new
<1>6. Entered(new)
  <2>1. new[1].ret = HaltAtPc /\ new[1].sp = Stack
    <3>1. CASE fr = <<>>
      <4>1. e.ret = HaltAtPc /\ s = Stack
        BY <1>0, <3>1 DEF Inside
      <4> QED  BY <1>2, <1>3, <3>1, <4>1
    <3>2. CASE fr # <<>>
      <4>1. new[1] = fr[1]
        BY <1>1, <1>2, <1>3, <3>2
      <4> QED  BY <1>0, <3>2, <4>1 DEF Entered
    <3> QED  BY <3>1, <3>2
  <2>2. ASSUME Replayer
        PROVE  /\ new[1].to = 256
               /\ Len(new) > 1 => new[2].sp = Stack /\ new[2].ret \in LatePcs
    <3>0. fr # <<>> /\ fr[1].to = 256
      BY <1>0, <2>2 DEF Entered
    <3>1. new[1] = fr[1] /\ fr[1].to = 256 /\ Len(fr) # 0
      BY <1>1, <1>2, <1>3, <3>0
    <3>2. CASE Len(fr) = 1
      <4>1. new[2] = e /\ e.sp = Stack /\ e.ret \in LatePcs
        BY <1>2, <2>2, <3>2
      <4> QED  BY <3>1, <4>1
    <3>3. CASE Len(fr) > 1
      <4>1. new[2] = fr[2]
        BY <1>1, <1>2, <3>3
      <4> QED  BY <1>0, <2>2, <3>1, <3>3, <4>1 DEF Entered
    <3>4. \A k \in Nat : k # 0 => k = 1 \/ k > 1
      OBVIOUS
    <3>5. Len(fr) = 1 \/ Len(fr) > 1
      BY <1>1, <3>1, <3>4, Zenon
    <3> QED  BY <3>2, <3>3, <3>5
  <2>3. ASSUME NEW i \in 1 .. Len(new)
        PROVE  /\ new[i].sp <= Stack
               /\ new[i].to \in {64, 80} => Stack - new[i].sp < IrqRoom(new[i].ret)
               /\ new[i].ret \in RstPcs => new[i].to \in {64, 80}
               /\ i # 1 => Stands(i - 1, new[i - 1], new[i].ret)
    <3>1. CASE i = Len(new)
      <4>1. i # 1 => fr # <<>> /\ i - 1 = Len(fr) /\ new[i - 1] = fr[Len(fr)]
        BY <1>1, <1>2, <1>3, <3>1
      <4> QED  BY <1>1, <1>2, <3>1, <4>1
    <3>2. CASE i # Len(new)
      <4>1. i \in 1 .. Len(fr) /\ new[i] = fr[i] /\ (i # 1 => new[i - 1] = fr[i - 1])
        BY <1>1, <1>2, <3>2
      <4> QED  BY <1>0, <4>1 DEF Entered
    <3> QED  BY <3>1, <3>2
  <2> QED  BY <1>2, <2>1, <2>2, <2>3 DEF Entered
<1>7. Inside(new, q, s - 2, on2)
  <2>1. ~(Replayer /\ Len(new) = 1)
    BY <1>0, <1>1, <1>2, <1>3 DEF Entered
  <2>2. s - 2 \in Nat /\ s - 2 <= Stack /\ Stack - (s - 2) = Stack - s + 2
    BY <1>1, <1>4, Bounds, SMTT(30)
  <2> QED  BY <1>2, <1>5, <2>1, <2>2 DEF Inside
<1>8. InTurn(new, q, on2, will2)
  <2>1. ASSUME ~will2, NEW i \in 1 .. Len(new), new[i].to \in {64, 80}
        PROVE  i = 1 /\ ~Replayer
    <3>1. CASE i = Len(new)
      BY <1>0, <1>1, <1>2, <1>3, <2>1, <3>1 DEF Entered
    <3>2. CASE i # Len(new)
      <4>1. i \in 1 .. Len(fr) /\ new[i] = fr[i]
        BY <1>1, <1>2, <3>2
      <4> QED  BY <1>0, <2>1, <4>1 DEF InTurn
    <3> QED  BY <3>1, <3>2
  <2> QED  BY <1>5, <2>1 DEF InTurn
<1>9. Stacked(First, new, s - 2, Put2(mem, s - 2, e.ret))
  <2>1. First \in {1, 2} /\ First <= Len(fr) + 1
    BY <1>0, <1>1, <1>3 DEF First, Entered
  <2> QED  BY <1>0, <1>1, <1>4, <2>1, EnterStacked DEF new
<1> QED  BY <1>6, <1>7, <1>8, <1>9 DEF new, InOrderInv

\* It returns from the innermost routine.
LEMMA LeaveKeepsInv ==
  ASSUME NEW fr, NEW p, NEW s, NEW mem, NEW on, NEW will, InOrderInv(fr, p, s, mem, on, will),
         NEW on2, NEW will2,
         fr # <<>>, fr[Len(fr)].pushed = 0, Replayer => Len(fr) # 1,
         on2 => \/ on \/ Stack - s < 2 * MaxWords
                \/ fr[Len(fr)].to \in {64, 80} \/ fr[Len(fr)].ret = HaltAtPc,
         IF fr[Len(fr)].ret = HaltAtPc THEN on2 /\ ~will2 ELSE ~will2 => ~on2 /\ ~will
  PROVE  /\ fr[Len(fr)].sp = s + 2 /\ fr[Len(fr)].ret \in Nat /\ Holds(mem, s, fr[Len(fr)].ret)
         /\ s + 2 <= Stack
         /\ InOrderInv(Front(fr), fr[Len(fr)].ret, s + 2, Without(mem, {s, s + 1}), on2, will2)
<1> DEFINE n == Len(fr)
           r == fr[n].ret
           old == Front(fr)
<1>0. Entered(fr) /\ Inside(fr, p, s, on) /\ InTurn(fr, p, on, will) /\ Stacked(First, fr, s, mem)
  BY DEF InOrderInv
<1>1. /\ fr \in Seq(Routine) /\ s \in Nat /\ n \in Nat /\ n >= 1 /\ s <= Stack
      /\ n \in 1 .. Len(fr)
  BY <1>0 DEF Entered, Inside
<1>2. First \in {1, 2} /\ First <= n /\ (Replayer => n # 1)
  <2>1. Replayer => n # 1
    OBVIOUS
  <2> HIDE DEF n
  <2> QED  BY <1>1, <2>1 DEF First
<1>3. /\ fr[n].sp = s + 2 /\ Holds(mem, s, r)
      /\ old \in Seq(Routine) /\ Len(old) = n - 1
      /\ \A i \in 1 .. n - 1 : old[i] = fr[i]
      /\ Stacked(First, old, s + 2, Without(mem, {s, s + 1}))
  BY <1>0, <1>1, <1>2, LeaveStacked
<1> HIDE DEF old
<1>4. r \in Nat /\ s + 2 <= Stack /\ fr[n].sp \in Nat
  BY <1>0, <1>1, <1>3, Fields DEF Entered
<1>5. old = <<>> <=> n = 1
  BY <1>1, <1>3
<1>6. n = 1 => r = HaltAtPc
  BY <1>0, <1>1 DEF Entered
<1>7. n # 1 => Stands(n - 1, fr[n - 1], r)
  BY <1>0, <1>1 DEF Entered
<1>8. n # 1 => r # HaltAtPc
  BY <1>7, PointsApart DEF Stands
<1>9. Entered(old)
  <2>1. n # 1 => old[1] = fr[1] /\ (n - 1 > 1 => old[2] = fr[2])
    BY <1>1, <1>3
  <2>2. old # <<>> => old[1].ret = HaltAtPc /\ old[1].sp = Stack
    BY <1>0, <1>1, <1>5, <2>1 DEF Entered
  <2>3. Replayer => /\ old # <<>> /\ old[1].to = 256
                    /\ Len(old) > 1 => old[2].sp = Stack /\ old[2].ret \in LatePcs
    BY <1>0, <1>1, <1>2, <1>3, <1>5, <2>1 DEF Entered
  <2>4. ASSUME NEW i \in 1 .. Len(old)
        PROVE  /\ old[i].sp <= Stack
               /\ old[i].to \in {64, 80} => Stack - old[i].sp < IrqRoom(old[i].ret)
               /\ old[i].ret \in RstPcs => old[i].to \in {64, 80}
               /\ i # 1 => Stands(i - 1, old[i - 1], old[i].ret)
    <3>1. i \in 1 .. Len(fr) /\ old[i] = fr[i] /\ (i # 1 => old[i - 1] = fr[i - 1])
      BY <1>1, <1>3
    <3> QED  BY <1>0, <3>1 DEF Entered
  <2> QED  BY <1>3, <2>2, <2>3, <2>4 DEF Entered
<1>10. Inside(old, r, s + 2, on2)
  <2>1. IF old = <<>> THEN r = HaltAtPc /\ s + 2 = Stack ELSE Stands(Len(old), old[Len(old)], r)
    <3>1. CASE n = 1
      <4>1. fr[1].sp = Stack
        BY <1>0, <1>1, <3>1 DEF Entered
      <4> QED  BY <1>3, <1>5, <1>6, <3>1, <4>1
    <3>2. CASE n # 1
      <4>1. Len(old) \in 1 .. n - 1 /\ Len(old) = n - 1
        BY <1>1, <1>3, <3>2
      <4> QED  BY <1>3, <1>5, <1>7, <3>2, <4>1
    <3> QED  BY <3>1, <3>2
  <2>2. Stack - (s + 2) < Room(r)
    <3>1. Stack - s < 2 * MaxWords + 6
      BY <1>0, <1>1, Bounds DEF Inside, Room
    <3> QED  BY <1>1, <3>1, Bounds DEF Room
  <2>3. ASSUME on2 PROVE Stack - (s + 2) < IrqRoom(r)
    <3>1. CASE on \/ Stack - s < 2 * MaxWords
      <4>1. Stack - s < 2 * MaxWords + 2
        BY <1>0, <1>1, <3>1, Bounds DEF Inside, IrqRoom
      <4> QED  BY <1>1, <4>1, Bounds DEF IrqRoom
    <3>2. CASE fr[n].to \in {64, 80}
      BY <1>0, <1>1, <1>3, <3>2 DEF Entered
    <3>3. CASE r = HaltAtPc
      <4>1. n = 1
        BY <1>8, <3>3
      <4>2. s + 2 = Stack
        BY <1>5, <2>1, <4>1
      <4>3. Stack - (s + 2) = 0
        BY <1>1, <4>2, Bounds
      <4>4. r \notin HandlerPcs
        BY <3>3 DEF HandlerPcs, HaltAtPc
      <4> QED  BY <4>3, <4>4, Bounds DEF IrqRoom
    <3> QED  BY <2>3, <3>1, <3>2, <3>3
  <2>4. r = HaltAtPc => on2
    OBVIOUS
  <2>5. ASSUME Replayer, Len(old) = 1
        PROVE  /\ s + 2 = IF r \in EarlyPcs THEN Stack - 2 ELSE Stack
               /\ r \in LatePcs
    <3>1. n = 2
      <4>1. n - 1 = 1
        BY <1>3, <2>5
      <4> HIDE DEF n
      <4> QED  BY <1>1, <4>1
    <3>2. fr[2].sp = Stack /\ r \in LatePcs
      BY <1>0, <1>1, <2>5, <3>1 DEF Entered
    <3>3. r \notin EarlyPcs
      BY <3>2 DEF EarlyPcs, LatePcs, LdSpPc
    <3> QED  BY <1>3, <3>1, <3>2, <3>3
  <2> QED  BY <1>1, <1>4, <2>1, <2>2, <2>3, <2>4, <2>5 DEF Inside
<1>11. InTurn(old, r, on2, will2)
  <2>1. ASSUME ~will2, NEW i \in 1 .. Len(old), old[i].to \in {64, 80}
        PROVE  i = 1 /\ ~Replayer
    <3>1. CASE r = HaltAtPc
      <4>1. n = 1
        BY <1>8, <3>1
      <4> QED  BY <1>3, <2>1, <4>1
    <3>2. CASE r # HaltAtPc
      <4>1. ~will /\ i \in 1 .. Len(fr) /\ old[i] = fr[i]
        BY <1>1, <1>3, <2>1, <3>2
      <4> QED  BY <1>0, <2>1, <4>1 DEF InTurn
    <3> QED  BY <3>1, <3>2
  <2> QED  BY <2>1 DEF InTurn
<1> QED  BY <1>3, <1>4, <1>9, <1>10, <1>11 DEF old, n, r, InOrderInv

\* It pushes a word, or pops one.
LEMMA PushedKeepsInv ==
  ASSUME NEW fr, NEW p, NEW s, NEW mem, NEW on, NEW will, InOrderInv(fr, p, s, mem, on, will),
         NEW q, NEW will2, NEW k \in {1, -1}, NEW s2 \in Nat, NEW mem2,
         fr # <<>>, Stands(Len(fr), fr[Len(fr)], q), q \notin HandlerPcs, Replayer => Len(fr) # 1,
         k = -1 => fr[Len(fr)].pushed > 0,
         s2 <= Stack, Stack - s2 < 2 * MaxWords + IF on THEN 2 ELSE 6,
         Stacked(First, Pushed(fr, k), s2, mem2), will2 = will
  PROVE  InOrderInv(Pushed(fr, k), q, s2, mem2, on, will2)
<1> DEFINE new == Pushed(fr, k)
<1>0. Entered(fr) /\ Inside(fr, p, s, on) /\ InTurn(fr, p, on, will)
  BY DEF InOrderInv
<1>1. fr \in Seq(Routine) /\ Len(fr) \in Nat /\ Len(fr) # 0
  BY <1>0 DEF Entered
<1>2. /\ new \in Seq(Routine) /\ Len(new) = Len(fr)
      /\ \A i \in 1 .. Len(fr) :
           /\ new[i].ret = fr[i].ret /\ new[i].to = fr[i].to /\ new[i].sp = fr[i].sp
           /\ new[i].pushed = IF i = Len(fr) THEN fr[i].pushed + k ELSE fr[i].pushed
  BY <1>1, PushedIs
<1> HIDE DEF new
<1>3. new # <<>> /\ q # HaltAtPc /\ p # HaltAtPc
  BY <1>0, <1>1, <1>2, PointsApart DEF Inside, Stands
<1>4. Entered(new)
  <2>1. 1 \in 1 .. Len(fr) /\ (Len(fr) > 1 => 2 \in 1 .. Len(fr))
    BY <1>1
  <2>2. new[1].ret = HaltAtPc /\ new[1].sp = Stack
    BY <1>0, <1>2, <2>1 DEF Entered
  <2>3. Replayer => /\ new[1].to = 256
                    /\ Len(new) > 1 => new[2].sp = Stack /\ new[2].ret \in LatePcs
    BY <1>0, <1>2, <2>1 DEF Entered
  <2>4. ASSUME NEW i \in 1 .. Len(new), i # 1
        PROVE  Stands(i - 1, new[i - 1], new[i].ret)
    <3>1. i \in 1 .. Len(fr) /\ i - 1 \in 1 .. Len(fr) /\ i - 1 # Len(fr)
      BY <1>1, <1>2, <2>4
    <3>2. Stands(i - 1, fr[i - 1], fr[i].ret)
      BY <1>0, <2>4, <3>1 DEF Entered
    <3>3. new[i].ret = fr[i].ret /\ new[i - 1].to = fr[i - 1].to
          /\ new[i - 1].pushed = fr[i - 1].pushed
      BY <1>2, <3>1
    <3> QED  BY <3>2, <3>3 DEF Stands
  <2>5. ASSUME NEW i \in 1 .. Len(new)
        PROVE  /\ new[i].sp <= Stack
               /\ new[i].to \in {64, 80} => Stack - new[i].sp < IrqRoom(new[i].ret)
               /\ new[i].ret \in RstPcs => new[i].to \in {64, 80}
    <3>1. i \in 1 .. Len(fr)
      BY <1>2
    <3>2. new[i].ret = fr[i].ret /\ new[i].to = fr[i].to /\ new[i].sp = fr[i].sp
      BY <1>2, <3>1
    <3> QED  BY <1>0, <3>1, <3>2 DEF Entered
  <2> QED  BY <1>2, <1>3, <2>2, <2>3, <2>4, <2>5 DEF Entered
<1>5. Inside(new, q, s2, on)
  <2>1. new[Len(new)].to = fr[Len(fr)].to
    BY <1>1, <1>2
  <2>2. Stands(Len(new), new[Len(new)], q)
    BY <1>2, <2>1 DEF Stands
  <2>3. Stack - s2 < Room(q) /\ (on => Stack - s2 < IrqRoom(q))
    BY Bounds DEF Room, IrqRoom
  <2> QED  BY <1>2, <1>3, <2>2, <2>3 DEF Inside
<1>6. InTurn(new, q, on, will)
  <2>1. ASSUME ~will, NEW i \in 1 .. Len(new), new[i].to \in {64, 80}
        PROVE  i = 1 /\ ~Replayer
    <3>1. i \in 1 .. Len(fr)
      BY <1>2
    <3>2. new[i].to = fr[i].to
      BY <1>2, <3>1
    <3> QED  BY <1>0, <2>1, <3>1, <3>2 DEF InTurn
  <2> QED  BY <1>0, <1>3, <2>1 DEF InTurn
<1> QED  BY <1>4, <1>5, <1>6 DEF InOrderInv, new

-----------------------------------------------------------------------------
(***************************************************************************)
(* The ROM of gbs_open.                                                    *)
(***************************************************************************)
LEMMA LenIs ==
  ASSUME NEW S, NEW q \in Seq(S), NEW n \in Nat, DOMAIN q = 1 .. n
  PROVE  Len(q) = n
OBVIOUS

LEMMA BytesAre ==
  ASSUME NEW addr, NEW q
  PROVE  /\ DOMAIN Bytes(addr, q) = addr .. addr + Len(q) - 1
         /\ \A x \in DOMAIN Bytes(addr, q) : Bytes(addr, q)[x] = q[x - addr + 1]
BY DEF Bytes

LEMMA BothAre ==
  ASSUME NEW m, NEW n
  PROVE  /\ DOMAIN Both(m, n) = DOMAIN m \cup DOMAIN n
         /\ \A x \in DOMAIN m : Both(m, n)[x] = m[x]
         /\ \A x \in DOMAIN n : x \notin DOMAIN m => Both(m, n)[x] = n[x]
BY DEF Both

\* The bytes of a call, and those of a handler of up to two calls.
LEMMA CallBytesAre ==
  ASSUME NEW c \in Nat
  PROVE  /\ CallBytes(c)[1] = \hCD /\ CallBytes(c)[2] = Low(c) /\ CallBytes(c)[3] = High(c)
         /\ Low(c) \in Int /\ High(c) \in Int /\ Low(c) + 256 * High(c) = c
<1>1. CallBytes(c)[1] = \hCD /\ CallBytes(c)[2] = Low(c) /\ CallBytes(c)[3] = High(c)
  BY DEF CallBytes
<1>2. Low(c) \in 0 .. 255 /\ High(c) \in Nat /\ Low(c) + 256 * High(c) = c
  BY WordIs
<1> QED  BY <1>1, <1>2

LEMMA HandlerBytesAre ==
  ASSUME NEW calls \in Seq(Code), Len(calls) <= 2, NEW b, b = HandlerBytes(calls)
  PROVE  /\ b \in Seq(Int) /\ Len(b) = 3 * Len(calls) + 1
         /\ Len(calls) = 0 => b[1] = \hD9
         /\ Len(calls) >= 1 => b[1] = \hCD /\ b[2] + 256 * b[3] = calls[1]
         /\ Len(calls) = 1 => b[4] = \hD9
         /\ Len(calls) = 2 => b[4] = \hCD /\ b[5] + 256 * b[6] = calls[2] /\ b[7] = \hD9
<1> DEFINE n == Len(calls)
<1>1. n \in Nat /\ n <= 2 /\ \A k \in 1 .. n : calls[k] \in Code
  OBVIOUS
<1>2. /\ DOMAIN b = 1 .. 3 * n + 1
      /\ \A i \in 1 .. 3 * n + 1 :
           b[i] = IF i > 3 * n THEN \hD9
                  ELSE CallBytes(calls[1 + ((i - 1) \div 3)])[1 + ((i - 1) % 3)]
  BY <1>1 DEF HandlerBytes
<1>3. b = [i \in 1 .. 3 * n + 1 |-> b[i]]
  BY <1>1 DEF HandlerBytes
<1> HIDE DEF n
<1>4. \A k \in 1 .. n : calls[k] \in Nat
  BY <1>1, Bounds
<1>5. /\ 1 + ((1 - 1) \div 3) = 1 /\ 1 + ((1 - 1) % 3) = 1
      /\ 1 + ((2 - 1) \div 3) = 1 /\ 1 + ((2 - 1) % 3) = 2
      /\ 1 + ((3 - 1) \div 3) = 1 /\ 1 + ((3 - 1) % 3) = 3
      /\ 1 + ((4 - 1) \div 3) = 2 /\ 1 + ((4 - 1) % 3) = 1
      /\ 1 + ((5 - 1) \div 3) = 2 /\ 1 + ((5 - 1) % 3) = 2
      /\ 1 + ((6 - 1) \div 3) = 2 /\ 1 + ((6 - 1) % 3) = 3
  OBVIOUS
<1>6. n = 0 => b[1] = \hD9
  BY <1>2
<1>7. n >= 1 => /\ b[1] = CallBytes(calls[1])[1]
                /\ b[2] = CallBytes(calls[1])[2] /\ b[3] = CallBytes(calls[1])[3]
  BY <1>1, <1>2, <1>5
<1>8. n = 1 => b[4] = \hD9
  BY <1>2
<1>9. n = 2 => /\ b[4] = CallBytes(calls[2])[1]
               /\ b[5] = CallBytes(calls[2])[2] /\ b[6] = CallBytes(calls[2])[3]
  BY <1>1, <1>2, <1>5
<1>10. n = 2 => b[7] = \hD9
  BY <1>2
<1>11. n >= 1 => b[1] = \hCD /\ b[2] + 256 * b[3] = calls[1] /\ b[2] \in Int /\ b[3] \in Int
  <2>1. ASSUME n >= 1 PROVE calls[1] \in Nat
    BY <1>1, <1>4, <2>1
  <2>2. ASSUME n >= 1
        PROVE  b[1] = \hCD /\ b[2] = Low(calls[1]) /\ b[3] = High(calls[1])
    BY <1>7, <2>1, <2>2, CallBytesAre
  <2>3. ASSUME n >= 1
        PROVE  /\ Low(calls[1]) \in Int /\ High(calls[1]) \in Int
               /\ Low(calls[1]) + 256 * High(calls[1]) = calls[1]
    BY <2>1, <2>3, CallBytesAre, ZenonT(40)
  <2> QED  BY <2>2, <2>3
<1>12. n = 2 => b[4] = \hCD /\ b[5] + 256 * b[6] = calls[2] /\ b[5] \in Int /\ b[6] \in Int
  <2>1. ASSUME n = 2 PROVE calls[2] \in Nat
    BY <1>1, <1>4, <2>1
  <2>2. ASSUME n = 2
        PROVE  b[4] = \hCD /\ b[5] = Low(calls[2]) /\ b[6] = High(calls[2])
    BY <1>9, <2>1, <2>2, CallBytesAre
  <2>3. ASSUME n = 2
        PROVE  /\ Low(calls[2]) \in Int /\ High(calls[2]) \in Int
               /\ Low(calls[2]) + 256 * High(calls[2]) = calls[2]
    BY <2>1, <2>3, CallBytesAre, ZenonT(40)
  <2> QED  BY <2>2, <2>3
<1>13. \A i \in 1 .. 3 * n + 1 : b[i] \in Int
  <2>1. CASE n = 0
    BY <1>6, <2>1
  <2>2. CASE n = 1
    BY <1>8, <1>11, <2>2
  <2>3. CASE n = 2
    <3>1. \A i \in 1 .. 3 * n + 1 : i \in {1, 2, 3, 4, 5, 6, 7}
      BY <2>3
    <3>2. /\ b[1] \in Int /\ b[2] \in Int /\ b[3] \in Int
          /\ b[4] \in Int /\ b[5] \in Int /\ b[6] \in Int /\ b[7] \in Int
      BY <1>10, <1>11, <1>12, <2>3, SMTT(30)
    <3> QED  BY <3>1, <3>2
  <2> QED  BY <1>1, <2>1, <2>2, <2>3
<1>14. b \in Seq(Int) /\ Len(b) = 3 * n + 1
  <2>1. 3 * n + 1 \in Nat
    BY <1>1
  <2>2. b \in Seq(Int)
    BY <1>3, <1>13, <2>1
  <2> QED  BY <1>2, <2>1, <2>2, LenIs
<1> QED  BY <1>6, <1>8, <1>10, <1>11, <1>12, <1>14 DEF n

LEMMA HandlerIs ==
  ASSUME NEW base \in {64, 80}, NEW calls \in Seq(Code), Len(calls) <= 2,
         NEW m, m = Bytes(base, HandlerBytes(calls))
  PROVE  /\ \A x \in DOMAIN m : x \in base .. base + 6
         /\ \A p \in {base, base + 3, base + 6} : p \in DOMAIN m =>
              \/ m[p] = \hD9
              \/ /\ m[p] = \hCD /\ {p + 1, p + 2, p + 3} \subseteq DOMAIN m
                 /\ m[p + 1] + 256 * m[p + 2] \in Code
<1> DEFINE b == HandlerBytes(calls)
           n == Len(calls)
<1>1. n \in {0, 1, 2} /\ \A k \in 1 .. n : calls[k] \in Code
  <2>1. n \in Nat /\ n <= 2 /\ \A k \in 1 .. n : calls[k] \in Code
    OBVIOUS
  <2> HIDE DEF n
  <2> QED  BY <2>1
<1>2. /\ Len(b) = 3 * n + 1
      /\ n = 0 => b[1] = \hD9
      /\ n >= 1 => b[1] = \hCD /\ b[2] + 256 * b[3] = calls[1]
      /\ n = 1 => b[4] = \hD9
      /\ n = 2 => b[4] = \hCD /\ b[5] + 256 * b[6] = calls[2] /\ b[7] = \hD9
  BY HandlerBytesAre
<1>3. /\ DOMAIN m = base .. base + Len(b) - 1
      /\ \A x \in DOMAIN m : m[x] = b[x - base + 1]
  BY BytesAre
<1> HIDE DEF b, n
<1>4. \A x \in DOMAIN m : x \in base .. base + 6
  BY <1>1, <1>2, <1>3
<1>5. CASE n = 0
  <2>1. DOMAIN m = {base} /\ m[base] = \hD9
    <3>1. DOMAIN m = base .. base /\ base - base + 1 = 1
      BY <1>2, <1>3, <1>5
    <3> QED  BY <1>2, <1>3, <1>5, <3>1
  <2> QED  BY <1>4, <2>1
<1>6. CASE n = 1
  <2>1. DOMAIN m = base .. base + 3
    BY <1>2, <1>3, <1>6
  <2>2. /\ base - base + 1 = 1 /\ base + 1 - base + 1 = 2 /\ base + 2 - base + 1 = 3
        /\ base + 3 - base + 1 = 4
    OBVIOUS
  <2>3. m[base] = b[1] /\ m[base + 1] = b[2] /\ m[base + 2] = b[3] /\ m[base + 3] = b[4]
    <3>1. \A x \in {base, base + 1, base + 2, base + 3} : x \in DOMAIN m
      BY <2>1
    <3>2. \A x \in {base, base + 1, base + 2, base + 3} : m[x] = b[x - base + 1]
      BY <1>3, <3>1
    <3> QED  BY <2>2, <3>2
  <2>4. m[base] = \hCD /\ m[base + 3] = \hD9 /\ m[base + 1] + 256 * m[base + 2] \in Code
    BY <1>1, <1>2, <1>6, <2>3
  <2>5. {base + 1, base + 2, base + 3} \subseteq DOMAIN m /\ base + 6 \notin DOMAIN m
    BY <2>1
  <2> QED  BY <1>4, <2>4, <2>5
<1>7. CASE n = 2
  <2>1. DOMAIN m = base .. base + 6
    BY <1>2, <1>3, <1>7
  <2>2. /\ base - base + 1 = 1 /\ base + 1 - base + 1 = 2 /\ base + 2 - base + 1 = 3
        /\ base + 3 - base + 1 = 4 /\ base + 4 - base + 1 = 5 /\ base + 5 - base + 1 = 6
        /\ base + 6 - base + 1 = 7
    OBVIOUS
  <2>3. /\ m[base] = b[1] /\ m[base + 1] = b[2] /\ m[base + 2] = b[3]
        /\ m[base + 3] = b[4] /\ m[base + 4] = b[5] /\ m[base + 5] = b[6] /\ m[base + 6] = b[7]
    <3> DEFINE at == {base, base + 1, base + 2, base + 3, base + 4, base + 5, base + 6}
    <3>1. \A x \in at : x \in DOMAIN m
      BY <2>1
    <3>2. \A x \in at : m[x] = b[x - base + 1]
      BY <1>3, <3>1
    <3> QED  BY <2>2, <3>2, SMTT(30)
  <2>4. /\ m[base] = \hCD /\ m[base + 1] + 256 * m[base + 2] \in Code
        /\ m[base + 3] = \hCD /\ m[base + 4] + 256 * m[base + 5] \in Code
        /\ m[base + 6] = \hD9
    BY <1>1, <1>2, <1>7, <2>3, SMTT(30)
  <2>5. /\ {base + 1, base + 2, base + 3, base + 4, base + 5, base + 6} \subseteq DOMAIN m
        /\ base + 3 + 1 = base + 4 /\ base + 3 + 2 = base + 5 /\ base + 3 + 3 = base + 6
    BY <2>1
  <2> QED  BY <1>4, <2>4, <2>5
<1> QED  BY <1>1, <1>5, <1>6, <1>7

LEMMA RstRomIs ==
  /\ DOMAIN RstRom = 0 .. 63
  /\ \A p \in RstPcs : /\ {p, p + 1, p + 2} \subseteq DOMAIN RstRom
                       /\ RstRom[p] = \hC3
                       /\ RstRom[p + 1] + 256 * RstRom[p + 2] = LoadAddr + p
<1>1. /\ DOMAIN RstRom = 0 .. 63
      /\ \A x \in 0 .. 63 : RstRom[x] = IF x % 8 < 3
                                        THEN JpBytes(LoadAddr + (x - (x % 8)))[1 + (x % 8)] ELSE 0
  BY DEF RstRom
<1>2. ASSUME NEW p \in RstPcs
      PROVE  /\ {p, p + 1, p + 2} \subseteq DOMAIN RstRom
             /\ RstRom[p] = \hC3
             /\ RstRom[p + 1] + 256 * RstRom[p + 2] = LoadAddr + p
  <2>1. /\ p \in 0 .. 63 /\ p + 1 \in 0 .. 63 /\ p + 2 \in 0 .. 63
        /\ p % 8 = 0 /\ (p + 1) % 8 = 1 /\ (p + 2) % 8 = 2
    BY DEF RstPcs
  <2>2. LoadAddr + p \in Nat /\ p - 0 = p /\ p + 1 - 1 = p /\ p + 2 - 2 = p
    BY <2>1, Bounds
  <2> DEFINE to == LoadAddr + p
  <2>3. JpBytes(to)[1] = \hC3 /\ JpBytes(to)[2] = Low(to) /\ JpBytes(to)[3] = High(to)
    BY DEF JpBytes
  <2>4. Low(to) + 256 * High(to) = to
    BY <2>2, WordIs
  <2>5. RstRom[p] = \hC3 /\ RstRom[p + 1] = Low(to) /\ RstRom[p + 2] = High(to)
    BY <1>1, <2>1, <2>2, <2>3
  <2> QED  BY <1>1, <2>1, <2>4, <2>5
<1> QED  BY <1>1, <1>2

\* The replayer's instructions, and where it jumps to.
ReplayerOp(m) ==
  /\ m[256] = \h00 /\ m[257] = \hC3 /\ m[336] = \h21 /\ m[339] = \hF9
  /\ m[340] = \h3E /\ m[342] = \hE0 /\ m[344] = \h3E /\ m[346] = \hE0
  /\ m[348] = \h26 /\ m[350] = \h36 /\ m[352] = \h3E /\ m[354] = \hCD
  /\ m[357] = \h3E /\ m[359] = \hE0 /\ m[361] = \h76 /\ m[362] = \hC3
ReplayerWord(m) ==
  /\ m[258] + 256 * m[259] = 336 /\ m[337] + 256 * m[338] = Stack
  /\ m[355] + 256 * m[356] = InitAddr /\ m[363] + 256 * m[364] = 361

LEMMA ReplayerIs ==
  /\ DOMAIN ReplayerRom = (256 .. 259) \cup (336 .. 364)
  /\ ReplayerOp(ReplayerRom) /\ ReplayerWord(ReplayerRom)
<1> DEFINE begin == <<0>> \o JpBytes(336)
           code == ReplayerBytes \o <<\h76>> \o JpBytes(ReplayerLoop)
           m == Bytes(256, begin)
           n == Bytes(336, code)
<1>1. Len(ReplayerBytes) = 25 /\ ReplayerLoop = 361
  <2>1. Len(ReplayerBytes) = 25
    BY DEF ReplayerBytes, CallBytes
  <2> QED  BY <2>1 DEF ReplayerLoop
<1>2. /\ Len(begin) = 4
      /\ begin[1] = 0 /\ begin[2] = \hC3 /\ begin[3] = Low(336) /\ begin[4] = High(336)
  BY DEF JpBytes
<1>3. /\ Len(code) = 29
      /\ code[1] = \h21 /\ code[2] = Low(Stack) /\ code[3] = High(Stack) /\ code[4] = \hF9
  BY DEF ReplayerBytes, CallBytes, JpBytes
<1>4. code[5] = \h3E /\ code[7] = \hE0 /\ code[9] = \h3E /\ code[11] = \hE0
  BY DEF ReplayerBytes, CallBytes, JpBytes
<1>5. code[13] = \h26 /\ code[15] = \h36 /\ code[17] = \h3E
  BY DEF ReplayerBytes, CallBytes, JpBytes
<1>6. code[19] = \hCD /\ code[20] = Low(InitAddr) /\ code[21] = High(InitAddr)
  BY DEF ReplayerBytes, CallBytes, JpBytes
<1>7. code[22] = \h3E /\ code[24] = \hE0 /\ code[26] = \h76
  BY DEF ReplayerBytes, CallBytes, JpBytes
<1>8. code[27] = \hC3 /\ code[28] = Low(ReplayerLoop) /\ code[29] = High(ReplayerLoop)
  BY DEF ReplayerBytes, CallBytes, JpBytes
<1> HIDE DEF begin, code
<1>9. /\ DOMAIN m = 256 .. 259 /\ \A x \in 256 .. 259 : m[x] = begin[x - 255]
      /\ DOMAIN n = 336 .. 364 /\ \A x \in 336 .. 364 : n[x] = code[x - 335]
  <2>1. m = [x \in 256 .. 259 |-> begin[x - 256 + 1]]
    BY <1>2 DEF Bytes
  <2>2. n = [x \in 336 .. 364 |-> code[x - 336 + 1]]
    BY <1>3 DEF Bytes
  <2> HIDE DEF m, n
  <2>3. \A x \in Int : x - 256 + 1 = x - 255 /\ x - 336 + 1 = x - 335
    OBVIOUS
  <2>4. DOMAIN m = 256 .. 259 /\ \A x \in 256 .. 259 : m[x] = begin[x - 255]
    BY <2>1, <2>3
  <2>5. DOMAIN n = 336 .. 364 /\ \A x \in 336 .. 364 : n[x] = code[x - 335]
    BY <2>2, <2>3
  <2> QED  BY <2>4, <2>5
<1> HIDE DEF m, n
<1>10. ReplayerRom = Both(m, n)
  BY DEF ReplayerRom, m, n, begin, code
<1>11. /\ DOMAIN ReplayerRom = (256 .. 259) \cup (336 .. 364)
       /\ \A x \in 256 .. 259 : ReplayerRom[x] = begin[x - 255]
       /\ \A x \in 336 .. 364 : ReplayerRom[x] = code[x - 335]
  <2>1. \A x \in 336 .. 364 : x \notin 256 .. 259
    OBVIOUS
  <2>2. /\ DOMAIN Both(m, n) = DOMAIN m \cup DOMAIN n
        /\ \A x \in DOMAIN m : Both(m, n)[x] = m[x]
        /\ \A x \in DOMAIN n : x \notin DOMAIN m => Both(m, n)[x] = n[x]
    BY BothAre
  <2> QED  BY <1>9, <1>10, <2>1, <2>2
<1>12. /\ Low(336) + 256 * High(336) = 336 /\ Low(Stack) + 256 * High(Stack) = Stack
       /\ Low(InitAddr) + 256 * High(InitAddr) = InitAddr
       /\ Low(ReplayerLoop) + 256 * High(ReplayerLoop) = 361
  BY <1>1, WordIs, Bounds
<1>13. ReplayerOp(ReplayerRom)
  BY <1>2, <1>3, <1>4, <1>5, <1>6, <1>7, <1>8, <1>11 DEF ReplayerOp
<1>14. ReplayerWord(ReplayerRom)
  BY <1>2, <1>3, <1>6, <1>8, <1>11, <1>12 DEF ReplayerWord
<1> QED  BY <1>11, <1>13, <1>14

\* The whole ROM.
Imm16(p) == Rom(p + 1) + 256 * Rom(p + 2)
RomKnown ==
  /\ Replayer => LoadAddr >= 365
  /\ \A x \in DOMAIN rom : x \in Nat /\ x < LoadAddr /\ x \notin Code /\ x # HaltAtPc
  /\ \A x \in DOMAIN rom : \/ x \in 0 .. 63 \/ x \in 64 .. 70 \/ x \in 80 .. 86
                           \/ Replayer /\ x \in (256 .. 259) \cup (336 .. 364)
  /\ \A p \in RstPcs : p \in DOMAIN rom /\ rom[p] = \hC3 /\ Imm16(p) = LoadAddr + p
  /\ \A p \in HandlerPcs : p \in DOMAIN rom =>
       rom[p] = \hD9 \/ (rom[p] = \hCD /\ Imm16(p) \in Code /\ p + 3 \in HandlerPcs)
  /\ Replayer => /\ ReplayerPcs \subseteq DOMAIN rom /\ ReplayerOp(rom)
                 /\ Imm16(257) = 336 /\ Imm16(336) = Stack
                 /\ Imm16(354) = InitAddr /\ Imm16(362) = 361

LEMMA RomIsKnown ==
  ASSUME NEW h \in Handlers, rom = RomOf(h)
  PROVE  RomKnown
<1> DEFINE v == Bytes(64, HandlerBytes(h.vblank))
           t == Bytes(80, HandlerBytes(h.timer))
           own == Both(RstRom, HandlerRom(h))
<1>1. /\ h.vblank \in Seq(Code) /\ h.timer \in Seq(Code) /\ h.replayer \in BOOLEAN
      /\ Len(h.vblank) <= 2 /\ Len(h.timer) <= 2
      /\ h.replayer => LoadAddr >= 365
  <2>1. h \in Handler /\ Len(h.vblank) <= 2 /\ Len(h.timer) <= 2 /\ (h.replayer => LoadAddr >= 365)
    BY HandlersAssumption
  <2> QED  BY <2>1 DEF Handler
<1>2. /\ \A x \in DOMAIN v : x \in 64 .. 70
      /\ \A p \in {64, 67, 70} : p \in DOMAIN v =>
              \/ v[p] = \hD9
              \/ /\ v[p] = \hCD /\ {p + 1, p + 2, p + 3} \subseteq DOMAIN v
                 /\ v[p + 1] + 256 * v[p + 2] \in Code
  <2>1. \A p \in {64, 67, 70} : p \in {64, 64 + 3, 64 + 6}
    OBVIOUS
  <2> QED  BY <1>1, <2>1, HandlerIs
<1>3. /\ \A x \in DOMAIN t : x \in 80 .. 86
      /\ \A p \in {80, 83, 86} : p \in DOMAIN t =>
              \/ t[p] = \hD9
              \/ /\ t[p] = \hCD /\ {p + 1, p + 2, p + 3} \subseteq DOMAIN t
                 /\ t[p + 1] + 256 * t[p + 2] \in Code
  <2>1. \A p \in {80, 83, 86} : p \in {80, 80 + 3, 80 + 6}
    OBVIOUS
  <2> QED  BY <1>1, <2>1, HandlerIs
<1> HIDE DEF v, t
<1>4. HandlerRom(h) = Both(v, t)
  BY DEF HandlerRom, v, t
<1>5. /\ DOMAIN own = (0 .. 63) \cup DOMAIN v \cup DOMAIN t
      /\ \A x \in 0 .. 63 : own[x] = RstRom[x]
      /\ \A x \in DOMAIN v : own[x] = v[x]
      /\ \A x \in DOMAIN t : own[x] = t[x]
  <2>1. /\ \A x \in DOMAIN v : x \notin 0 .. 63
        /\ \A x \in DOMAIN t : x \notin 0 .. 63 /\ x \notin DOMAIN v
    <3>1. \A x \in 64 .. 70 : x \notin 0 .. 63
      OBVIOUS
    <3>2. \A x \in 80 .. 86 : x \notin 0 .. 63 /\ x \notin 64 .. 70
      OBVIOUS
    <3> QED  BY <1>2, <1>3, <3>1, <3>2
  <2>2. /\ DOMAIN HandlerRom(h) = DOMAIN v \cup DOMAIN t
        /\ \A x \in DOMAIN v : HandlerRom(h)[x] = v[x]
        /\ \A x \in DOMAIN t : HandlerRom(h)[x] = t[x]
    <3>1. /\ DOMAIN Both(v, t) = DOMAIN v \cup DOMAIN t
          /\ \A x \in DOMAIN v : Both(v, t)[x] = v[x]
          /\ \A x \in DOMAIN t : x \notin DOMAIN v => Both(v, t)[x] = t[x]
      BY BothAre
    <3> QED  BY <1>4, <2>1, <3>1
  <2>3. /\ DOMAIN own = DOMAIN RstRom \cup DOMAIN HandlerRom(h)
        /\ \A x \in DOMAIN RstRom : own[x] = RstRom[x]
        /\ \A x \in DOMAIN HandlerRom(h) : x \notin DOMAIN RstRom => own[x] = HandlerRom(h)[x]
    BY BothAre, Zenon
  <2>4. DOMAIN RstRom = 0 .. 63
    BY RstRomIs
  <2> HIDE DEF own
  <2> QED  BY <2>1, <2>2, <2>3, <2>4
<1>6. rom = IF h.replayer THEN Both(own, ReplayerRom) ELSE own
  BY DEF RomOf
<1> HIDE DEF own
<1>7. \A x \in DOMAIN own : x \in 0 .. 63 \/ x \in 64 .. 70 \/ x \in 80 .. 86
  BY <1>2, <1>3, <1>5
<1>8. /\ DOMAIN rom = DOMAIN own \cup (IF h.replayer THEN (256 .. 259) \cup (336 .. 364) ELSE {})
      /\ \A x \in DOMAIN own : rom[x] = own[x]
      /\ h.replayer => \A x \in (256 .. 259) \cup (336 .. 364) : rom[x] = ReplayerRom[x]
  <2>1. \A x \in (256 .. 259) \cup (336 .. 364) : x \notin DOMAIN own
    BY <1>7
  <2>2. DOMAIN ReplayerRom = (256 .. 259) \cup (336 .. 364)
    BY ReplayerIs
  <2>3. /\ DOMAIN Both(own, ReplayerRom) = DOMAIN own \cup DOMAIN ReplayerRom
        /\ \A x \in DOMAIN own : Both(own, ReplayerRom)[x] = own[x]
        /\ \A x \in DOMAIN ReplayerRom : x \notin DOMAIN own =>
             Both(own, ReplayerRom)[x] = ReplayerRom[x]
    BY BothAre
  <2>4. CASE h.replayer
    BY <1>6, <2>1, <2>2, <2>3, <2>4
  <2>5. CASE ~h.replayer
    BY <1>6, <2>5
  <2> QED  BY <2>4, <2>5
<1>9. Replayer <=> h.replayer
  <2>1. 256 \notin DOMAIN own
    BY <1>7
  <2>2. 256 \in (256 .. 259) \cup (336 .. 364)
    OBVIOUS
  <2> QED  BY <1>8, <2>1, <2>2 DEF Replayer
<1>10. \A x \in DOMAIN rom : \/ x \in 0 .. 63 \/ x \in 64 .. 70 \/ x \in 80 .. 86
                             \/ Replayer /\ x \in (256 .. 259) \cup (336 .. 364)
  BY <1>7, <1>8, <1>9
<1>11. \A x \in DOMAIN rom : x \in Nat /\ x < LoadAddr /\ x \notin Code /\ x # HaltAtPc
  <2>1. ASSUME NEW x \in DOMAIN rom PROVE x \in Nat /\ x < LoadAddr
    <3>1. CASE x \in 0 .. 63 \/ x \in 64 .. 70 \/ x \in 80 .. 86
      BY <3>1, Bounds
    <3>2. CASE Replayer /\ x \in (256 .. 259) \cup (336 .. 364)
      <4>1. LoadAddr >= 365
        BY <1>1, <1>9, <3>2
      <4> QED  BY <3>2, <4>1, Bounds
    <3> QED  BY <1>10, <3>1, <3>2
  <2> QED  BY <2>1, Bounds DEF HaltAtPc
<1>12. ASSUME NEW p \in RstPcs
       PROVE  p \in DOMAIN rom /\ rom[p] = \hC3 /\ Imm16(p) = LoadAddr + p
  <2>1. /\ p \in 0 .. 63 /\ p + 1 \in 0 .. 63 /\ p + 2 \in 0 .. 63
        /\ RstRom[p] = \hC3 /\ RstRom[p + 1] + 256 * RstRom[p + 2] = LoadAddr + p
    BY RstRomIs
  <2>2. \A x \in 0 .. 63 : x \in DOMAIN rom /\ rom[x] = RstRom[x]
    BY <1>5, <1>8
  <2> QED  BY <2>1, <2>2 DEF Imm16, Rom
<1>13. ASSUME NEW p \in HandlerPcs, p \in DOMAIN rom
       PROVE  rom[p] = \hD9 \/ (rom[p] = \hCD /\ Imm16(p) \in Code /\ p + 3 \in HandlerPcs)
  <2>1. CASE p \in {64, 67, 70}
    <3>1. p \in DOMAIN v
      <4>1. p \notin 0 .. 63 /\ p \notin 80 .. 86 /\ p \notin (256 .. 259) \cup (336 .. 364)
        BY <2>1
      <4>2. p \notin DOMAIN t
        BY <1>3, <4>1
      <4>3. p \in DOMAIN own
        BY <1>8, <1>13, <4>1
      <4> QED  BY <1>5, <4>1, <4>2, <4>3
    <3>2. \A x \in DOMAIN v : x \in DOMAIN rom /\ rom[x] = v[x]
      BY <1>5, <1>8
    <3>3. CASE v[p] = \hD9
      BY <3>1, <3>2, <3>3
    <3>4. CASE /\ v[p] = \hCD /\ {p + 1, p + 2, p + 3} \subseteq DOMAIN v
               /\ v[p + 1] + 256 * v[p + 2] \in Code
      <4>1. p + 1 \in DOMAIN v /\ p + 2 \in DOMAIN v /\ p + 3 \in DOMAIN v
        BY <3>4
      <4>2. p + 3 \in 64 .. 70
        BY <1>2, <4>1
      <4>3. p + 3 \in HandlerPcs
        BY <2>1, <4>2 DEF HandlerPcs
      <4> QED  BY <3>1, <3>2, <3>4, <4>1, <4>3 DEF Imm16, Rom
    <3> QED  BY <1>2, <2>1, <3>1, <3>3, <3>4
  <2>2. CASE p \in {80, 83, 86}
    <3>1. p \in DOMAIN t
      <4>1. p \notin 0 .. 63 /\ p \notin 64 .. 70 /\ p \notin (256 .. 259) \cup (336 .. 364)
        BY <2>2
      <4>2. p \notin DOMAIN v
        BY <1>2, <4>1
      <4>3. p \in DOMAIN own
        BY <1>8, <1>13, <4>1
      <4> QED  BY <1>5, <4>1, <4>2, <4>3
    <3>2. \A x \in DOMAIN t : x \in DOMAIN rom /\ rom[x] = t[x]
      BY <1>5, <1>8
    <3>3. CASE t[p] = \hD9
      BY <3>1, <3>2, <3>3
    <3>4. CASE /\ t[p] = \hCD /\ {p + 1, p + 2, p + 3} \subseteq DOMAIN t
               /\ t[p + 1] + 256 * t[p + 2] \in Code
      <4>1. p + 1 \in DOMAIN t /\ p + 2 \in DOMAIN t /\ p + 3 \in DOMAIN t
        BY <3>4
      <4>2. p + 3 \in 80 .. 86
        BY <1>3, <4>1
      <4>3. p + 3 \in HandlerPcs
        BY <2>2, <4>2 DEF HandlerPcs
      <4> QED  BY <3>1, <3>2, <3>4, <4>1, <4>3 DEF Imm16, Rom
    <3> QED  BY <1>3, <2>2, <3>1, <3>3, <3>4
  <2> QED  BY <2>1, <2>2 DEF HandlerPcs
<1>14. ASSUME Replayer
       PROVE  /\ ReplayerPcs \subseteq DOMAIN rom /\ ReplayerOp(rom)
              /\ Imm16(257) = 336 /\ Imm16(336) = Stack
              /\ Imm16(354) = InitAddr /\ Imm16(362) = 361
  <2> DEFINE at == (256 .. 259) \cup (336 .. 364)
  <2>1. \A x \in at : x \in DOMAIN rom /\ rom[x] = ReplayerRom[x]
    BY <1>8, <1>9, <1>14
  <2>2. ReplayerPcs \subseteq DOMAIN rom
    BY <2>1 DEF ReplayerPcs, EarlyPcs, LdSpPc, SetupPcs, LatePcs
  <2>3. ReplayerOp(rom)
    BY <2>1, ReplayerIs DEF ReplayerOp
  <2>4. ReplayerWord(rom)
    BY <2>1, ReplayerIs DEF ReplayerWord
  <2>5. /\ {257 + 1, 257 + 2, 336 + 1, 336 + 2} \subseteq DOMAIN rom
        /\ {354 + 1, 354 + 2, 362 + 1, 362 + 2} \subseteq DOMAIN rom
    BY <2>1
  <2> QED  BY <2>2, <2>3, <2>4, <2>5 DEF Imm16, Rom, ReplayerWord
<1> QED  BY <1>1, <1>9, <1>10, <1>11, <1>12, <1>13, <1>14 DEF RomKnown

-----------------------------------------------------------------------------
(***************************************************************************)
(* Instructions.                                                           *)
(***************************************************************************)
LEMMA PushIs ==
  ASSUME sp \in Nat, sp >= 2, sp <= 65535, NEW val, Push(val)
  PROVE  sp' = sp - 2 /\ ram' = Put2(ram, sp - 2, val)
<1>1. Word(sp - 2) = sp - 2 /\ Word(sp - 2 + 1) = sp - 2 + 1
  BY DEF Word
<1> QED  BY <1>1 DEF Push, Put2

LEMMA DropIs ==
  ASSUME sp \in Nat, sp + 2 <= 65535, Drop
  PROVE  sp' = sp + 2 /\ ram' = Without(ram, {sp, sp + 1})
<1>1. Word(sp + 2) = sp + 2 /\ Word(sp + 1) = sp + 1
  BY DEF Word
<1> QED  BY <1>1 DEF Drop

LEMMA TopHolds ==
  ASSUME sp \in Nat, sp + 2 <= 65535, NEW val \in Nat, Holds(ram, sp, val)
  PROVE  Top = val
<1>1. Word(sp + 1) = sp + 1
  BY DEF Word
<1>2. At(sp) = Low(val) /\ At(sp + 1) = High(val)
  BY DEF At, Holds
<1>3. Top = Low(val) + 256 * High(val)
  BY <1>1, <1>2 DEF Top
<1> QED  BY <1>3, WordIs

LEMMA AfterIs ==
  ASSUME pc \in Nat, pc <= 65532
  PROVE  After(1) = pc + 1 /\ After(2) = pc + 2 /\ After(3) = pc + 3
BY DEF After, Word

LEMMA DecodedReplayer ==
  ASSUME NEW op, NEW imm8, NEW imm16, NEW found, Execute(op, imm8, imm16, found)
  PROVE  /\ op = \hC3 => Jp(imm16)
         /\ op = \hCD => Call(imm16)
         /\ op = \hD9 => Reti
         /\ op = \h00 => Nop
         /\ op = \h76 => Halt
         /\ op = \h21 => LdHl(imm16)
         /\ op = \hF9 => LdSpHl
         /\ op = \h3E => LdA(imm8)
         /\ op = \hE0 => LdhPut(imm8)
         /\ op = \h26 => LdH(imm8)
         /\ op = \h36 => LdAtHl(imm8, 2)
<1>1. ControlFlow(op, imm8, imm16) \/ Loads(op, imm8, imm16, found)
  BY DEF Execute
<1> USE DEF ControlFlow, Loads, JrConds, RetConds, JpConds, CallConds, Rsts
<1>2. op = \hC3 => Jp(imm16)
  BY <1>1
<1>3. op = \hCD => Call(imm16)
  BY <1>1
<1>4. op = \hD9 => Reti
  BY <1>1
<1>5. op = \h00 => Nop
  BY <1>1
<1>6. op = \h76 => Halt
  BY <1>1
<1>7. op = \h21 => LdHl(imm16)
  BY <1>1
<1>8. op = \hF9 => LdSpHl
  BY <1>1
<1>9. op = \h3E => LdA(imm8)
  BY <1>1
<1>10. op = \hE0 => LdhPut(imm8)
  BY <1>1
<1>11. op = \h26 => LdH(imm8)
  BY <1>1
<1>12. op = \h36 => LdAtHl(imm8, 2)
  BY <1>1
<1> QED  BY <1>2, <1>3, <1>4, <1>5, <1>6, <1>7, <1>8, <1>9, <1>10, <1>11, <1>12

LEMMA DecodedFile ==
  ASSUME NEW op, NEW imm8, NEW imm16, NEW found, Execute(op, imm8, imm16, found)
  PROVE  /\ op = \h10 => Nop
         /\ op = \h18 => Jr(imm8)
         /\ op = \hC9 => Ret
         /\ op = \hE9 => JpHl
         /\ op = \hF3 => Di
         /\ op = \hFB => Ei
         /\ op = \hD5 => PushReg(de)
         /\ op = \hE5 => PushReg(hl)
         /\ op = \hD1 => PopDe
         /\ op = \hE1 => PopHl
         /\ op \in JrConds => JrCond(CondOf(op), imm8)
         /\ op \in RetConds => RetCond(CondOf(op))
         /\ op \in JpConds => JpCond(CondOf(op), imm16)
         /\ op \in CallConds => CallCond(CondOf(op), imm16)
         /\ op \in Rsts => Rst(op - 199)
<1>1. ControlFlow(op, imm8, imm16) \/ Loads(op, imm8, imm16, found)
  BY DEF Execute
<1> USE DEF ControlFlow, Loads, JrConds, RetConds, JpConds, CallConds, Rsts
<1>2. op = \h10 => Nop
  BY <1>1
<1>3. op = \h18 => Jr(imm8)
  BY <1>1
<1>4. op = \hC9 => Ret
  BY <1>1
<1>5. op = \hE9 => JpHl
  BY <1>1
<1>6. op = \hF3 => Di
  BY <1>1
<1>7. op = \hFB => Ei
  BY <1>1
<1>8. op = \hD5 => PushReg(de)
  BY <1>1
<1>9. op = \hE5 => PushReg(hl)
  BY <1>1
<1>10. op = \hD1 => PopDe
  BY <1>1
<1>11. op = \hE1 => PopHl
  BY <1>1
<1>12. op \in JrConds => JrCond(CondOf(op), imm8)
  BY <1>1
<1>13. op \in RetConds => RetCond(CondOf(op))
  BY <1>1
<1>14. op \in JpConds => JpCond(CondOf(op), imm16)
  BY <1>1
<1>15. op \in CallConds => CallCond(CondOf(op), imm16)
  BY <1>1
<1>16. op \in Rsts => Rst(op - 199)
  BY <1>1
<1> QED  BY <1>2, <1>3, <1>4, <1>5, <1>6, <1>7, <1>8, <1>9, <1>10, <1>11, <1>12, <1>13, <1>14,
            <1>15, <1>16

LEMMA GoesIs ==
  ASSUME NEW to, NEW on \in BOOLEAN, NEW stops, Goes(to, on, stops)
  PROVE  /\ pc' = to
         /\ to # HaltAtPc => ime' = on
         /\ to = HaltAtPc => ime' = TRUE /\ halted'
BY DEF Goes

\* What the file's code does to the stack and the routines.
FileMoves(op) ==
  /\ pc' \in Code \cup {0} /\ sp' = sp /\ ram' = ram /\ frames' = frames
  /\ ime' \in BOOLEAN
  /\ ime' => ime \/ (EnablesIrq(op) /\ Stack - sp < 2 * MaxWords)
FileEnters ==
  \E ret \in Code :
    /\ Stack - sp < 2 * MaxWords
    /\ Push(ret) /\ pc' \in Code \cup RstPcs /\ frames' = Called(ret, pc') /\ ime' = ime
FileLeaves(op) ==
  /\ Drop /\ pc' = Top /\ frames' = Front(frames) /\ Inner.pushed = 0
  /\ ime' \in BOOLEAN /\ (Top = HaltAtPc => ime' /\ halted')
  /\ ime' => ime \/ (EnablesIrq(op) /\ Stack - sp < 2 * MaxWords) \/ Top = HaltAtPc
FilePushes ==
  /\ Stack - sp < 2 * MaxWords
  /\ \E val : Push(val)
  /\ pc' \in Code /\ frames' = Pushed(frames, 1) /\ ime' = ime
FilePops ==
  /\ Drop /\ Inner.pushed > 0
  /\ pc' \in Code /\ frames' = [frames EXCEPT ![Len(frames)].pushed = @ - 1] /\ ime' = ime

Plain == {\h00, \h10, \h76, \hF3, \hFB}
LEMMA OpcodesAre ==
  /\ \A op \in Opcodes : op \in Plain \cup {\h18, \hC3, \hC9, \hCD, \hD9, \hE9, \hD5, \hE5, \hD1, \hE1}
                              \cup JrConds \cup RetConds \cup JpConds \cup CallConds \cup Rsts
  /\ \A op \in Rsts : op - 199 \in RstPcs
<1>1. \A op \in Opcodes : op \in Plain \cup {\h18, \hC3, \hC9, \hCD, \hD9, \hE9, \hD5, \hE5, \hD1, \hE1}
                              \cup JrConds \cup RetConds \cup JpConds \cup CallConds \cup Rsts
  BY DEF Opcodes, Plain
<1>2. \A op \in Rsts : op - 199 \in RstPcs
  BY DEF Rsts, RstPcs
<1> QED  BY <1>1, <1>2

\* How an instruction counts among the calls.
LEMMA Kinds ==
  ASSUME NEW op
  PROVE  /\ op \in Plain \cup {\h18, \hC3, \hE9} \cup JrConds \cup JpConds =>
              ~Calls(op) /\ ~Returns(op) /\ ~Pushes(op) /\ ~Pops(op)
         /\ op \in {\h21, \hF9, \h3E, \hE0, \h26, \h36} =>
              ~Calls(op) /\ ~Returns(op) /\ ~Pushes(op) /\ ~Pops(op)
         /\ op \in RetConds => /\ ~Calls(op) /\ ~Pushes(op) /\ ~Pops(op) /\ ~EnablesIrq(op)
                               /\ Returns(op) <=> Taken(CondOf(op), f)
         /\ op \in CallConds => /\ ~Returns(op) /\ ~Pushes(op) /\ ~Pops(op)
                                /\ Calls(op) <=> Taken(CondOf(op), f)
         /\ op \in {\hCD} \cup Rsts => Calls(op)
         /\ op \in {\hC9, \hD9} => ~Calls(op) /\ Returns(op)
         /\ op \in {\hD5, \hE5} => ~Calls(op) /\ ~Returns(op) /\ Pushes(op)
         /\ op \in {\hD1, \hE1} => ~Calls(op) /\ ~Returns(op) /\ ~Pushes(op) /\ Pops(op)
<1> USE DEF Calls, Returns, Pushes, Pops, EnablesIrq, Plain, JrConds, JpConds, RetConds, CallConds, Rsts
<1>1. op \in Plain \cup {\h18, \hC3, \hE9} \cup JrConds \cup JpConds =>
        ~Calls(op) /\ ~Returns(op) /\ ~Pushes(op) /\ ~Pops(op)
  OBVIOUS
<1>2. op \in {\h21, \hF9, \h3E, \hE0, \h26, \h36} =>
        ~Calls(op) /\ ~Returns(op) /\ ~Pushes(op) /\ ~Pops(op)
  OBVIOUS
<1>3. op \in RetConds => /\ ~Calls(op) /\ ~Pushes(op) /\ ~Pops(op) /\ ~EnablesIrq(op)
                         /\ Returns(op) <=> Taken(CondOf(op), f)
  OBVIOUS
<1>4. op \in CallConds => /\ ~Returns(op) /\ ~Pushes(op) /\ ~Pops(op)
                          /\ Calls(op) <=> Taken(CondOf(op), f)
  OBVIOUS
<1>5. op \in {\hCD} \cup Rsts => Calls(op)
  OBVIOUS
<1>6. op \in {\hC9, \hD9} => ~Calls(op) /\ Returns(op)
  OBVIOUS
<1>7. op \in {\hD5, \hE5} => ~Calls(op) /\ ~Returns(op) /\ Pushes(op)
  OBVIOUS
<1>8. op \in {\hD1, \hE1} => ~Calls(op) /\ ~Returns(op) /\ ~Pushes(op) /\ Pops(op)
  OBVIOUS
<1> QED  BY <1>1, <1>2, <1>3, <1>4, <1>5, <1>6, <1>7, <1>8

LEMMA Sizes ==
  ASSUME NEW op
  PROVE  /\ op \in {\hC3, \hCD} \cup JpConds \cup CallConds => Size(op) = 3
         /\ op \in {\h18} \cup JrConds => Size(op) = 2
         /\ op \in Plain \cup RetConds \cup Rsts \cup {\hC9, \hD9, \hE9, \hD5, \hE5, \hD1, \hE1} =>
              Size(op) = 1
<1> USE DEF Size, Plain, JrConds, JpConds, RetConds, CallConds, Rsts
<1>1. op \in {\hC3, \hCD} \cup JpConds \cup CallConds => Size(op) = 3
  OBVIOUS
<1>2. op \in {\h18} \cup JrConds => Size(op) = 2
  OBVIOUS
<1>3. op \in Plain \cup RetConds \cup Rsts \cup {\hC9, \hD9, \hE9, \hD5, \hE5, \hD1, \hE1} =>
        Size(op) = 1
  OBVIOUS
<1> QED  BY <1>1, <1>2, <1>3

LEMMA Tracked ==
  ASSUME NEW op, Track(op)
  PROVE  /\ ~Calls(op) /\ ~Returns(op) /\ ~Pushes(op) /\ ~Pops(op) => frames' = frames
         /\ Calls(op) => frames' = Called(After(Size(op)), pc')
         /\ ~Calls(op) /\ Returns(op) => frames' = Front(frames)
         /\ ~Calls(op) /\ ~Returns(op) /\ Pushes(op) => frames' = Pushed(frames, 1)
         /\ ~Calls(op) /\ ~Returns(op) /\ ~Pushes(op) /\ Pops(op) =>
              frames' = [frames EXCEPT ![Len(frames)].pushed = @ - 1]
BY DEF Track, Pushed

LEMMA FileStep ==
  ASSUME pc \in Code, ime \in BOOLEAN, NEW op \in Opcodes, NEW to \in Code, InOrder(op, to),
         Execute(op, Low(to - After(2)), to, 0), Track(op)
  PROVE  FileMoves(op) \/ FileEnters \/ FileLeaves(op) \/ FilePushes \/ FilePops
<1> DEFINE ofs == Low(to - After(2))
<1>0. \A c \in Code : c # HaltAtPc
  BY PointsApart
<1>1. /\ pc \in Nat /\ pc <= 32767 /\ to \in Nat /\ to <= 32767
      /\ After(1) = pc + 1 /\ After(2) = pc + 2 /\ After(3) = pc + 3
      /\ \A c \in Code \cup {0} : c # HaltAtPc
  <2>1. pc \in Nat /\ pc <= 32767 /\ to \in Nat /\ to <= 32767
    BY Bounds
  <2>2. pc <= 65532
    BY <2>1
  <2> QED  BY <2>1, <2>2, AfterIs, Bounds DEF HaltAtPc
<1>2. /\ Calls(op) \/ Pushes(op) \/ EnablesIrq(op) => Stack - sp < 2 * MaxWords
      /\ Returns(op) => Inner.pushed = 0
      /\ Pops(op) => Inner.pushed > 0
      /\ op \in {\h18} \cup JrConds => to - After(2) \in -128 .. 127
      /\ op = \hE9 => hl \in Code \cup {0}
      /\ op \in {\hC3, \hE9, \h18} \/ Returns(op) \/ After(Size(op)) \in Code
  BY DEF InOrder
<1>3. op \in {\h18} \cup JrConds => Word(After(2) + Signed(ofs)) = to
  <2>1. ASSUME to - (pc + 2) \in -128 .. 127 PROVE Word(pc + 2 + Signed(Low(to - (pc + 2)))) = to
    <3> DEFINE d == to - (pc + 2)
    <3>1. d \in Int /\ -128 <= d /\ d <= 127 /\ pc + 2 + d = to
      BY <1>1, <2>1
    <3> HIDE DEF d
    <3>2. Signed(Low(d)) = d
      BY <3>1 DEF Signed, Low
    <3>3. Word(to) = to
      BY <1>1 DEF Word
    <3> QED  BY <3>1, <3>2, <3>3 DEF d
  <2> QED  BY <1>1, <1>2, <2>1
<1> HIDE DEF ofs
<1>4. ASSUME pc' \in Code \cup {0}, KeepStack, frames' = frames,
             NEW on \in BOOLEAN, NEW stops, NEW where, Goes(where, on, stops),
             on => ime \/ EnablesIrq(op)
      PROVE  FileMoves(op)
  <2>1. ime' = on
    BY <1>1, <1>4, GoesIs DEF Goes
  <2> QED  BY <1>2, <1>4, <2>1 DEF FileMoves, KeepStack
<1>5. CASE op \in Plain
  <2>1. frames' = frames /\ After(1) \in Code
    <3>1. Size(op) = 1 /\ ~Returns(op) /\ op \notin {\hC3, \hE9, \h18}
      BY <1>5, Sizes, Kinds DEF Plain
    <3> QED  BY <1>2, <1>5, <3>1, Kinds, Tracked
  <2>2. /\ op \in {\h00, \h10} => Nop
        /\ op = \h76 => Halt
        /\ op = \hF3 => Di
        /\ op = \hFB => Ei
    BY DecodedReplayer, DecodedFile
  <2>3. CASE op \in {\h00, \h10, \h76}
    <3>1. Nop \/ Halt
      BY <2>2, <2>3
    <3>2. KeepStack /\ \E stops : Goes(After(1), ime, stops)
      BY <3>1 DEF Nop, Halt, Untaken, Passes
    <3> QED  BY <1>4, <2>1, <3>2 DEF Goes
  <2>4. CASE op = \hF3
    <3>1. KeepStack /\ Goes(After(1), FALSE, FALSE)
      BY <2>2, <2>4 DEF Di
    <3> QED  BY <1>4, <2>1, <3>1 DEF Goes
  <2>5. CASE op = \hFB
    <3>1. KeepStack /\ Goes(After(1), TRUE, FALSE) /\ EnablesIrq(op)
      BY <2>2, <2>5 DEF Ei, EnablesIrq
    <3> QED  BY <1>4, <2>1, <3>1 DEF Goes
  <2> QED  BY <1>5, <2>3, <2>4, <2>5 DEF Plain
<1>6. CASE op \in {\h18, \hC3, \hE9}
  <2>1. frames' = frames
    BY <1>6, Kinds, Tracked
  <2>2. CASE op = \h18
    <3>1. KeepStack /\ \E stops : Goes(to, ime, stops)
      <4>1. Jr(ofs)
        BY <2>2, DecodedFile DEF ofs
      <4> QED  BY <1>3, <2>2, <4>1 DEF Jr
    <3> QED  BY <1>4, <2>1, <3>1 DEF Goes
  <2>3. CASE op = \hC3
    <3>1. KeepStack /\ Goes(to, ime, FALSE)
      BY <2>3, DecodedReplayer DEF Jp, Jump
    <3> QED  BY <1>4, <2>1, <3>1 DEF Goes
  <2>4. CASE op = \hE9
    <3>1. KeepStack /\ Goes(hl, ime, FALSE) /\ hl \in Code \cup {0}
      <4>1. JpHl
        BY <2>4, DecodedFile
      <4> QED  BY <1>2, <2>4, <4>1 DEF JpHl, Jump
    <3> QED  BY <1>4, <2>1, <3>1 DEF Goes
  <2> QED  BY <1>6, <2>2, <2>3, <2>4
<1>7. CASE op \in JrConds \cup JpConds
  <2>1. frames' = frames
    BY <1>7, Kinds, Tracked
  <2>2. op \notin {\hC3, \hE9, \h18} /\ ~Returns(op)
    BY <1>7, Kinds DEF JrConds, JpConds
  <2>3. After(Size(op)) \in Code
    BY <1>2, <2>2
  <2>4. CASE op \in JrConds
    <3>1. JrCond(CondOf(op), ofs) /\ Size(op) = 2
      BY <2>4, DecodedFile, Sizes DEF ofs
    <3>2. KeepStack /\ (Goes(to, ime, FALSE) \/ Goes(After(2), ime, FALSE))
      BY <1>3, <2>4, <3>1 DEF JrCond, Jump, Untaken, Passes
    <3> QED  BY <1>4, <2>1, <2>3, <3>1, <3>2 DEF Goes
  <2>5. CASE op \in JpConds
    <3>1. JpCond(CondOf(op), to) /\ Size(op) = 3
      BY <2>5, DecodedFile, Sizes
    <3>2. KeepStack /\ (Goes(to, ime, FALSE) \/ Goes(After(3), ime, FALSE))
      BY <3>1 DEF JpCond, Jump, Untaken, Passes
    <3> QED  BY <1>4, <2>1, <2>3, <3>1, <3>2 DEF Goes
  <2> QED  BY <1>7, <2>4, <2>5
<1>8. CASE op \in RetConds /\ ~Taken(CondOf(op), f)
  <2>1. frames' = frames /\ ~Returns(op) /\ Size(op) = 1 /\ op \notin {\hC3, \hE9, \h18}
    BY <1>8, Kinds, Sizes, Tracked DEF RetConds
  <2>2. RetCond(CondOf(op)) /\ After(1) \in Code
    BY <1>2, <1>8, <2>1, DecodedFile
  <2>3. KeepStack /\ Goes(After(1), ime, FALSE)
    BY <1>8, <2>2 DEF RetCond, Untaken, Passes
  <2> QED  BY <1>4, <2>1, <2>2, <2>3 DEF Goes
<1>9. CASE op \in CallConds /\ ~Taken(CondOf(op), f)
  <2>1. frames' = frames /\ ~Returns(op) /\ Size(op) = 3 /\ op \notin {\hC3, \hE9, \h18}
    BY <1>9, Kinds, Sizes, Tracked DEF CallConds
  <2>2. CallCond(CondOf(op), to) /\ After(3) \in Code
    BY <1>2, <1>9, <2>1, DecodedFile
  <2>3. KeepStack /\ Goes(After(3), ime, FALSE)
    BY <1>9, <2>2 DEF CallCond, Untaken, Passes
  <2> QED  BY <1>4, <2>1, <2>2, <2>3 DEF Goes
<1>10. CASE op = \hCD \/ (op \in CallConds /\ Taken(CondOf(op), f))
  <2>1. /\ Calls(op) /\ ~Returns(op) /\ Size(op) = 3 /\ op \notin {\hC3, \hE9, \h18}
    BY <1>10, Kinds, Sizes DEF CallConds, Returns, RetConds
  <2>2. frames' = Called(After(3), pc') /\ After(3) \in Code
    BY <1>2, <2>1, Tracked
  <2>3. Call(to)
    <3>1. CASE op = \hCD
      BY <3>1, DecodedReplayer
    <3>2. CASE op \in CallConds /\ Taken(CondOf(op), f)
      <4>1. CallCond(CondOf(op), to)
        BY <3>2, DecodedFile
      <4> QED  BY <3>2, <4>1 DEF CallCond
    <3> QED  BY <1>10, <3>1, <3>2
  <2>4. Push(After(3)) /\ pc' = to /\ ime' = ime
    <3>1. Push(After(3)) /\ Goes(to, ime, FALSE)
      BY <2>3 DEF Call
    <3>2. to # HaltAtPc
      BY <1>0
    <3> QED  BY <3>1, <3>2, GoesIs
  <2> QED  BY <1>2, <2>1, <2>2, <2>4 DEF FileEnters
<1>11. CASE op \in Rsts
  <2>1. Calls(op) /\ ~Returns(op) /\ Size(op) = 1 /\ op \notin {\hC3, \hE9, \h18}
    BY <1>11, Kinds, Sizes DEF Rsts, Returns, RetConds
  <2>2. frames' = Called(After(1), pc') /\ After(1) \in Code
    BY <1>2, <2>1, Tracked
  <2>3. op - 199 \in RstPcs /\ op - 199 # HaltAtPc
    BY <1>11, OpcodesAre, PointsApart
  <2>4. Push(After(1)) /\ pc' = op - 199 /\ ime' = ime
    <3>1. Rst(op - 199)
      BY <1>11, DecodedFile
    <3>2. Push(After(1)) /\ Goes(op - 199, ime, FALSE)
      BY <3>1 DEF Rst
    <3> QED  BY <2>3, <3>2, GoesIs
  <2> QED  BY <1>2, <2>1, <2>2, <2>3, <2>4 DEF FileEnters
<1>12. CASE op \in {\hC9, \hD9} \/ (op \in RetConds /\ Taken(CondOf(op), f))
  <2>1. frames' = Front(frames) /\ Inner.pushed = 0
    BY <1>2, <1>12, Kinds, Tracked
  <2>2. \E on \in BOOLEAN : \E time : Return(on, time) /\ (on => ime \/ EnablesIrq(op))
    <3>1. CASE op = \hC9
      BY <3>1, DecodedFile DEF Ret
    <3>2. CASE op = \hD9
      <4>1. Reti /\ EnablesIrq(op)
        BY <3>2, DecodedReplayer DEF EnablesIrq
      <4> QED  BY <4>1 DEF Reti
    <3>3. CASE op \in RetConds /\ Taken(CondOf(op), f)
      <4>1. RetCond(CondOf(op))
        BY <3>3, DecodedFile
      <4> QED  BY <3>3, <4>1 DEF RetCond
    <3> QED  BY <1>12, <3>1, <3>2, <3>3
  <2>3. PICK on \in BOOLEAN : \E time : Return(on, time) /\ (on => ime \/ EnablesIrq(op))
    BY <2>2
  <2>4. Drop /\ Goes(Top, on, FALSE)
    BY <2>3 DEF Return
  <2>5. /\ pc' = Top /\ ime' \in BOOLEAN
        /\ Top # HaltAtPc => ime' = on
        /\ Top = HaltAtPc => ime' /\ halted'
    BY <2>4, GoesIs
  <2> QED  BY <1>2, <2>1, <2>3, <2>4, <2>5 DEF FileLeaves
<1>13. CASE op \in {\hD5, \hE5}
  <2>1. /\ frames' = Pushed(frames, 1) /\ Pushes(op) /\ ~Returns(op) /\ Size(op) = 1
    BY <1>13, Kinds, Sizes, Tracked
  <2>2. After(1) \in Code
    BY <1>2, <1>13, <2>1
  <2>3. PushReg(de) \/ PushReg(hl)
    BY <1>13, DecodedFile
  <2>4. (\E val : Push(val)) /\ Goes(After(1), ime, FALSE)
    BY <2>3 DEF PushReg, Passes
  <2>5. pc' \in Code /\ ime' = ime
    <3>1. After(1) # HaltAtPc
      BY <1>0, <2>2
    <3> QED  BY <2>2, <2>4, <3>1, GoesIs
  <2> QED  BY <1>2, <2>1, <2>4, <2>5 DEF FilePushes
<1>14. CASE op \in {\hD1, \hE1}
  <2>1. /\ frames' = [frames EXCEPT ![Len(frames)].pushed = @ - 1]
        /\ Pops(op) /\ ~Returns(op) /\ Size(op) = 1
    BY <1>14, Kinds, Sizes, Tracked
  <2>2. After(1) \in Code
    BY <1>2, <1>14, <2>1
  <2>3. PopDe \/ PopHl
    BY <1>14, DecodedFile
  <2>4. Drop /\ Goes(After(1), ime, FALSE)
    BY <2>3 DEF PopDe, PopHl, Passes
  <2>5. pc' \in Code /\ ime' = ime
    <3>1. After(1) # HaltAtPc
      BY <1>0, <2>2
    <3> QED  BY <2>2, <2>4, <3>1, GoesIs
  <2> QED  BY <1>2, <2>1, <2>4, <2>5 DEF FilePops
<1>15. op \in Plain \cup {\h18, \hC3, \hC9, \hCD, \hD9, \hE9, \hD5, \hE5, \hD1, \hE1}
             \cup JrConds \cup RetConds \cup JpConds \cup CallConds \cup Rsts
  BY OpcodesAre
<1> QED  BY <1>5, <1>6, <1>7, <1>8, <1>9, <1>10, <1>11, <1>12, <1>13, <1>14, <1>15

-----------------------------------------------------------------------------
(***************************************************************************)
(* Every step keeps the invariant.                                         *)
(***************************************************************************)
LEMMA NewInv ==
  ASSUME rom' = rom, InOrderInv(frames', pc', sp', ram', ime', willing'),
         \E h \in Handlers : rom = RomOf(h),
         ime' \in BOOLEAN, willing' \in BOOLEAN,
         pc' = HaltAtPc => halted', Replayer /\ pc' = LdSpPc => hl' = Stack
  PROVE  RoutinesInv'
<1>1. Replayer' <=> Replayer
  BY DEF Replayer
<1>2. First' = First
  BY <1>1 DEF First
<1> QED  BY <1>1, <1>2 DEF RoutinesInv, InOrderInv, Entered, Inside, InTurn, Stands

LEMMA StandsInFile ==
  ASSUME RomKnown, NEW i, NEW routine, NEW q \in FilePoints \cup RstPcs, Replayer => i # 1
  PROVE  /\ Stands(i, routine, q) /\ q \notin HandlerPcs /\ q # HaltAtPc
         /\ Replayer => q # LdSpPc
<1>1. q \notin HandlerPcs /\ q # HaltAtPc
  BY PointsApart
<1>2. ASSUME Replayer PROVE q \notin ReplayerPcs
  <2>1. CASE q \in RstPcs
    BY <2>1 DEF RstPcs, ReplayerPcs, EarlyPcs, LdSpPc, SetupPcs, LatePcs
  <2>2. CASE q \in FilePoints
    <3>1. q >= 365
      BY <1>2, <2>2, Bounds DEF RomKnown, FilePoints
    <3> QED  BY <3>1 DEF ReplayerPcs, EarlyPcs, LdSpPc, SetupPcs, LatePcs
  <2> QED  BY <2>1, <2>2
<1>3. Stands(i, routine, q)
  BY <1>1, <1>2 DEF Stands
<1>4. Replayer => q # LdSpPc
  BY <1>2 DEF ReplayerPcs, EarlyPcs, LdSpPc
<1> QED  BY <1>1, <1>3, <1>4

\* What holds wherever the CPU is.
LEMMA InvFacts ==
  ASSUME RoutinesInv
  PROVE  /\ RomKnown /\ InOrderInv(frames, pc, sp, ram, ime, willing)
         /\ frames \in Seq(Routine) /\ Len(frames) \in Nat
         /\ sp \in Nat /\ sp <= Stack /\ sp >= 2 /\ sp <= 65535
         /\ Stack - sp < Room(pc) /\ (ime => Stack - sp < IrqRoom(pc))
         /\ ime \in BOOLEAN /\ willing \in BOOLEAN
         /\ IF frames = <<>> THEN pc = HaltAtPc ELSE Stands(Len(frames), Inner, pc)
         /\ Replayer => frames # <<>>
         /\ pc # HaltAtPc => frames # <<>>
<1>1. RomKnown
  BY RomIsKnown DEF RoutinesInv
<1>2. Entered(frames) /\ Inside(frames, pc, sp, ime) /\ ime \in BOOLEAN /\ willing \in BOOLEAN
      /\ InOrderInv(frames, pc, sp, ram, ime, willing)
  BY DEF RoutinesInv, InOrderInv
<1>3. frames \in Seq(Routine) /\ Len(frames) \in Nat /\ (Replayer => frames # <<>>)
  BY <1>2 DEF Entered
<1>4. sp \in Nat /\ sp <= Stack /\ Stack - sp < Room(pc) /\ (ime => Stack - sp < IrqRoom(pc))
      /\ IF frames = <<>> THEN pc = HaltAtPc ELSE Stands(Len(frames), Inner, pc)
  BY <1>2 DEF Inside, Inner
<1>5. sp >= 2 /\ sp <= 65535
  <2>1. Stack - sp < 2 * MaxWords + 6
    BY <1>4, Bounds DEF Room
  <2> QED  BY <1>4, <2>1, Bounds
<1> QED  BY <1>1, <1>2, <1>3, <1>4, <1>5

\* What the CPU finds on the stack when a routine returns.
LEMMA TopIs ==
  ASSUME RoutinesInv, frames # <<>>, Inner.pushed = 0, Replayer => Len(frames) # 1
  PROVE  /\ Inner.ret \in Nat /\ Inner.sp = sp + 2 /\ Top = Inner.ret
         /\ Drop => sp' = sp + 2 /\ ram' = Without(ram, {sp, sp + 1})
         /\ Replayer => Inner.ret # LdSpPc
<1> DEFINE n == Len(frames)
<1>1. /\ InOrderInv(frames, pc, sp, ram, ime, willing)
      /\ frames \in Seq(Routine) /\ sp \in Nat
  BY InvFacts
<1>2. Entered(frames) /\ Stacked(First, frames, sp, ram)
  BY <1>1 DEF InOrderInv
<1>3. n \in Nat /\ n # 0 /\ n \in 1 .. n
  BY <1>1
<1>4. Inner = frames[n] /\ (Replayer => n # 1)
  BY DEF Inner
<1> HIDE DEF n
<1>5. First \in {1, 2} /\ First <= n
  <2>1. CASE Replayer
    <3>1. First = 2 /\ n >= 2
      BY <1>3, <1>4, <2>1 DEF First
    <3> QED  BY <3>1
  <2>2. CASE ~Replayer
    <3>1. First = 1
      BY <2>2 DEF First
    <3> QED  BY <1>3, <3>1
  <2> QED  BY <2>1, <2>2
<1>6. Holds(ram, sp, Inner.ret) /\ Inner.sp = sp + 2
  BY <1>1, <1>2, <1>4, <1>5, LeaveStacked, ZenonT(40) DEF n
<1>7. Inner.ret \in Nat /\ Inner.sp <= Stack
  BY <1>1, <1>2, <1>3, <1>4, Fields DEF Entered, n
<1>8. sp + 2 <= 65535
  BY <1>1, <1>6, <1>7, Bounds
<1>9. /\ Top = Inner.ret
      /\ Drop => sp' = sp + 2 /\ ram' = Without(ram, {sp, sp + 1})
  <2>1. Top = Inner.ret
    BY <1>1, <1>6, <1>7, <1>8, TopHolds
  <2>2. Drop => sp' = sp + 2 /\ ram' = Without(ram, {sp, sp + 1})
    BY <1>1, <1>8, DropIs
  <2> QED  BY <2>1, <2>2
<1>10. ASSUME Replayer PROVE Inner.ret # LdSpPc
  <2>1. n # 1 => Stands(n - 1, frames[n - 1], Inner.ret)
    BY <1>2, <1>3, <1>4, ZenonT(40) DEF Entered, n
  <2>2. n = 2 => Inner.ret \in LatePcs
    BY <1>2, <1>4, <1>10 DEF Entered, n
  <2>3. ASSUME Inner.ret = LdSpPc PROVE n - 1 = 1
    BY <1>4, <1>10, <2>1, <2>3 DEF Stands, ReplayerPcs, EarlyPcs, LdSpPc
  <2>4. n - 1 = 1 => n = 2
    BY <1>3
  <2> QED  BY <2>2, <2>3, <2>4 DEF LatePcs, LdSpPc
<1> QED  BY <1>6, <1>7, <1>9, <1>10

\* A return of any routine but the replayer.
LEMMA LeaveStep ==
  ASSUME RoutinesInv, frames # <<>>, Inner.pushed = 0, Replayer => Len(frames) # 1,
         Drop, pc' = Top, frames' = Front(frames), rom' = rom,
         ime' \in BOOLEAN, willing' \in BOOLEAN,
         Top = HaltAtPc => ime' /\ halted' /\ ~willing',
         ime' => \/ ime \/ Stack - sp < 2 * MaxWords
                 \/ Inner.to \in {64, 80} \/ Top = HaltAtPc,
         Top # HaltAtPc /\ ~willing' => ~ime' /\ ~willing
  PROVE  RoutinesInv' /\ pc' = Inner.ret /\ sp' = Inner.sp
<1> DEFINE r == frames[Len(frames)].ret
           m == Without(ram, {sp, sp + 1})
<1>1. InOrderInv(frames, pc, sp, ram, ime, willing)
  BY InvFacts
<1>2. /\ Top = r /\ Inner.sp = sp + 2 /\ Inner.ret = r
      /\ sp' = sp + 2 /\ ram' = m
      /\ Replayer => r # LdSpPc
  BY TopIs DEF Inner
<1>3. /\ frames[Len(frames)].pushed = 0
      /\ ime' => \/ ime \/ Stack - sp < 2 * MaxWords
                 \/ frames[Len(frames)].to \in {64, 80} \/ r = HaltAtPc
      /\ IF r = HaltAtPc THEN ime' /\ ~willing' ELSE ~willing' => ~ime' /\ ~willing
  BY <1>2 DEF Inner
<1>4. InOrderInv(Front(frames), r, sp + 2, m, ime', willing')
  BY <1>1, <1>3, LeaveKeepsInv
<1> HIDE DEF r, m
<1>5. RoutinesInv'
  BY <1>2, <1>4, NewInv DEF RoutinesInv
<1> QED  BY <1>2, <1>5

\* A call, in the file's code, in a handler or in the replayer, or an interrupt.
LEMMA EnterStep ==
  ASSUME RoutinesInv, NEW ret \in Nat, Push(ret), frames' = Called(ret, pc'), rom' = rom,
         ime' \in BOOLEAN, willing' \in BOOLEAN, pc' \in Nat,
         Stands(Len(frames) + 1, frames'[Len(frames) + 1], pc'),
         pc' \in {64, 80} => Stack - sp < IrqRoom(ret),
         ret \in RstPcs => pc' \in {64, 80},
         IF frames = <<>> THEN ret = HaltAtPc ELSE Stands(Len(frames), Inner, ret),
         Replayer /\ Len(frames) = 1 => sp = Stack /\ ret \in LatePcs,
         Stack - sp + 2 < Room(pc'), ime' => Stack - sp + 2 < IrqRoom(pc'),
         ~willing' => ~ime' /\ ~willing /\ (pc' \in {64, 80} => frames = <<>>)
  PROVE  RoutinesInv' /\ Len(frames') > Len(frames)
<1> DEFINE e == [ret |-> ret, to |-> pc', sp |-> sp, pushed |-> 0]
<1>1. /\ InOrderInv(frames, pc, sp, ram, ime, willing)
      /\ frames \in Seq(Routine) /\ Len(frames) \in Nat
      /\ sp \in Nat /\ sp >= 2 /\ sp <= 65535
  BY InvFacts
<1>2. e \in Routine /\ e.ret = ret /\ e.to = pc' /\ e.sp = sp /\ e.pushed = 0
  BY <1>1 DEF Routine
<1>3. frames' = Append(frames, e)
  BY DEF Called
<1> HIDE DEF e
<1>4. frames'[Len(frames) + 1] = e /\ Len(frames') = Len(frames) + 1
  BY <1>1, <1>2, <1>3
<1>5. sp' = sp - 2 /\ ram' = Put2(ram, sp - 2, ret)
  BY <1>1, PushIs
<1>6. InOrderInv(Append(frames, e), pc', sp - 2, Put2(ram, sp - 2, e.ret), ime', willing')
  <2>1. Stands(Len(frames) + 1, e, pc')
    BY <1>4
  <2>2. IF frames = <<>> THEN e.ret = HaltAtPc ELSE Stands(Len(frames), frames[Len(frames)], e.ret)
    BY <1>2 DEF Inner
  <2> QED  BY <1>1, <1>2, <2>1, <2>2, EnterKeepsInv
<1>7. pc' # HaltAtPc
  BY PointsApart DEF Stands
<1>8. Replayer => pc' # LdSpPc
  <2>1. ASSUME Replayer, pc' = LdSpPc PROVE FALSE
    <3>1. Len(frames) + 1 = 1
      BY <2>1 DEF Stands, ReplayerPcs, EarlyPcs, LdSpPc
    <3>2. frames # <<>>
      BY <2>1, InvFacts
    <3> QED  BY <1>1, <3>1, <3>2
  <2> QED  BY <2>1
<1>9. RoutinesInv'
  BY <1>2, <1>3, <1>5, <1>6, <1>7, <1>8, NewInv DEF RoutinesInv
<1> QED  BY <1>1, <1>4, <1>9

\* Where the file's code runs.
LEMMA InCode ==
  ASSUME RoutinesInv, pc \in Code
  PROVE  /\ pc # HaltAtPc /\ pc \notin HandlerPcs
         /\ frames # <<>> /\ (Replayer => Len(frames) # 1)
         /\ First \in {1, 2} /\ First <= Len(frames)
         /\ ~willing => ~ime
<1>1. /\ RomKnown /\ InOrderInv(frames, pc, sp, ram, ime, willing)
      /\ Len(frames) \in Nat /\ frames \in Seq(Routine)
      /\ pc # HaltAtPc => frames # <<>>
      /\ IF frames = <<>> THEN pc = HaltAtPc ELSE Stands(Len(frames), Inner, pc)
  BY InvFacts
<1>2. pc \in FilePoints /\ pc # HaltAtPc /\ pc \notin HandlerPcs
  BY PointsApart
<1>3. ASSUME Replayer PROVE pc \notin ReplayerPcs
  <2>1. pc >= 365
    BY <1>1, <1>3, Bounds DEF RomKnown
  <2> QED  BY <2>1 DEF ReplayerPcs, EarlyPcs, LdSpPc, SetupPcs, LatePcs
<1>4. frames # <<>> /\ (Replayer => Len(frames) # 1)
  BY <1>1, <1>2, <1>3 DEF Stands
<1>5. First \in {1, 2} /\ First <= Len(frames)
  <2>1. Len(frames) # 0
    BY <1>1, <1>4
  <2>2. CASE Replayer
    <3>1. \A k \in Nat : k # 0 /\ k # 1 => 2 <= k
      OBVIOUS
    <3>2. 2 <= Len(frames)
      BY <1>1, <1>4, <2>1, <2>2, <3>1, Zenon
    <3>3. First = 2
      BY <2>2 DEF First
    <3> QED  BY <3>2, <3>3
  <2>3. CASE ~Replayer
    <3>1. First = 1 /\ Len(frames) >= 1
      BY <1>1, <2>1, <2>3 DEF First
    <3> QED  BY <3>1
  <2> QED  BY <2>2, <2>3
<1>6. ~willing => ~ime
  BY <1>1, <1>2 DEF InOrderInv, InTurn
<1> QED  BY <1>2, <1>4, <1>5, <1>6

\* The file's code keeps the stack in order when it pushes a word or pops one.
LEMMA FilePushKeepsInv ==
  ASSUME RoutinesInv, pc \in Code, FilePushes \/ FilePops, rom' = rom,
         willing' \in BOOLEAN, willing => willing'
  PROVE  RoutinesInv' /\ Len(frames') = Len(frames)
<1>1. /\ RomKnown /\ InOrderInv(frames, pc, sp, ram, ime, willing)
      /\ frames \in Seq(Routine) /\ Len(frames) \in Nat
      /\ sp \in Nat /\ sp <= Stack /\ sp >= 2 /\ sp <= 65535
      /\ Stack - sp < Room(pc) /\ (ime => Stack - sp < IrqRoom(pc))
      /\ ime \in BOOLEAN /\ willing \in BOOLEAN
  BY InvFacts
<1>2. /\ frames # <<>> /\ (Replayer => Len(frames) # 1) /\ pc \notin HandlerPcs
      /\ First \in {1, 2} /\ First <= Len(frames)
  BY InCode
<1>3. Stacked(First, frames, sp, ram) /\ Entered(frames)
  BY <1>1 DEF InOrderInv
<1>4. pc' \in FilePoints /\ ime' = ime
  BY PointsApart DEF FilePushes, FilePops
<1>5. /\ Stands(Len(frames), frames[Len(frames)], pc') /\ pc' \notin HandlerPcs
      /\ pc' # HaltAtPc /\ (Replayer => pc' # LdSpPc)
  <2>1. pc' \in FilePoints \cup RstPcs
    BY <1>4
  <2>2. RomKnown /\ (Replayer => Len(frames) # 1)
    BY <1>1, <1>2
  <2>3. \A q \in FilePoints \cup RstPcs :
          /\ Stands(Len(frames), frames[Len(frames)], q) /\ q \notin HandlerPcs
          /\ q # HaltAtPc /\ (Replayer => q # LdSpPc)
    BY <2>2, StandsInFile, Zenon
  <2> QED  BY <2>1, <2>3, Zenon
<1>6. Stack - sp < 2 * MaxWords + IF ime THEN 2 ELSE 6
  BY <1>1, <1>2 DEF Room, IrqRoom
<1>7. ASSUME NEW k \in {1, -1}, k = -1 => frames[Len(frames)].pushed > 0,
             frames' = Pushed(frames, k), sp' \in Nat, sp' <= Stack,
             Stack - sp' < 2 * MaxWords + IF ime THEN 2 ELSE 6,
             Stacked(First, Pushed(frames, k), sp', ram')
      PROVE  RoutinesInv' /\ Len(frames') = Len(frames)
  <2>0. InOrderInv(Pushed(frames, k), pc', sp', ram', ime, willing)
    <3>1. /\ InOrderInv(frames, pc, sp, ram, ime, willing)
          /\ frames # <<>> /\ (Replayer => Len(frames) # 1)
          /\ Stands(Len(frames), frames[Len(frames)], pc') /\ pc' \notin HandlerPcs
      BY <1>1, <1>2, <1>5
    <3> QED  BY <1>6, <1>7, <3>1, PushedKeepsInv, Zenon
  <2>1. InOrderInv(Pushed(frames, k), pc', sp', ram', ime, willing')
    <3>1. InTurn(Pushed(frames, k), pc', ime, willing')
      BY <1>5, <2>0 DEF InOrderInv, InTurn
    <3> QED  BY <2>0, <3>1 DEF InOrderInv
  <2>2. RoutinesInv'
    <3>1. InOrderInv(frames', pc', sp', ram', ime', willing')
      BY <1>4, <1>7, <2>1
    <3> QED  BY <1>1, <1>4, <1>5, <3>1, NewInv DEF RoutinesInv
  <2>3. Len(frames') = Len(frames)
    BY <1>1, <1>2, <1>7, PushedIs
  <2> QED  BY <2>2, <2>3
<1>8. CASE FilePushes
  <2>1. PICK val : Push(val)
    BY <1>8 DEF FilePushes
  <2>2. sp' = sp - 2 /\ ram' = Put2(ram, sp - 2, val)
    BY <1>1, <2>1, PushIs
  <2>3. frames' = Pushed(frames, 1) /\ Stack - sp < 2 * MaxWords
    BY <1>8 DEF FilePushes
  <2>4. Stacked(First, Pushed(frames, 1), sp', ram')
    BY <1>1, <1>2, <1>3, <2>2, PushStacked
  <2>5. /\ sp' \in Nat /\ sp' <= Stack
        /\ Stack - sp' < 2 * MaxWords + IF ime THEN 2 ELSE 6
    BY <1>1, <2>2, <2>3, Bounds
  <2> QED  BY <1>7, <2>3, <2>4, <2>5
<1>9. CASE FilePops
  <2>1. /\ Drop /\ frames[Len(frames)].pushed > 0
        /\ frames' = [frames EXCEPT ![Len(frames)].pushed = @ - 1]
    BY <1>9 DEF FilePops, Inner
  <2>2. /\ sp + 4 <= frames[Len(frames)].sp
        /\ Stacked(First, Pushed(frames, -1), sp + 2, Without(ram, {sp, sp + 1}))
    <3>1. frames \in Seq(Routine) /\ sp \in Nat /\ Stacked(First, frames, sp, ram)
      BY <1>1, <1>3
    <3> QED  BY <1>2, <2>1, <3>1, PopStacked, Zenon
  <2>3. Len(frames) \in 1 .. Len(frames)
    BY <1>1, <1>2
  <2>4. frames[Len(frames)].sp <= Stack
    BY <1>3, <2>3 DEF Entered
  <2>5. sp + 2 <= Stack
    <3>1. frames[Len(frames)].sp \in Nat
      BY <1>1, <2>3, Fields
    <3> QED  BY <1>1, <2>2, <2>4, <3>1, Bounds, SMTT(30)
  <2>6. sp' = sp + 2 /\ ram' = Without(ram, {sp, sp + 1})
    <3>1. sp + 2 <= 65535
      BY <1>1, <2>5, Bounds
    <3> QED  BY <1>1, <2>1, <3>1, DropIs
  <2>7. frames' = Pushed(frames, -1)
    <3>1. frames[Len(frames)].pushed \in Nat
      BY <1>1, <2>3, Fields
    <3>2. frames[Len(frames)].pushed - 1 = frames[Len(frames)].pushed + (-1)
      BY <3>1
    <3> QED  BY <2>1, <3>2 DEF Pushed
  <2>8. /\ sp' \in Nat /\ sp' <= Stack
        /\ Stack - sp' < 2 * MaxWords + IF ime THEN 2 ELSE 6
    BY <1>1, <1>6, <2>5, <2>6, Bounds
  <2> QED  BY <1>7, <2>1, <2>2, <2>6, <2>7, <2>8
<1> QED  BY <1>8, <1>9

\* The file's code keeps the invariant, and returns to the callers.
LEMMA FileKeepsInv ==
  ASSUME RoutinesInv, FileCode
  PROVE  /\ RoutinesInv'
         /\ Len(frames') < Len(frames) => pc' = Inner.ret /\ sp' = Inner.sp
<1>1. PICK op \in Opcodes, to \in Code :
         /\ InOrder(op, to) /\ Execute(op, Low(to - After(2)), to, 0) /\ Track(op)
         /\ willing' = ((willing \/ EnablesIrq(op)) /\ pc' # HaltAtPc)
  BY DEF FileCode
<1>2. pc \in Code /\ rom' = rom
  BY DEF FileCode
<1>3. /\ RomKnown /\ InOrderInv(frames, pc, sp, ram, ime, willing)
      /\ frames \in Seq(Routine) /\ Len(frames) \in Nat
      /\ sp \in Nat /\ sp <= Stack /\ ime \in BOOLEAN /\ willing \in BOOLEAN
      /\ \E h \in Handlers : rom = RomOf(h)
  BY InvFacts DEF RoutinesInv
<1>4. /\ pc # HaltAtPc /\ frames # <<>> /\ (Replayer => Len(frames) # 1)
      /\ ~willing => ~ime
  BY <1>2, InCode
<1>5. willing' \in BOOLEAN
  BY <1>1
<1>6. ~willing' /\ pc' # HaltAtPc => ~willing /\ ~EnablesIrq(op)
  BY <1>1
<1>7. FileMoves(op) \/ FileEnters \/ FileLeaves(op) \/ FilePushes \/ FilePops
  BY <1>1, <1>2, <1>3, FileStep
<1>8. CASE FileMoves(op)
  <2>1. pc' \in FilePoints \cup RstPcs
    BY <1>8, PointsApart DEF FileMoves, RstPcs
  <2>2. /\ Stands(Len(frames), frames[Len(frames)], pc') /\ pc' \notin HandlerPcs
        /\ pc' # HaltAtPc /\ (Replayer => pc' # LdSpPc)
    <3>1. RomKnown /\ (Replayer => Len(frames) # 1)
      BY <1>3, <1>4
    <3>2. \A q \in FilePoints \cup RstPcs :
            /\ Stands(Len(frames), frames[Len(frames)], q) /\ q \notin HandlerPcs
            /\ q # HaltAtPc /\ (Replayer => q # LdSpPc)
      BY <3>1, StandsInFile, Zenon
    <3> QED  BY <2>1, <3>2, Zenon
  <2>3. /\ ime' => ime \/ (willing' /\ Stack - sp < 2 * MaxWords)
        /\ willing => willing'
    BY <1>1, <1>6, <1>8, <2>2 DEF FileMoves
  <2>4. sp' = sp /\ ram' = ram /\ frames' = frames /\ ime' \in BOOLEAN
    BY <1>8 DEF FileMoves
  <2>5. InOrderInv(frames, pc', sp, ram, ime', willing')
    <3>1. InOrderInv(frames, pc, sp, ram, ime, willing) /\ frames # <<>> /\ (Replayer => Len(frames) # 1)
      BY <1>3, <1>4
    <3> QED  BY <2>2, <2>3, <3>1, MoveKeepsInv, Zenon
  <2>6. InOrderInv(frames', pc', sp', ram', ime', willing')
    BY <2>4, <2>5
  <2>7. RoutinesInv'
    BY <1>2, <1>3, <1>5, <2>2, <2>4, <2>6, NewInv
  <2> QED  BY <1>3, <2>4, <2>7
<1>9. CASE FileEnters
  <2>1. PICK ret \in Code :
          /\ Stack - sp < 2 * MaxWords /\ Push(ret)
          /\ pc' \in Code \cup RstPcs /\ frames' = Called(ret, pc') /\ ime' = ime
    BY <1>9 DEF FileEnters
  <2>2. pc' \in FilePoints \cup RstPcs /\ ret \in FilePoints \cup RstPcs /\ ret \notin RstPcs
    BY <2>1, PointsApart
  <2>3. pc' \in Nat /\ pc' \notin {64, 80} /\ ret \in Nat
    <3>1. pc' \in RstPcs => pc' \in Nat /\ pc' \notin {64, 80}
      BY DEF RstPcs
    <3>2. pc' \in Code => pc' \in Nat /\ pc' \notin {64, 80}
      BY Bounds
    <3> QED  BY <2>1, <3>1, <3>2, Bounds
  <2>4. /\ Stands(Len(frames) + 1, frames'[Len(frames) + 1], pc') /\ pc' \notin HandlerPcs
        /\ pc' # HaltAtPc
    <3>1. Len(frames) + 1 # 1
      BY <1>3, <1>4
    <3>2. RomKnown /\ (Replayer => Len(frames) + 1 # 1)
      BY <1>3, <3>1
    <3> QED  BY <2>2, <3>2, StandsInFile
  <2>5. Stands(Len(frames), Inner, ret)
    <3>1. RomKnown /\ (Replayer => Len(frames) # 1)
      BY <1>3, <1>4
    <3> QED  BY <2>2, <3>1, StandsInFile
  <2>6. Stack - sp + 2 < Room(pc') /\ (ime' => Stack - sp + 2 < IrqRoom(pc'))
    <3>1. Stack - sp + 2 < 2 * MaxWords + 2
      BY <1>3, <2>1, Bounds
    <3>2. Room(pc') = 2 * MaxWords + 6 /\ IrqRoom(pc') = 2 * MaxWords + 2
      BY <2>4 DEF Room, IrqRoom
    <3> QED  BY <1>3, <3>1, <3>2, Bounds
  <2>7. ~willing' => ~ime' /\ ~willing
    BY <1>4, <1>6, <2>1, <2>4
  <2>8. IF frames = <<>> THEN ret = HaltAtPc ELSE Stands(Len(frames), Inner, ret)
    BY <1>4, <2>5
  <2>9. ime' \in BOOLEAN
    BY <1>3, <2>1
  <2>10. RoutinesInv' /\ Len(frames') > Len(frames)
    BY <1>2, <1>4, <1>5, <2>1, <2>2, <2>3, <2>4, <2>6, <2>7, <2>8, <2>9, EnterStep, Zenon
  <2>11. frames' \in Seq(Routine)
    BY <2>10 DEF RoutinesInv, InOrderInv, Entered
  <2>12. Len(frames') \in Nat
    BY <2>11
  <2> QED  BY <1>3, <2>10, <2>12
<1>10. CASE FileLeaves(op)
  <2>1. /\ Drop /\ pc' = Top /\ frames' = Front(frames) /\ Inner.pushed = 0
        /\ ime' \in BOOLEAN /\ (Top = HaltAtPc => ime' /\ halted')
        /\ ime' => ime \/ (EnablesIrq(op) /\ Stack - sp < 2 * MaxWords) \/ Top = HaltAtPc
    BY <1>10 DEF FileLeaves
  <2>2. Top = HaltAtPc => ~willing'
    BY <1>1, <2>1
  <2>3. ime' => \/ ime \/ Stack - sp < 2 * MaxWords
                \/ Inner.to \in {64, 80} \/ Top = HaltAtPc
    BY <2>1
  <2>4. Top # HaltAtPc /\ ~willing' => ~ime' /\ ~willing
    BY <1>4, <1>6, <2>1
  <2> QED  BY <1>2, <1>4, <1>5, <2>1, <2>2, <2>3, <2>4, LeaveStep
<1>11. CASE FilePushes \/ FilePops
  <2>1. willing => willing'
    <3>1. pc' # HaltAtPc
      BY <1>11, PointsApart DEF FilePushes, FilePops
    <3> QED  BY <1>1, <3>1
  <2>2. RoutinesInv' /\ Len(frames') = Len(frames)
    BY <1>2, <1>5, <1>11, <2>1, FilePushKeepsInv
  <2> QED  BY <1>3, <2>2
<1> QED  BY <1>7, <1>8, <1>9, <1>10, <1>11

-----------------------------------------------------------------------------
\* The replayer: an instruction after the other, up to the endless loop.
LEMMA PassesIs ==
  ASSUME NEW q, q # HaltAtPc, ime \in BOOLEAN, NEW stops, Goes(q, ime, stops)
  PROVE  pc' = q /\ ime' = ime
BY DEF Goes

LEMMA ReplayerStep ==
  ASSUME RomKnown, Replayer, pc \in ReplayerPcs, pc # 354, ime \in BOOLEAN,
         Execute(rom[pc], Rom(pc + 1), Imm16(pc), 0)
  PROVE  /\ rom[pc] \in {\h00, \hC3, \h76, \h21, \hF9, \h3E, \hE0, \h26, \h36}
         /\ pc' \in ReplayerPcs /\ (pc \in LatePcs => pc' \in LatePcs)
         /\ pc' \in EarlyPcs <=> (pc \in EarlyPcs /\ pc # LdSpPc)
         /\ sp' = IF pc = LdSpPc THEN hl ELSE sp
         /\ pc' = LdSpPc => hl' = Stack
         /\ ime' = ime
<1>1. ReplayerOp(rom) /\ Imm16(257) = 336 /\ Imm16(336) = Stack /\ Imm16(362) = 361
  BY DEF RomKnown
<1>2. pc \in Nat /\ pc <= 65532
  BY DEF ReplayerPcs, EarlyPcs, LdSpPc, SetupPcs, LatePcs
<1>3. After(1) = pc + 1 /\ After(2) = pc + 2 /\ After(3) = pc + 3
  BY <1>2, AfterIs
<1> DEFINE op == rom[pc]
<1>4. /\ op = \hC3 => Jp(Imm16(pc))
      /\ op = \h00 => Nop
      /\ op = \h76 => Halt
      /\ op = \h21 => LdHl(Imm16(pc))
      /\ op = \hF9 => LdSpHl
      /\ op = \h3E => LdA(Rom(pc + 1))
      /\ op = \hE0 => LdhPut(Rom(pc + 1))
      /\ op = \h26 => LdH(Rom(pc + 1))
      /\ op = \h36 => LdAtHl(Rom(pc + 1), 2)
  BY DecodedReplayer
<1> HIDE DEF op
<1>5. /\ pc + 1 # HaltAtPc /\ pc + 2 # HaltAtPc /\ pc + 3 # HaltAtPc
  BY DEF HaltAtPc, ReplayerPcs, EarlyPcs, LdSpPc, SetupPcs, LatePcs
<1>6. ASSUME op \in {\h3E, \hE0, \h26, \h36} PROVE pc' = pc + 2 /\ ime' = ime /\ sp' = sp
  <2>1. CASE op = \h3E
    <3>1. Goes(After(2), ime, FALSE) /\ sp' = sp
      BY <1>4, <2>1 DEF LdA, Passes, KeepStack
    <3> QED  BY <1>3, <1>5, <3>1, PassesIs
  <2>2. CASE op = \hE0
    <3>1. Goes(After(2), ime, FALSE) /\ sp' = sp
      <4>1. LdhPut(Rom(pc + 1))
        BY <1>4, <2>2
      <4>2. Passes(2, 12) /\ UNCHANGED <<sp, data>>
        BY <4>1 DEF LdhPut
      <4> QED  BY <4>2 DEF Passes
    <3> QED  BY <1>3, <1>5, <3>1, PassesIs
  <2>3. CASE op = \h26
    <3>1. Goes(After(2), ime, FALSE) /\ sp' = sp
      BY <1>4, <2>3 DEF LdH, Passes, KeepStack
    <3> QED  BY <1>3, <1>5, <3>1, PassesIs
  <2>4. CASE op = \h36
    <3>1. Goes(After(2), ime, FALSE) /\ sp' = sp
      BY <1>4, <2>4 DEF LdAtHl, Passes
    <3> QED  BY <1>3, <1>5, <3>1, PassesIs
  <2> QED  BY <1>6, <2>1, <2>2, <2>3, <2>4
<1>7. /\ op \in {\h00, \h76} => pc' = pc + 1 /\ ime' = ime /\ sp' = sp
      /\ op = \hF9 => pc' = pc + 1 /\ ime' = ime /\ sp' = hl
      /\ op = \h21 => pc' = pc + 3 /\ ime' = ime /\ sp' = sp /\ hl' = Imm16(pc)
  <2>2. ASSUME op \in {\h00, \h76} PROVE pc' = pc + 1 /\ ime' = ime /\ sp' = sp
    <3>1. (Goes(After(1), ime, FALSE) \/ Goes(After(1), ime, TRUE)) /\ sp' = sp
      <4>1. CASE op = \h00
        BY <1>4, <4>1 DEF Nop, Untaken, Passes, KeepStack
      <4>2. CASE op = \h76
        BY <1>4, <4>2 DEF Halt, KeepStack
      <4> QED  BY <2>2, <4>1, <4>2
    <3> QED  BY <1>3, <1>5, <3>1, PassesIs
  <2>3. ASSUME op = \hF9 PROVE pc' = pc + 1 /\ ime' = ime /\ sp' = hl
    <3>1. Goes(After(1), ime, FALSE) /\ sp' = hl
      BY <1>4, <2>3 DEF LdSpHl, Passes
    <3> QED  BY <1>3, <1>5, <3>1, PassesIs
  <2>4. ASSUME op = \h21 PROVE pc' = pc + 3 /\ ime' = ime /\ sp' = sp /\ hl' = Imm16(pc)
    <3>1. Goes(After(3), ime, FALSE) /\ sp' = sp /\ hl' = Imm16(pc)
      BY <1>4, <2>4 DEF LdHl, Passes, KeepStack
    <3> QED  BY <1>3, <1>5, <3>1, PassesIs
  <2> QED  BY <2>2, <2>3, <2>4
<1>8. ASSUME op = \hC3, Imm16(pc) # HaltAtPc
      PROVE  pc' = Imm16(pc) /\ sp' = sp /\ ime' = ime
  <2>1. Goes(Imm16(pc), ime, FALSE) /\ sp' = sp
    BY <1>4, <1>8 DEF Jp, Jump, KeepStack
  <2> QED  BY <1>8, <2>1, PassesIs
<1> DEFINE Steps(q) == /\ pc' = q /\ ime' = ime
                       /\ sp' = IF pc = LdSpPc THEN hl ELSE sp
<1>9. /\ pc \in {340, 342, 344, 346, 348, 350, 352, 357, 359} =>
           op \in {\h3E, \hE0, \h26, \h36} /\ Steps(pc + 2)
      /\ pc = 256 => op = \h00 /\ Steps(257)
      /\ pc = 361 => op = \h76 /\ Steps(362)
      /\ pc = 257 => op = \hC3 /\ Steps(336)
      /\ pc = 362 => op = \hC3 /\ Steps(361)
      /\ pc = 336 => op = \h21 /\ Steps(339) /\ hl' = Stack
      /\ pc = 339 => op = \hF9 /\ Steps(340)
  <2>1. ASSUME pc \in {340, 342, 344, 346, 348, 350, 352, 357, 359}
        PROVE  op \in {\h3E, \hE0, \h26, \h36} /\ Steps(pc + 2)
    <3>1. op \in {\h3E, \hE0, \h26, \h36}
      BY <1>1, <2>1 DEF ReplayerOp, op
    <3>2. pc # LdSpPc
      BY <2>1 DEF LdSpPc
    <3> QED  BY <1>6, <3>1, <3>2
  <2>2. ASSUME pc \in {256, 361}
        PROVE  /\ Steps(pc + 1)
               /\ pc = 256 => op = \h00
               /\ pc = 361 => op = \h76
    <3>1. (pc = 256 => op = \h00) /\ (pc = 361 => op = \h76)
      BY <1>1 DEF ReplayerOp, op
    <3>2. pc # LdSpPc
      BY <2>2 DEF LdSpPc
    <3> QED  BY <1>7, <2>2, <3>1, <3>2
  <2>3. ASSUME pc \in {257, 362}
        PROVE  op = \hC3 /\ Steps(Imm16(pc)) /\ Imm16(257) = 336 /\ Imm16(362) = 361
    <3>1. op = \hC3
      BY <1>1, <2>3 DEF ReplayerOp, op
    <3>2. pc # LdSpPc
      BY <2>3 DEF LdSpPc
    <3>3. Imm16(pc) # HaltAtPc
      BY <1>1, <2>3 DEF HaltAtPc
    <3> QED  BY <1>1, <1>8, <3>1, <3>2, <3>3
  <2>4. ASSUME pc = 336 PROVE op = \h21 /\ Steps(339) /\ hl' = Stack
    <3>1. op = \h21
      BY <1>1, <2>4 DEF ReplayerOp, op
    <3> QED  BY <1>1, <1>7, <2>4, <3>1 DEF LdSpPc
  <2>5. ASSUME pc = 339 PROVE op = \hF9 /\ Steps(340)
    <3>1. op = \hF9
      BY <1>1, <2>5 DEF ReplayerOp, op
    <3> QED  BY <1>7, <2>5, <3>1 DEF LdSpPc
  <2> QED  BY <2>1, <2>2, <2>3, <2>4, <2>5
<1>10. /\ op \in {\h00, \hC3, \h76, \h21, \hF9, \h3E, \hE0, \h26, \h36}
       /\ ime' = ime /\ sp' = IF pc = LdSpPc THEN hl ELSE sp
  BY <1>9 DEF ReplayerPcs, EarlyPcs, LdSpPc, SetupPcs, LatePcs
<1>11. /\ pc' \in ReplayerPcs /\ (pc \in LatePcs => pc' \in LatePcs)
       /\ pc' \in EarlyPcs <=> (pc \in EarlyPcs /\ pc # LdSpPc)
       /\ pc' = LdSpPc => hl' = Stack
  BY <1>9 DEF ReplayerPcs, EarlyPcs, LdSpPc, SetupPcs, LatePcs
<1> QED  BY <1>10, <1>11 DEF op

LEMMA FewWords ==
  ASSUME NEW s \in Nat, Stack - s <= 2
  PROVE  /\ Stack - s < 2 * MaxWords + 6
         /\ Stack - s = 0 => Stack - s < 2 * MaxWords + 2
<1>1. Stack \in Int /\ 2 * MaxWords \in Int /\ 0 <= 2 * MaxWords
  BY Bounds
<1> QED  BY <1>1

\* The replayer keeps the invariant.
LEMMA ReplayerKeepsInv ==
  ASSUME RoutinesInv, Replayer, pc \in ReplayerPcs, KnownCode
  PROVE  RoutinesInv' /\ Len(frames') >= Len(frames)
<1>1. /\ RomKnown /\ InOrderInv(frames, pc, sp, ram, ime, willing)
      /\ frames \in Seq(Routine) /\ Len(frames) \in Nat /\ frames # <<>>
      /\ sp \in Nat /\ ime \in BOOLEAN /\ willing \in BOOLEAN
      /\ Stands(Len(frames), Inner, pc)
      /\ \E h \in Handlers : rom = RomOf(h)
      /\ pc = LdSpPc => hl = Stack
  <2>1. IF frames = <<>> THEN pc = HaltAtPc ELSE Stands(Len(frames), Inner, pc)
    BY InvFacts
  <2>2. frames # <<>>
    BY InvFacts
  <2> QED  BY <2>1, <2>2, InvFacts DEF RoutinesInv
<1>2. Len(frames) = 1 /\ pc # HaltAtPc
  BY <1>1, PointsApart DEF Stands
<1>3. /\ Entered(frames) /\ InTurn(frames, pc, ime, willing)
      /\ sp = IF pc \in EarlyPcs THEN Stack - 2 ELSE Stack
      /\ ime => pc \in LatePcs
  BY <1>1, <1>2 DEF InOrderInv, Inside
<1>4. /\ Execute(rom[pc], Rom(pc + 1), Imm16(pc), 0) /\ Track(rom[pc])
      /\ willing' = (willing /\ pc' # HaltAtPc) /\ rom' = rom
  BY DEF KnownCode, Imm16
<1>5. ~willing => ~ime
  BY <1>2, <1>3 DEF InTurn
<1>6. CASE pc = 354
  <2>1. rom[354] = \hCD /\ Imm16(354) = InitAddr
    BY <1>1 DEF RomKnown, ReplayerOp
  <2>2. Call(InitAddr) /\ Calls(rom[pc]) /\ Size(rom[pc]) = 3
    <3>1. Call(InitAddr)
      BY <1>4, <1>6, <2>1, DecodedReplayer
    <3>2. Calls(rom[pc]) /\ Size(rom[pc]) = 3
      BY <1>6, <2>1, Kinds, Sizes
    <3> QED  BY <3>1, <3>2
  <2>3. After(3) = 357
    BY <1>6, AfterIs
  <2>4. Push(357) /\ Goes(InitAddr, ime, FALSE)
    BY <2>2, <2>3 DEF Call
  <2>5. InitAddr \in FilePoints /\ InitAddr # HaltAtPc /\ InitAddr \in Nat
        /\ InitAddr \notin {64, 80}
    BY Bounds, PointsApart
  <2>6. pc' = InitAddr /\ ime' = ime
    BY <1>1, <2>4, <2>5, PassesIs
  <2>7. frames' = Called(357, pc')
    BY <1>4, <2>2, <2>3, Tracked
  <2>8. pc \notin EarlyPcs /\ pc \notin LatePcs /\ 357 \in LatePcs /\ 357 \notin RstPcs
        /\ 357 \notin HandlerPcs
    BY <1>6 DEF EarlyPcs, LdSpPc, LatePcs, RstPcs, HandlerPcs
  <2>9. ~ime /\ sp = Stack
    BY <1>3, <2>8
  <2>10. Stands(Len(frames) + 1, frames'[Len(frames) + 1], pc') /\ pc' \notin HandlerPcs
    <3>1. InitAddr \in FilePoints \cup RstPcs /\ RomKnown /\ Len(frames) + 1 # 1
      BY <1>1, <1>2, <2>5
    <3> QED  BY <2>6, <3>1, StandsInFile
  <2>11. Stands(Len(frames), Inner, 357)
    BY <1>2, <2>8 DEF Stands, ReplayerPcs
  <2>12. Stack - sp + 2 < Room(pc')
    <3>1. Stack - sp + 2 = 2
      BY <2>9, Bounds
    <3> QED  BY <3>1, Bounds DEF Room
  <2>13. willing' = willing /\ ime' \in BOOLEAN /\ willing' \in BOOLEAN
    BY <1>1, <1>4, <2>5, <2>6
  <2>14. RoutinesInv' /\ Len(frames') > Len(frames)
    <3> DEFINE ret == 357
    <3>1. /\ ret \in Nat /\ Push(ret) /\ frames' = Called(ret, pc') /\ ret \in LatePcs
          /\ ret \notin RstPcs /\ Stands(Len(frames), Inner, ret)
      BY <2>4, <2>7, <2>8, <2>11
    <3>2. IF frames = <<>> THEN ret = HaltAtPc ELSE Stands(Len(frames), Inner, ret)
      BY <1>1, <3>1
    <3>3. pc' \in Nat /\ pc' \notin {64, 80} /\ ~ime'
      BY <2>5, <2>6, <2>9
    <3>4. ~willing' => ~ime' /\ ~willing
      BY <2>13, <3>3
    <3> HIDE DEF ret
    <3> QED  BY <1>4, <2>9, <2>10, <2>12, <2>13, <3>1, <3>2, <3>3, <3>4, EnterStep, Zenon
  <2>15. Len(frames') \in Nat
    <3>1. frames' \in Seq(Routine)
      BY <2>14 DEF RoutinesInv, InOrderInv, Entered
    <3> QED  BY <3>1
  <2> QED  BY <1>1, <2>14, <2>15
<1>7. CASE pc # 354
  <2>1. /\ rom[pc] \in {\h00, \hC3, \h76, \h21, \hF9, \h3E, \hE0, \h26, \h36}
        /\ pc' \in ReplayerPcs /\ (pc \in LatePcs => pc' \in LatePcs)
        /\ pc' \in EarlyPcs <=> (pc \in EarlyPcs /\ pc # LdSpPc)
        /\ sp' = IF pc = LdSpPc THEN hl ELSE sp
        /\ pc' = LdSpPc => hl' = Stack
        /\ ime' = ime
    BY <1>1, <1>4, <1>7, ReplayerStep
  <2>2. frames' = frames
    <3>1. rom[pc] \in Plain \cup {\h18, \hC3, \hE9} \cup JrConds \cup JpConds
            \/ rom[pc] \in {\h21, \hF9, \h3E, \hE0, \h26, \h36}
      BY <2>1 DEF Plain
    <3> QED  BY <1>4, <3>1, Kinds, Tracked
  <2>3. pc' # HaltAtPc /\ pc' \notin HandlerPcs /\ willing' = willing
    <3>1. pc' # HaltAtPc
      BY <2>1, PointsApart
    <3>2. pc' \notin HandlerPcs
      BY <2>1 DEF HandlerPcs, ReplayerPcs, EarlyPcs, LdSpPc, SetupPcs, LatePcs
    <3> QED  BY <1>1, <1>4, <3>1, <3>2
  <2>4. /\ sp' = IF pc' \in EarlyPcs THEN Stack - 2 ELSE Stack
        /\ ime' => pc' \in LatePcs
    <3>1. pc = LdSpPc => pc \in EarlyPcs
      BY DEF EarlyPcs
    <3> QED  BY <1>1, <1>3, <2>1, <3>1
  <2>5. pc' \in LatePcs => pc' \notin EarlyPcs
    BY DEF EarlyPcs, LdSpPc, LatePcs
  <2>6. Inside(frames, pc', sp', ime')
    <3>1. Stands(Len(frames), frames[Len(frames)], pc')
      BY <1>2, <2>1, <2>3 DEF Stands
    <3>2. sp' \in Nat /\ sp' <= Stack /\ Stack - sp' <= 2 /\ (ime' => Stack - sp' = 0)
      BY <2>4, <2>5, Bounds
    <3>3. Stack - sp' < Room(pc') /\ (ime' => Stack - sp' < IrqRoom(pc'))
      <4>1. Room(pc') = 2 * MaxWords + 6 /\ IrqRoom(pc') = 2 * MaxWords + 2
        BY <2>3 DEF Room, IrqRoom
      <4>2. Stack - sp' < 2 * MaxWords + 6 /\ (ime' => Stack - sp' < 2 * MaxWords + 2)
        BY <3>2, FewWords
      <4> QED  BY <4>1, <4>2
    <3> QED  BY <1>1, <2>3, <2>4, <3>1, <3>2, <3>3 DEF Inside
  <2>7. InTurn(frames, pc', ime', willing')
    BY <1>3, <1>5, <2>1, <2>3 DEF InTurn
  <2>8. Stacked(First, frames, sp', ram')
    <3>1. First = 2 /\ First .. Len(frames) = {}
      BY <1>2 DEF First
    <3> QED  BY <3>1 DEF Stacked
  <2>9. InOrderInv(frames', pc', sp', ram', ime', willing')
    BY <1>3, <2>2, <2>6, <2>7, <2>8 DEF InOrderInv
  <2>10. RoutinesInv'
    BY <1>1, <1>4, <2>1, <2>3, <2>9, NewInv
  <2> QED  BY <1>1, <2>2, <2>10
<1> QED  BY <1>6, <1>7

\* So do the jumps that rst leads to, and the interrupt handlers.
LEMMA RstKeepsInv ==
  ASSUME RoutinesInv, pc \in RstPcs, KnownCode
  PROVE  RoutinesInv' /\ frames' = frames
<1>1. /\ RomKnown /\ InOrderInv(frames, pc, sp, ram, ime, willing)
      /\ ime \in BOOLEAN /\ willing \in BOOLEAN
      /\ \E h \in Handlers : rom = RomOf(h)
  BY InvFacts DEF RoutinesInv
<1>2. pc # HaltAtPc /\ pc \notin ReplayerPcs
  <2>1. pc # HaltAtPc
    BY PointsApart
  <2>2. pc \notin ReplayerPcs
    BY DEF RstPcs, ReplayerPcs, EarlyPcs, LdSpPc, SetupPcs, LatePcs
  <2> QED  BY <2>1, <2>2
<1>3. frames # <<>> /\ (Replayer => Len(frames) # 1)
  <2>1. frames # <<>>
    BY <1>2, InvFacts
  <2>2. Stands(Len(frames), Inner, pc)
    BY <2>1, InvFacts
  <2> QED  BY <1>2, <2>1, <2>2 DEF Stands
<1>4. /\ Execute(rom[pc], Rom(pc + 1), Imm16(pc), 0) /\ Track(rom[pc])
      /\ willing' = (willing /\ pc' # HaltAtPc) /\ rom' = rom
  BY DEF KnownCode, Imm16
<1>5. rom[pc] = \hC3 /\ Imm16(pc) = LoadAddr + pc
  BY <1>1 DEF RomKnown
<1>6. LoadAddr + pc \in FilePoints
  <2>1. pc \in Nat /\ pc <= 56
    BY DEF RstPcs
  <2>2. LoadAddr \in Nat /\ LoadAddr <= 32767
    BY Bounds
  <2> QED  BY <2>1, <2>2 DEF FilePoints
<1>7. frames' = frames
  BY <1>4, <1>5, Kinds, Tracked
<1>8. Jp(LoadAddr + pc)
  BY <1>4, <1>5, DecodedReplayer
<1>9. Goes(LoadAddr + pc, ime, FALSE) /\ sp' = sp /\ ram' = ram
  BY <1>8 DEF Jp, Jump, KeepStack
<1>10. LoadAddr + pc # HaltAtPc
  BY <1>6, PointsApart
<1>11. pc' = LoadAddr + pc /\ ime' = ime
  BY <1>1, <1>9, <1>10, PassesIs
<1>12. /\ Stands(Len(frames), frames[Len(frames)], pc') /\ pc' \notin HandlerPcs
       /\ pc' # HaltAtPc /\ (Replayer => pc' # LdSpPc)
  <2>1. \A q \in FilePoints \cup RstPcs :
          /\ Stands(Len(frames), frames[Len(frames)], q) /\ q \notin HandlerPcs
          /\ q # HaltAtPc /\ (Replayer => q # LdSpPc)
    BY <1>1, <1>3, StandsInFile, Zenon
  <2>2. pc' \in FilePoints \cup RstPcs
    BY <1>6, <1>11
  <2> QED  BY <2>1, <2>2, Zenon
<1>13. willing' = willing
  BY <1>1, <1>4, <1>12
<1>14. InOrderInv(frames, pc', sp, ram, ime, willing)
  <2>1. /\ InOrderInv(frames, pc, sp, ram, ime, willing)
        /\ ime => ime \/ (willing /\ Stack - sp < 2 * MaxWords)
        /\ willing => willing
    BY <1>1
  <2> QED  BY <1>3, <1>12, <2>1, MoveKeepsInv, Zenon
<1>15. InOrderInv(frames', pc', sp', ram', ime', willing')
  BY <1>7, <1>9, <1>11, <1>13, <1>14
<1>16. RoutinesInv'
  BY <1>1, <1>4, <1>11, <1>12, <1>13, <1>15, NewInv
<1> QED  BY <1>7, <1>16

LEMMA HandlerKeepsInv ==
  ASSUME RoutinesInv, pc \in HandlerPcs, KnownCode
  PROVE  /\ RoutinesInv'
         /\ Len(frames') < Len(frames) => pc' = Inner.ret /\ sp' = Inner.sp
<1>1. /\ RomKnown /\ InOrderInv(frames, pc, sp, ram, ime, willing)
      /\ frames \in Seq(Routine) /\ Len(frames) \in Nat
      /\ sp \in Nat /\ sp <= Stack
      /\ ime \in BOOLEAN /\ willing \in BOOLEAN
      /\ Stack - sp < Room(pc) /\ (ime => Stack - sp < IrqRoom(pc))
  BY InvFacts
<1>2. pc # HaltAtPc /\ pc \notin ReplayerPcs /\ pc \in Nat /\ pc <= 65532
  <2>1. pc # HaltAtPc
    BY PointsApart
  <2>2. pc \notin ReplayerPcs /\ pc \in Nat /\ pc <= 65532
    BY DEF HandlerPcs, ReplayerPcs, EarlyPcs, LdSpPc, SetupPcs, LatePcs
  <2> QED  BY <2>1, <2>2
<1>3. /\ frames # <<>> /\ (Replayer => Len(frames) # 1)
      /\ Inner.to \in {64, 80} /\ Inner.pushed = 0
  <2>1. frames # <<>>
    BY <1>2, InvFacts
  <2>2. Stands(Len(frames), Inner, pc)
    BY <2>1, InvFacts
  <2> QED  BY <1>2, <2>1, <2>2 DEF Stands
<1>4. /\ Execute(rom[pc], Rom(pc + 1), Imm16(pc), 0) /\ Track(rom[pc])
      /\ willing' = (willing /\ pc' # HaltAtPc) /\ rom' = rom /\ pc \in DOMAIN rom
  BY DEF KnownCode, Imm16
<1>5. willing' \in BOOLEAN
  BY <1>4
<1>6. Entered(frames) /\ InTurn(frames, pc, ime, willing)
  BY <1>1 DEF InOrderInv
<1>7. Len(frames) \in 1 .. Len(frames)
  <2>1. Len(frames) # 0
    BY <1>1, <1>3
  <2> QED  BY <1>1, <2>1
<1>8. rom[pc] = \hD9 \/ (rom[pc] = \hCD /\ Imm16(pc) \in Code /\ pc + 3 \in HandlerPcs)
  BY <1>1, <1>4 DEF RomKnown
<1>9. CASE rom[pc] = \hD9
  <2>1. Drop /\ Goes(Top, TRUE, FALSE)
    <3>1. Reti
      BY <1>4, <1>9, DecodedReplayer
    <3> QED  BY <3>1 DEF Reti, Return
  <2>2. pc' = Top /\ ime' = TRUE /\ (Top = HaltAtPc => halted')
    BY <2>1 DEF Goes
  <2>3. frames' = Front(frames)
    BY <1>4, <1>9, Kinds, Tracked
  <2>4. Top = HaltAtPc => ~willing'
    BY <1>4, <2>2
  <2>5. Top # HaltAtPc => willing' /\ willing
    <3>1. ASSUME ~willing PROVE Top = HaltAtPc
      <4>1. Len(frames) = 1
        BY <1>3, <1>6, <1>7, <3>1 DEF InTurn, Inner
      <4>2. Inner.ret = HaltAtPc
        BY <1>3, <1>6, <4>1 DEF Entered, Inner
      <4> QED  BY <1>3, <4>2, TopIs
    <3> QED  BY <1>1, <1>4, <2>2, <3>1
  <2>6. RoutinesInv' /\ pc' = Inner.ret /\ sp' = Inner.sp
    BY <1>3, <1>4, <1>5, <2>1, <2>2, <2>3, <2>4, <2>5, LeaveStep
  <2> QED  BY <2>6
<1>10. CASE rom[pc] = \hCD /\ Imm16(pc) \in Code /\ pc + 3 \in HandlerPcs
  <2> DEFINE ret == pc + 3
             to == Imm16(pc)
  <2>1. Call(to) /\ Calls(rom[pc]) /\ Size(rom[pc]) = 3
    <3>1. Call(to)
      BY <1>4, <1>10, DecodedReplayer
    <3>2. Calls(rom[pc]) /\ Size(rom[pc]) = 3
      BY <1>10, Kinds, Sizes
    <3> QED  BY <3>1, <3>2
  <2>2. After(3) = ret
    BY <1>2, AfterIs
  <2>3. ret \in Nat /\ ret \in HandlerPcs /\ to \in Code
    BY <1>2, <1>10
  <2> HIDE DEF ret, to
  <2>4. Push(ret) /\ Goes(to, ime, FALSE) /\ frames' = Called(ret, pc')
    <3>1. Push(ret) /\ Goes(to, ime, FALSE)
      BY <2>1, <2>2 DEF Call
    <3>2. frames' = Called(ret, pc')
      BY <1>4, <2>1, <2>2, Tracked
    <3> QED  BY <3>1, <3>2
  <2>5. to \in FilePoints /\ to # HaltAtPc /\ to \in Nat /\ to \notin {64, 80}
    <3>1. to \in Nat /\ to \notin {64, 80}
      BY <2>3, Bounds
    <3> QED  BY <2>3, <3>1, PointsApart
  <2>6. pc' = to /\ ime' = ime
    BY <1>1, <2>4, <2>5, PassesIs
  <2>7. ret \notin RstPcs /\ ret \notin ReplayerPcs /\ pc' \notin HandlerPcs
    <3>1. ret \notin RstPcs /\ ret \notin ReplayerPcs
      BY <2>3 DEF RstPcs, HandlerPcs, ReplayerPcs, EarlyPcs, LdSpPc, SetupPcs, LatePcs
    <3> QED  BY <2>5, <2>6, <3>1, PointsApart
  <2>8. Stands(Len(frames) + 1, frames'[Len(frames) + 1], pc')
    <3>1. to \in FilePoints \cup RstPcs /\ RomKnown /\ Len(frames) + 1 # 1
      BY <1>1, <1>7, <2>5
    <3> QED  BY <2>6, <3>1, StandsInFile
  <2>9. Stands(Len(frames), Inner, ret)
    BY <1>3, <2>3, <2>7 DEF Stands
  <2>10. IF frames = <<>> THEN ret = HaltAtPc ELSE Stands(Len(frames), Inner, ret)
    BY <1>3, <2>9
  <2>11. Stack - sp + 2 < Room(pc') /\ (ime' => Stack - sp + 2 < IrqRoom(pc'))
    <3>1. Stack - sp < 2 * MaxWords + 4 /\ (ime => Stack - sp < 2 * MaxWords)
      <4>1. Room(pc) = 2 * MaxWords + 4 /\ IrqRoom(pc) = 2 * MaxWords + 0
        BY DEF Room, IrqRoom
      <4>2. 2 * MaxWords + 0 = 2 * MaxWords
        BY Bounds
      <4> QED  BY <1>1, <4>1, <4>2
    <3>2. Room(pc') = 2 * MaxWords + 6 /\ IrqRoom(pc') = 2 * MaxWords + 2
      BY <2>7 DEF Room, IrqRoom
    <3>3. Stack \in Int /\ 2 * MaxWords \in Int
      BY Bounds
    <3> QED  BY <1>1, <2>6, <3>1, <3>2, <3>3
  <2>12. ~willing' => ~ime' /\ ~willing
    <3>1. willing' = willing
      BY <1>1, <1>4, <2>5, <2>6
    <3>2. ~willing => ~ime
      BY <1>2, <1>6 DEF InTurn
    <3> QED  BY <2>6, <3>1, <3>2
  <2>13. pc' \in Nat /\ pc' \notin {64, 80} /\ ime' \in BOOLEAN
    BY <1>1, <2>5, <2>6
  <2>14. RoutinesInv' /\ Len(frames') > Len(frames)
    BY <1>3, <1>4, <1>5, <2>3, <2>4, <2>7, <2>8, <2>10, <2>11, <2>12, <2>13, EnterStep, ZenonT(30)
  <2>15. Len(frames') \in Nat
    <3>1. frames' \in Seq(Routine)
      BY <2>14 DEF RoutinesInv, InOrderInv, Entered
    <3> QED  BY <3>1
  <2> QED  BY <1>1, <2>14, <2>15
<1> QED  BY <1>8, <1>9, <1>10

LEMMA KnownKeepsInv ==
  ASSUME RoutinesInv, KnownCode
  PROVE  /\ RoutinesInv'
         /\ Len(frames') < Len(frames) => pc' = Inner.ret /\ sp' = Inner.sp
<1>1. RomKnown /\ pc \in DOMAIN rom /\ Len(frames) \in Nat
  BY InvFacts DEF KnownCode
<1>2. pc # HaltAtPc /\ pc \notin FilePoints
  <2>1. pc < LoadAddr /\ pc # HaltAtPc /\ pc \in Nat
    BY <1>1 DEF RomKnown
  <2> QED  BY <2>1, Bounds DEF FilePoints
<1>3. frames # <<>> /\ Stands(Len(frames), Inner, pc)
  <2>1. frames # <<>>
    BY <1>2, InvFacts
  <2> QED  BY <2>1, InvFacts
<1>4. pc \in RstPcs \/ pc \in HandlerPcs \/ (Replayer /\ pc \in ReplayerPcs)
  BY <1>2, <1>3 DEF Stands
<1>5. CASE pc \in RstPcs
  <2>1. RoutinesInv' /\ frames' = frames
    BY <1>5, RstKeepsInv
  <2> QED  BY <1>1, <2>1
<1>6. CASE pc \in HandlerPcs
  BY <1>6, HandlerKeepsInv
<1>7. CASE Replayer /\ pc \in ReplayerPcs
  <2>1. RoutinesInv' /\ Len(frames') >= Len(frames)
    BY <1>7, ReplayerKeepsInv
  <2>2. Len(frames') \in Nat
    <3>1. frames' \in Seq(Routine)
      BY <2>1 DEF RoutinesInv, InOrderInv, Entered
    <3> QED  BY <3>1
  <2> QED  BY <1>1, <2>1, <2>2
<1> QED  BY <1>4, <1>5, <1>6, <1>7

\* An interrupt enters its handler.
LEMMA InterruptKeepsInv ==
  ASSUME RoutinesInv, TakeInterrupt
  PROVE  RoutinesInv' /\ Len(frames') >= Len(frames)
<1>1. /\ RomKnown /\ InOrderInv(frames, pc, sp, ram, ime, willing)
      /\ frames \in Seq(Routine) /\ Len(frames) \in Nat
      /\ sp \in Nat /\ sp <= Stack
      /\ willing \in BOOLEAN
      /\ ime => Stack - sp < IrqRoom(pc)
  BY InvFacts
<1>2. /\ ime /\ pc' \in {64, 80} /\ Push(pc) /\ ~ime' /\ ime' \in BOOLEAN
      /\ frames' = Called(pc, pc') /\ rom' = rom /\ willing' = willing
  BY DEF TakeInterrupt, Interrupt, Vector
<1>3. /\ IF frames = <<>> THEN pc = HaltAtPc ELSE Stands(Len(frames), Inner, pc)
      /\ Replayer => frames # <<>>
  BY InvFacts
<1>4. Inside(frames, pc, sp, ime) /\ InTurn(frames, pc, ime, willing)
  BY <1>1 DEF InOrderInv
<1>5. pc \in Nat
  <2>1. CASE frames = <<>>
    BY <1>3, <2>1 DEF HaltAtPc
  <2>2. CASE frames # <<>>
    BY <1>3, <2>2, PointsApart DEF Stands
  <2> QED  BY <2>1, <2>2
<1>6. ~willing => frames = <<>>
  <2>1. ASSUME ~willing, frames # <<>> PROVE FALSE
    <3>1. pc = HaltAtPc
      BY <1>2, <1>4, <2>1 DEF InTurn
    <3>2. pc # HaltAtPc
      BY <1>3, <2>1, PointsApart DEF Stands
    <3> QED  BY <3>1, <3>2
  <2> QED  BY <2>1
<1>7. pc' \in HandlerPcs /\ pc' \notin ReplayerPcs /\ pc' \in Nat
  BY <1>2 DEF HandlerPcs, ReplayerPcs, EarlyPcs, LdSpPc, SetupPcs, LatePcs
<1>8. Stands(Len(frames) + 1, frames'[Len(frames) + 1], pc')
  <2> DEFINE e == [ret |-> pc, to |-> pc', sp |-> sp, pushed |-> 0]
  <2>1. frames'[Len(frames) + 1] = e
    BY <1>1, <1>2 DEF Called
  <2>2. e.to \in {64, 80} /\ e.pushed = 0
    BY <1>2
  <2>3. Replayer => Len(frames) + 1 # 1
    BY <1>1, <1>3
  <2> HIDE DEF e
  <2> QED  BY <1>7, <2>1, <2>2, <2>3 DEF Stands
<1>9. Replayer /\ Len(frames) = 1 => sp = Stack /\ pc \in LatePcs
  <2>1. pc \in LatePcs => pc \notin EarlyPcs
    BY DEF LatePcs, EarlyPcs, LdSpPc
  <2> QED  BY <1>2, <1>4, <2>1 DEF Inside
<1>10. Stack - sp + 2 < Room(pc')
  <2>1. Room(pc') = 2 * MaxWords + 4
    BY <1>7 DEF Room
  <2>2. Stack \in Int /\ 2 * MaxWords \in Int
    BY Bounds
  <2>3. Stack - sp < 2 * MaxWords + 2
    BY <1>1, <1>2, <2>2 DEF IrqRoom
  <2> QED  BY <1>1, <2>1, <2>2, <2>3
<1>11. willing' \in BOOLEAN /\ (~willing' => ~ime' /\ ~willing /\ frames = <<>>)
  BY <1>1, <1>2, <1>6
<1>12. Stack - sp < IrqRoom(pc)
  BY <1>1, <1>2
<1>13. RoutinesInv' /\ Len(frames') > Len(frames)
  BY <1>2, <1>3, <1>5, <1>7, <1>8, <1>9, <1>10, <1>11, <1>12, EnterStep, Zenon
<1>14. Len(frames') \in Nat
  <2>1. frames' \in Seq(Routine)
    BY <1>13 DEF RoutinesInv, InOrderInv, Entered
  <2> QED  BY <2>1
<1> QED  BY <1>1, <1>13, <1>14

\* What gbs_init leaves.
LEMMA StartedInOrder ==
  ASSUME NEW to, to = IF Replayer THEN 256 ELSE InitAddr
  PROVE  /\ InOrderInv(Outermost(to), to, Begin(Replayer).sp, Begin(Replayer).ram, FALSE, FALSE)
         /\ to # HaltAtPc /\ (Replayer => to # LdSpPc)
<1> DEFINE s == Stack - 2
           mem == Put2([x \in {} |-> 0], s, HaltAtPc)
           fr == Outermost(to)
<1>1. Begin(Replayer).sp = s /\ Begin(Replayer).ram = mem
  <2>1. Word(Stack - 2) = Stack - 2 /\ Word(Stack - 1) = Stack - 2 + 1
    BY Bounds DEF Word
  <2> QED  BY <2>1 DEF Begin, Started, Put2
<1>2. s \in Nat /\ s <= Stack /\ s + 2 = Stack /\ Stack - s = 2
  BY Bounds
<1>3. Holds(mem, s, HaltAtPc)
  BY <1>2, PutHolds
<1> HIDE DEF mem, s
<1>4. Replayer => to \in EarlyPcs /\ to \in ReplayerPcs /\ to # LdSpPc
  BY DEF EarlyPcs, ReplayerPcs, LdSpPc
<1>5. ~Replayer => to \in FilePoints
  BY PointsApart, Bounds
<1>6. to # HaltAtPc /\ to \notin HandlerPcs /\ to \in Nat
  <2>1. CASE Replayer
    <3>1. to \notin HandlerPcs
      BY <2>1 DEF HandlerPcs
    <3> QED  BY <1>4, <2>1, <3>1, PointsApart
  <2>2. CASE ~Replayer
    BY <1>5, <2>2, PointsApart
  <2> QED  BY <2>1, <2>2
<1>7. /\ fr \in Seq(Routine) /\ Len(fr) = 1 /\ fr # <<>>
      /\ fr[1].ret = HaltAtPc /\ fr[1].to = to /\ fr[1].sp = Stack /\ fr[1].pushed = 0
  <2> DEFINE e == [ret |-> HaltAtPc, to |-> to, sp |-> Stack, pushed |-> 0]
  <2>1. e \in Routine /\ e.ret = HaltAtPc /\ e.to = to /\ e.sp = Stack /\ e.pushed = 0
    BY <1>6, Bounds DEF Routine, HaltAtPc
  <2>2. fr = <<e>>
    BY DEF Outermost
  <2> HIDE DEF e
  <2>3. <<e>> \in Seq(Routine) /\ Len(<<e>>) = 1 /\ <<e>> # <<>> /\ <<e>>[1] = e
    BY <2>1
  <2> HIDE DEF fr
  <2> QED  BY <2>1, <2>2, <2>3
<1> HIDE DEF fr
<1>8. HaltAtPc \notin RstPcs
  BY DEF HaltAtPc, RstPcs
<1>9. to \notin {64, 80}
  BY <1>6 DEF HandlerPcs
<1>10. Entered(fr)
  <2>1. Stack <= Stack
    BY Bounds
  <2>2. \A i \in 1 .. Len(fr) : i = 1
    BY <1>7
  <2>3. ~(Len(fr) > 1)
    BY <1>7
  <2>4. Replayer => fr[1].to = 256
    BY <1>7
  <2> QED  BY <1>7, <1>8, <1>9, <2>1, <2>2, <2>3, <2>4 DEF Entered
<1>11. Inside(fr, to, s, FALSE)
  <2>1. Stands(1, fr[1], to)
    BY <1>4, <1>5, <1>6, <1>7, PointsApart DEF Stands
  <2>2. Stack - s < Room(to)
    <3>1. Room(to) = 2 * MaxWords + 6
      BY <1>6 DEF Room
    <3> QED  BY <1>2, <3>1, FewWords
  <2> QED  BY <1>2, <1>4, <1>6, <1>7, <2>1, <2>2 DEF Inside, s
<1>12. InTurn(fr, to, FALSE, FALSE)
  BY <1>6, <1>7, <1>9 DEF InTurn
<1>13. Stacked(First, fr, s, mem)
  <2>1. CASE Replayer
    <3>1. First .. Len(fr) = {}
      BY <1>7, <2>1 DEF First
    <3> QED  BY <3>1 DEF Stacked
  <2>2. CASE ~Replayer
    <3>1. First .. Len(fr) = {1} /\ 1 + 1 .. Len(fr) = {}
      BY <1>7, <2>2 DEF First
    <3>2. fr[1].sp - 2 - 2 * fr[1].pushed = s
      BY <1>2, <1>7, Bounds DEF s
    <3>3. fr[1].sp - 2 = s
      BY <1>7 DEF s
    <3> QED  BY <1>2, <1>3, <1>7, <3>1, <3>2, <3>3 DEF Stacked
  <2> QED  BY <2>1, <2>2
<1> QED  BY <1>1, <1>4, <1>6, <1>10, <1>11, <1>12, <1>13, ZenonT(30) DEF InOrderInv, fr

LEMMA StartKeepsInv ==
  ASSUME RoutinesInv, StartSubsong
  PROVE  RoutinesInv'
<1> DEFINE to == IF Replayer THEN 256 ELSE InitAddr
<1>1. /\ pc' = to /\ sp' = Begin(Replayer).sp /\ ram' = Begin(Replayer).ram
      /\ ime' = FALSE /\ frames' = Outermost(to) /\ willing' = FALSE /\ rom' = rom
  BY DEF StartSubsong, Begin, Started
<1> HIDE DEF to
<1>2. /\ InOrderInv(Outermost(to), to, Begin(Replayer).sp, Begin(Replayer).ram, FALSE, FALSE)
      /\ to # HaltAtPc /\ (Replayer => to # LdSpPc)
  BY StartedInOrder DEF to
<1>3. InOrderInv(frames', pc', sp', ram', ime', willing')
  BY <1>1, <1>2
<1> QED  BY <1>1, <1>2, <1>3, NewInv DEF RoutinesInv

LEMMA InitIsInOrder ==
  ASSUME RoutinesInit
  PROVE  RoutinesInv
<1> DEFINE to == IF Replayer THEN 256 ELSE InitAddr
<1>1. /\ pc = to /\ sp = Begin(Replayer).sp /\ ram = Begin(Replayer).ram
      /\ ime = FALSE /\ frames = Outermost(to) /\ willing = FALSE
      /\ \E h \in Handlers : rom = RomOf(h)
  BY DEF RoutinesInit, Begin, Started
<1> HIDE DEF to
<1>2. /\ InOrderInv(Outermost(to), to, Begin(Replayer).sp, Begin(Replayer).ram, FALSE, FALSE)
      /\ to # HaltAtPc /\ (Replayer => to # LdSpPc)
  BY StartedInOrder DEF to
<1>3. InOrderInv(frames, pc, sp, ram, ime, willing)
  BY <1>1, <1>2
<1> QED  BY <1>1, <1>2, <1>3 DEF RoutinesInv

LEMMA StepKeepsInv ==
  ASSUME RoutinesInv, [RoutinesNext]_routineVars
  PROVE  /\ RoutinesInv'
         /\ Len(frames') < Len(frames) /\ ~StartSubsong => pc' = Inner.ret /\ sp' = Inner.sp
<1>0. Len(frames) \in Nat /\ InOrderInv(frames, pc, sp, ram, ime, willing)
  BY InvFacts
<1>1. CASE KnownCode
  BY <1>1, KnownKeepsInv
<1>2. CASE FileCode
  BY <1>2, FileKeepsInv
<1>3. CASE TakeInterrupt
  <2>1. RoutinesInv' /\ Len(frames') >= Len(frames)
    BY <1>3, InterruptKeepsInv
  <2>2. frames' \in Seq(Routine)
    BY <2>1 DEF RoutinesInv, InOrderInv, Entered
  <2>3. Len(frames') \in Nat
    BY <2>2
  <2> QED  BY <1>0, <2>1, <2>3
<1>4. CASE StartSubsong
  BY <1>4, StartKeepsInv
<1>5. CASE RequestInterrupt \/ UNCHANGED routineVars
  <2>1. /\ pc' = pc /\ sp' = sp /\ ram' = ram /\ ime' = ime /\ hl' = hl /\ halted' = halted
        /\ frames' = frames /\ willing' = willing /\ rom' = rom
    BY <1>5 DEF RequestInterrupt, Request, routineVars, cpuVars, data
  <2>2. InOrderInv(frames', pc', sp', ram', ime', willing')
    BY <1>0, <2>1
  <2>3. RoutinesInv'
    BY <2>1, <2>2, NewInv DEF RoutinesInv
  <2> QED  BY <1>0, <2>1, <2>3
<1> QED  BY <1>1, <1>2, <1>3, <1>4, <1>5 DEF RoutinesNext

-----------------------------------------------------------------------------
(***************************************************************************)
(* The theorems.                                                           *)
(***************************************************************************)

\* Whatever code a file has that keeps its own stack in order, each routine finds on
\* the stack, below what it has pushed, the address it is to return to.
THEOREM StackInOrder == RoutinesSpec => []RoutinesInv
<1>1. RoutinesInit => RoutinesInv
  BY InitIsInOrder
<1>2. RoutinesInv /\ [RoutinesNext]_routineVars => RoutinesInv'
  BY StepKeepsInv
<1> QED  BY <1>1, <1>2, PTL DEF RoutinesSpec

\* Calls and interrupts may nest in any way: each return leads to where its own
\* call or interrupt came from.
THEOREM ReturnsLeadBack == RoutinesSpec => ReturnsToCaller
<1>1. RoutinesInv /\ [RoutinesNext]_routineVars =>
        [ Len(frames') < Len(frames) /\ ~StartSubsong =>
            pc' = Inner.ret /\ sp' = Inner.sp ]_routineVars
  BY StepKeepsInv
<1> QED  BY <1>1, StackInOrder, PTL DEF RoutinesSpec, ReturnsToCaller

\* When the outermost routine has returned, the CPU is ready for the next frame,
\* whatever the routines have done to the interrupts.
THEOREM IdleAwaitsFrame == RoutinesSpec => []IdleIsReady
<1>1. RoutinesInv => IdleIsReady
  <2> SUFFICES ASSUME RoutinesInv, pc = HaltAtPc
               PROVE  halted /\ ime /\ sp = Stack /\ frames = <<>>
    BY DEF IdleIsReady
  <2>1. halted
    BY DEF RoutinesInv
  <2>2. Inside(frames, pc, sp, ime)
    BY DEF RoutinesInv, InOrderInv
  <2>3. frames = <<>>
    BY <2>2, PointsApart DEF Inside, Stands
  <2> QED  BY <2>1, <2>2, <2>3 DEF Inside
<1> QED  BY <1>1, StackInOrder, PTL

LEMMA AtMostOne ==
  ASSUME NEW S, \A i, j \in S : i = j
  PROVE  Cardinality(S) <= 1
<1>1. CASE S = {}
  BY <1>1, FS_EmptySet
<1>2. CASE S # {}
  <2>1. PICK i : i \in S
    BY <1>2
  <2>2. S = {i}
    BY <2>1
  <2>3. Cardinality({i}) = 1
    BY FS_Singleton
  <2>4. Cardinality(S) = 1
    BY <2>2, <2>3
  <2> QED  BY <2>4
<1> QED  BY <1>1, <1>2

\* Who has been called from outside of the file's code, with interrupts left alone:
\* the outermost routine, or what its handler has called.
LEMMA OutsideIs ==
  ASSUME RoutinesInv, ~willing, NEW addr \in Code, NEW i \in FromOutside(addr)
  PROVE  IF Replayer \/ frames[1].to \in {64, 80} THEN i = 2 ELSE i = 1
<1>1. RomKnown /\ Entered(frames) /\ InTurn(frames, pc, ime, willing) /\ frames \in Seq(Routine)
      /\ Len(frames) \in Nat
  BY InvFacts DEF InOrderInv
<1>2. i \in 1 .. Len(frames) /\ frames[i].to = addr /\ frames[i].ret \in DOMAIN rom \cup {HaltAtPc}
  <2>1. i \in DOMAIN frames /\ frames[i].to = addr /\ frames[i].ret \in DOMAIN rom \cup {HaltAtPc}
    BY DEF FromOutside
  <2> QED  BY <1>1, <2>1
<1>3. addr \notin {64, 80} /\ (Replayer => addr # 256)
  <2>1. addr \notin {64, 80}
    BY Bounds
  <2>2. ASSUME Replayer PROVE addr # 256
    <3>1. LoadAddr >= 365
      BY <1>1, <2>2 DEF RomKnown
    <3> QED  BY <3>1, Bounds
  <2> QED  BY <2>1, <2>2
<1>4. CASE i = 1
  BY <1>1, <1>2, <1>3, <1>4 DEF Entered
<1>5. CASE i # 1
  <2>1. Stands(i - 1, frames[i - 1], frames[i].ret) /\ frames[i].ret \notin RstPcs
    BY <1>1, <1>2, <1>3, <1>5 DEF Entered
  <2>2. frames[i].ret \in DOMAIN rom
    BY <1>2, <2>1, PointsApart DEF Stands
  <2>3. frames[i].ret \notin FilePoints
    <3>1. frames[i].ret \in Nat /\ frames[i].ret < LoadAddr
      BY <1>1, <2>2 DEF RomKnown
    <3> QED  BY <3>1, Bounds DEF FilePoints
  <2>4. i - 1 \in 1 .. Len(frames) /\ (i - 1 = 1 => i = 2)
    BY <1>1, <1>2, <1>5
  <2>5. frames[i].ret \in HandlerPcs => i - 1 = 1 /\ frames[1].to \in {64, 80}
    BY <1>1, <2>1, <2>4 DEF Stands, InTurn
  <2>6. frames[i].ret \notin HandlerPcs => Replayer /\ i - 1 = 1
    BY <2>1, <2>3 DEF Stands
  <2> QED  BY <2>4, <2>5, <2>6
<1> QED  BY <1>4, <1>5

\* As long as the file's code does not turn on interrupts itself, no interrupt calls
\* play while init or play runs.
THEOREM PlayTakesItsTurn == RoutinesSpec => []PlayInTurn
<1>1. RoutinesInv => PlayInTurn
  <2> SUFFICES ASSUME RoutinesInv, ~willing
               PROVE  Cardinality(FromOutside(InitAddr) \cup FromOutside(PlayAddr)) <= 1
    BY DEF PlayInTurn
  <2>1. InTurn(frames, pc, ime, willing) /\ frames \in Seq(Routine)
    BY InvFacts DEF InOrderInv
  <2>2. ASSUME NEW i \in FromOutside(InitAddr) \cup FromOutside(PlayAddr),
               NEW j \in FromOutside(InitAddr) \cup FromOutside(PlayAddr)
        PROVE  i = j
    <3>1. InitAddr \in Code /\ PlayAddr \in Code
      BY Bounds
    <3>2. IF Replayer \/ frames[1].to \in {64, 80} THEN i = 2 ELSE i = 1
      BY <3>1, OutsideIs
    <3>3. IF Replayer \/ frames[1].to \in {64, 80} THEN j = 2 ELSE j = 1
      BY <3>1, OutsideIs
    <3> QED  BY <3>2, <3>3
  <2> QED  BY <2>2, AtMostOne
<1> QED  BY <1>1, StackInOrder, PTL

\* The cartridge of gbs_add_rom_replayer is CartridgeIsReady's opposite: unless the
\* file's own code turns on interrupts, they stay off and no handler ever runs, so
\* that play is never called.
CartridgeIsSilent ==
  Replayer /\ ~willing => ~ime /\ \A i \in DOMAIN frames : frames[i].to \notin {64, 80}

THEOREM CartridgeNeverPlays == RoutinesSpec => []CartridgeIsSilent
<1>1. RoutinesInv => CartridgeIsSilent
  <2> SUFFICES ASSUME RoutinesInv, Replayer, ~willing
               PROVE  ~ime /\ \A i \in DOMAIN frames : frames[i].to \notin {64, 80}
    BY DEF CartridgeIsSilent
  <2>1. InTurn(frames, pc, ime, willing) /\ frames \in Seq(Routine)
    BY InvFacts DEF InOrderInv
  <2>2. pc # HaltAtPc
    BY InvFacts, PointsApart DEF Stands
  <2> QED  BY <2>1, <2>2 DEF InTurn
<1> QED  BY <1>1, StackInOrder, PTL
=============================================================================
