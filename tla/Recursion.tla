------------------------------ MODULE Recursion ------------------------------
(***************************************************************************)
(* Induction over the natural numbers, the functions it defines, and loops *)
(* over sequences; and division, of a number into parts of equal size.  The *)
(* proofs about recursive functions of the model rest on these lemmas.     *)
(***************************************************************************)
EXTENDS Integers, Accumulation, WellFoundedInduction, TLAPS

\* Every set of numbers that is not empty has a smallest one.
LEMMA Smallest ==
  ASSUME NEW T \in SUBSET Nat, T # {}
  PROVE  \E x \in T : \A y \in T : x <= y
<1> DEFINE R == OpToRel(<, Nat)
<1>1. IsWellFoundedOn(R, Nat)
  BY NatLessThanWellFounded
<1>2. \A y, x \in Nat : y < x => <<y, x>> \in R
  BY DEF OpToRel
<1> HIDE DEF R
<1>3. PICK x \in T : \A y \in T : ~ (<<y, x>> \in R)
  BY <1>1, WFMin
<1>4. ASSUME NEW y \in T PROVE x <= y
  <2>1. x \in Nat /\ y \in Nat
    OBVIOUS
  <2>2. ~(<<y, x>> \in R)
    BY <1>3
  <2>3. ~(y < x)
    BY <1>2, <2>1, <2>2
  <2> QED  BY <2>1, <2>3
<1> QED  BY <1>4

\* Induction, stated of a set: which numbers have a property is a set.
LEMMA Induction ==
  ASSUME NEW T, 0 \in T, \A n \in Nat : n \in T => n + 1 \in T
  PROVE  \A n \in Nat : n \in T
<1> SUFFICES ASSUME Nat \ T # {} PROVE FALSE
  OBVIOUS
<1>1. PICK x \in Nat \ T : \A y \in Nat \ T : x <= y
  BY Smallest
<1>2. x # 0 /\ x - 1 \in Nat /\ x - 1 + 1 = x
  BY <1>1
<1>3. x - 1 \in T
  BY <1>1, <1>2
<1> QED  BY <1>1, <1>2, <1>3

\* What a function on the numbers has to do to begin with base and go on by step.
Recurs(f, S, base, step) ==
  /\ f \in [Nat -> S]
  /\ f[0] = base
  /\ \A n \in Nat : f[n + 1] = step[<<n, f[n]>>]

\* There is one for any base and step.
LEMMA PrimitiveRecursion ==
  ASSUME NEW S, NEW base \in S, NEW step \in [Nat \X S -> S]
  PROVE  \E f : Recurs(f, S, base, step)
<1> DEFINE Upto(n) == { f \in [0 .. n -> S] :
             f[0] = base /\ \A i \in 0 .. n - 1 : f[i + 1] = step[<<i, f[i]>>] }
           T == {n \in Nat : \E f \in Upto(n) : TRUE}
<1>1. \A n \in Nat : n \in T
  <2>1. 0 \in T
    <3>1. [i \in 0 .. 0 |-> base] \in Upto(0)
      OBVIOUS
    <3> QED  BY <3>1
  <2>2. ASSUME NEW n \in Nat, n \in T PROVE n + 1 \in T
    <3>1. PICK f \in Upto(n) : TRUE
      BY <2>2
    <3> DEFINE g == [i \in 0 .. n + 1 |->
                       IF i <= n THEN f[i] ELSE step[<<n, f[n]>>]]
    <3>2. f[n] \in S /\ step[<<n, f[n]>>] \in S
      OBVIOUS
    <3>3. g \in [0 .. n + 1 -> S]
      BY <3>2
    <3>4. g[0] = base
      OBVIOUS
    <3>5. ASSUME NEW i \in 0 .. n + 1 - 1 PROVE g[i + 1] = step[<<i, g[i]>>]
      <4>1. CASE i < n
        <5>1. i \in 0 .. n - 1 /\ i + 1 \in 0 .. n + 1 /\ i + 1 <= n /\ i \in 0 .. n + 1 /\ i <= n
          BY <4>1
        <5> QED  BY <5>1
      <4>2. CASE i = n
        <5>1. i + 1 \in 0 .. n + 1 /\ ~(i + 1 <= n) /\ i \in 0 .. n + 1 /\ i <= n
          BY <4>2
        <5> QED  BY <4>2, <5>1
      <4> QED  BY <4>1, <4>2
    <3> HIDE DEF g
    <3>6. g \in Upto(n + 1)
      BY <3>3, <3>4, <3>5
    <3> HIDE DEF Upto
    <3> QED  BY <3>6
  <2> HIDE DEF T
  <2> QED  BY <2>1, <2>2, Induction
<1>2. ASSUME NEW n \in Nat, NEW m \in Nat, n <= m,
             NEW f \in Upto(n), NEW g \in Upto(m)
      PROVE  f[n] = g[n]
  <2> DEFINE V == {i \in Nat : i <= n => f[i] = g[i]}
  <2>1. 0 \in V
    OBVIOUS
  <2>2. ASSUME NEW i \in Nat, i \in V PROVE i + 1 \in V
    <3> SUFFICES ASSUME i + 1 <= n PROVE f[i + 1] = g[i + 1]
      OBVIOUS
    <3>1. i \in 0 .. n - 1 /\ i \in 0 .. m - 1 /\ f[i] = g[i]
      BY <1>2, <2>2
    <3> QED  BY <3>1
  <2>3. \A i \in Nat : i \in V
    <3> HIDE DEF V
    <3> QED  BY <2>1, <2>2, Induction
  <2> QED  BY <2>3
<1> DEFINE h == [n \in Nat |-> (CHOOSE f \in Upto(n) : TRUE)[n]]
<1>3. ASSUME NEW n \in Nat PROVE \E f \in Upto(n) : h[n] = f[n]
  <2> DEFINE f == CHOOSE f \in Upto(n) : TRUE
  <2>1. f \in Upto(n)
    BY <1>1
  <2>2. h[n] = f[n]
    OBVIOUS
  <2> QED  BY <2>1, <2>2
<1> HIDE DEF h, T
<1>4. \A n \in Nat : h[n] \in S
  BY <1>3
<1>5. h[0] = base
  BY <1>3
<1>6. ASSUME NEW n \in Nat PROVE h[n + 1] = step[<<n, h[n]>>]
  <2>0. n + 1 \in Nat /\ n <= n + 1 /\ n \in 0 .. n + 1 - 1
    OBVIOUS
  <2>1. PICK f \in Upto(n) : h[n] = f[n]
    BY <1>3
  <2>2. PICK g \in Upto(n + 1) : h[n + 1] = g[n + 1]
    BY <1>3, <2>0
  <2>3. f[n] = g[n]
    <3> HIDE DEF Upto
    <3> QED  BY <1>2, <2>0
  <2>4. g[n + 1] = step[<<n, g[n]>>]
    BY <2>0
  <2> QED  BY <2>1, <2>2, <2>3, <2>4
<1>7. h \in [Nat -> S]
  BY <1>4 DEF h
<1> QED  BY <1>5, <1>6, <1>7 DEF Recurs

-----------------------------------------------------------------------------
\* The values that the loop goes through.
Through(f, step, base, w) ==
  f = [i \in 0 .. Len(w) |-> IF i = 0 THEN base ELSE step[<<f[i - 1], w[i]>>]]

LEMMA ThroughExists ==
  ASSUME NEW S, NEW E, NEW base \in S, NEW step \in [S \X E -> S], NEW w \in Seq(E)
  PROVE  \E f : Through(f, step, base, w)
<1> DEFINE next == [p \in Nat \X S |->
                     IF p[1] < Len(w) THEN step[<<p[2], w[p[1] + 1]>>] ELSE p[2]]
<1>1. next \in [Nat \X S -> S]
  <2>1. ASSUME NEW n \in Nat, NEW s \in S, n < Len(w) PROVE step[<<s, w[n + 1]>>] \in S
    BY <2>1
  <2> QED  BY <2>1
<1>2. PICK g : Recurs(g, S, base, next)
  <2> HIDE DEF next
  <2> QED  BY <1>1, PrimitiveRecursion
<1> DEFINE f == [i \in 0 .. Len(w) |-> g[i]]
<1>3. ASSUME NEW i \in 0 .. Len(w), i # 0 PROVE f[i] = step[<<f[i - 1], w[i]>>]
  <2>1. PICK k \in Nat : k + 1 = i /\ k = i - 1 /\ k < Len(w) /\ k \in 0 .. Len(w)
    BY <1>3
  <2>2. g[k + 1] = next[<<k, g[k]>>] /\ g[k] \in S
    <3> HIDE DEF next
    <3> QED  BY <1>2 DEF Recurs
  <2>3. next[<<k, g[k]>>] = step[<<g[k], w[k + 1]>>]
    BY <2>1, <2>2
  <2>4. f[i] = g[i] /\ f[i - 1] = g[k]
    BY <2>1
  <2> HIDE DEF next, f
  <2> QED  BY <2>1, <2>2, <2>3, <2>4
<1>4. f[0] = base
  BY <1>2 DEF Recurs
<1>5. f = [i \in 0 .. Len(w) |-> IF i = 0 THEN base ELSE step[<<f[i - 1], w[i]>>]]
  BY <1>3, <1>4
<1> HIDE DEF f
<1> QED  BY <1>5 DEF Through

Reached(step, base, w) ==
  \E f : Through(f, step, base, w) /\ Accumulated(step, base, w) = f[Len(w)]

LEMMA AccumulatedThrough ==
  ASSUME NEW S, NEW E, NEW base \in S, NEW step \in [S \X E -> S], NEW w \in Seq(E)
  PROVE  Reached(step, base, w)
<1> DEFINE f == CHOOSE f : f = [i \in 0 .. Len(w) |->
                                  IF i = 0 THEN base ELSE step[<<f[i - 1], w[i]>>]]
<1>1. Through(f, step, base, w)
  <2>1. \E g : Through(g, step, base, w)
    BY ThroughExists
  <2> QED  BY <2>1 DEF Through
<1>2. Accumulated(step, base, w) = f[Len(w)]
  BY DEF Accumulated
<1> HIDE DEF f
<1> QED  BY <1>1, <1>2 DEF Reached

\* Two loops over sequences of which one begins with the other.
LEMMA ThroughPrefix ==
  ASSUME NEW S, NEW E, NEW base \in S, NEW step \in [S \X E -> S],
         NEW v \in Seq(E), NEW w \in Seq(E), Len(v) <= Len(w),
         \A i \in 1 .. Len(v) : v[i] = w[i],
         NEW f, Through(f, step, base, v), NEW g, Through(g, step, base, w)
  PROVE  \A i \in 0 .. Len(v) : f[i] = g[i] /\ f[i] \in S
<1> DEFINE T == {i \in Nat : i <= Len(v) => f[i] = g[i] /\ f[i] \in S}
<1>0. Len(v) \in Nat /\ Len(w) \in Nat
  OBVIOUS
<1>1. 0 \in T
  BY <1>0 DEF Through
<1>2. ASSUME NEW i \in Nat, i \in T PROVE i + 1 \in T
  <2> SUFFICES ASSUME i + 1 <= Len(v) PROVE f[i + 1] = g[i + 1] /\ f[i + 1] \in S
    OBVIOUS
  <2>1. /\ i + 1 \in 0 .. Len(v) /\ i + 1 \in 0 .. Len(w) /\ i + 1 # 0
        /\ i + 1 - 1 = i /\ i + 1 \in 1 .. Len(v)
    BY <1>0
  <2>2. f[i + 1] = step[<<f[i], v[i + 1]>>] /\ g[i + 1] = step[<<g[i], w[i + 1]>>]
    BY <2>1, SMTT(30) DEF Through
  <2>3. f[i] = g[i] /\ f[i] \in S /\ v[i + 1] = w[i + 1] /\ v[i + 1] \in E
    BY <1>2, <2>1
  <2> QED  BY <2>2, <2>3
<1> HIDE DEF T
<1>3. \A i \in Nat : i \in T
  BY <1>1, <1>2, Induction
<1> QED  BY <1>0, <1>3 DEF T

\* A loop over nothing, and over one element more.
LEMMA AccumulatedEmpty ==
  ASSUME NEW S, NEW E, NEW base \in S, NEW step \in [S \X E -> S]
  PROVE  Accumulated(step, base, <<>>) = base
<1>1. <<>> \in Seq(E) /\ Len(<<>>) = 0
  OBVIOUS
<1>2. PICK f : Through(f, step, base, <<>>) /\ Accumulated(step, base, <<>>) = f[0]
  <2>1. Reached(step, base, <<>>)
    BY <1>1, AccumulatedThrough
  <2> QED  BY <1>1, <2>1 DEF Reached
<1> QED  BY <1>1, <1>2 DEF Through

OneMore(step, base, w, e) ==
  Accumulated(step, base, Append(w, e)) = step[<<Accumulated(step, base, w), e>>]

LEMMA AccumulatedAppend ==
  ASSUME NEW S, NEW E, NEW base \in S, NEW step \in [S \X E -> S],
         NEW w \in Seq(E), NEW e \in E
  PROVE  Accumulated(step, base, w) \in S /\ OneMore(step, base, w, e)
<1> DEFINE v == Append(w, e)
<1>1. /\ v \in Seq(E) /\ Len(w) \in Nat /\ Len(v) = Len(w) + 1 /\ v[Len(v)] = e
      /\ \A i \in 1 .. Len(w) : w[i] = v[i]
  OBVIOUS
<1> HIDE DEF v
<1>2. PICK f : Through(f, step, base, w) /\ Accumulated(step, base, w) = f[Len(w)]
  <2>1. Reached(step, base, w)
    BY AccumulatedThrough
  <2> QED  BY <2>1 DEF Reached
<1>3. PICK g : Through(g, step, base, v) /\ Accumulated(step, base, v) = g[Len(v)]
  <2>1. Reached(step, base, v)
    BY <1>1, AccumulatedThrough
  <2> QED  BY <2>1 DEF Reached
<1>4. \A i \in 0 .. Len(w) : f[i] = g[i] /\ f[i] \in S
  <2>1. Len(w) <= Len(v)
    BY <1>1
  <2> QED  BY <1>1, <1>2, <1>3, <2>1, ThroughPrefix
<1>5. Len(v) \in 0 .. Len(v) /\ Len(v) # 0 /\ Len(v) - 1 = Len(w) /\ Len(w) \in 0 .. Len(w)
  BY <1>1
<1>6. g[Len(v)] = step[<<g[Len(w)], e>>]
  BY <1>1, <1>3, <1>5 DEF Through
<1> QED  BY <1>2, <1>3, <1>4, <1>5, <1>6 DEF v, OneMore

\* The value of a loop whose intermediate values are known.
Follows(g, step, base, w) ==
  g[0] = base /\ \A i \in 1 .. Len(w) : g[i] = step[<<g[i - 1], w[i]>>]
ComesTo(step, base, w, result) == Accumulated(step, base, w) = result

LEMMA AccumulatedBy ==
  ASSUME NEW S, NEW E, NEW base \in S, NEW step \in [S \X E -> S], NEW w \in Seq(E),
         NEW g \in [0 .. Len(w) -> S], Follows(g, step, base, w)
  PROVE  ComesTo(step, base, w, g[Len(w)])
<1>1. Len(w) \in Nat /\ Len(w) \in 0 .. Len(w)
  OBVIOUS
<1>2. PICK f : Through(f, step, base, w) /\ Accumulated(step, base, w) = f[Len(w)]
  <2>1. Reached(step, base, w)
    BY AccumulatedThrough
  <2> QED  BY <2>1 DEF Reached
<1> DEFINE T == {i \in Nat : i <= Len(w) => f[i] = g[i]}
<1>3. 0 \in T
  BY <1>1, <1>2 DEF Through, Follows
<1>4. ASSUME NEW i \in Nat, i \in T PROVE i + 1 \in T
  <2> SUFFICES ASSUME i + 1 <= Len(w) PROVE f[i + 1] = g[i + 1]
    OBVIOUS
  <2>1. i + 1 \in 0 .. Len(w) /\ i + 1 # 0 /\ i + 1 - 1 = i /\ i + 1 \in 1 .. Len(w)
    BY <1>1
  <2>2. f[i + 1] = step[<<f[i], w[i + 1]>>] /\ g[i + 1] = step[<<g[i], w[i + 1]>>]
    BY <1>2, <2>1 DEF Through, Follows
  <2>3. i <= Len(w)
    BY <1>1
  <2>4. f[i] = g[i]
    BY <1>4, <2>3
  <2> QED  BY <2>2, <2>4
<1> HIDE DEF T
<1>5. \A i \in Nat : i \in T
  BY <1>3, <1>4, Induction
<1> QED  BY <1>1, <1>2, <1>5 DEF ComesTo, T

-----------------------------------------------------------------------------
LEMMA Division ==
  ASSUME NEW a \in Nat, NEW b \in Nat \ {0}
  PROVE  /\ a \div b \in Nat /\ a % b \in Nat /\ a % b < b
         /\ a = b * (a \div b) + (a % b)
OBVIOUS

LEMMA QuotientIs ==
  ASSUME NEW a \in Nat, NEW b \in Nat \ {0}, NEW q \in Int, NEW r \in Nat, r < b,
         a = b * q + r
  PROVE  a \div b = q
<1> DEFINE q1 == a \div b
           r1 == a % b
<1>1. q1 \in Nat /\ r1 \in Nat /\ r1 < b /\ a = b * q1 + r1
  BY Division
<1> HIDE DEF q1, r1
<1>2. b * q1 \in Int /\ b * q \in Int /\ b * q1 - b * q = r - r1
  BY <1>1
<1>3. ASSUME q1 > q PROVE FALSE
  <2>1. q1 = q + (q1 - q) /\ q1 - q \in Nat /\ q1 - q >= 1
    BY <1>1, <1>3
  <2>2. b * q1 = b * q + b * (q1 - q) /\ b * (q1 - q) >= b
    BY <1>1, <2>1
  <2> QED  BY <1>1, <1>2, <2>2
<1>4. ASSUME q1 < q PROVE FALSE
  <2>1. q = q1 + (q - q1) /\ q - q1 \in Nat /\ q - q1 >= 1
    BY <1>1, <1>4
  <2>2. b * q = b * q1 + b * (q - q1) /\ b * (q - q1) >= b
    BY <1>1, <2>1
  <2> QED  BY <1>1, <1>2, <2>2
<1>5. q1 = q
  BY <1>1, <1>3, <1>4
<1> QED  BY <1>5 DEF q1

\* A number in parts of a size, and what is left of it in the last one.
Part(max, n, i) == IF i * max <= n THEN max ELSE n % max
Upto(max, n, i) == IF i * max <= n THEN i * max ELSE n

LEMMA PartsAddUp ==
  ASSUME NEW max \in Nat \ {0}, NEW n \in Nat
  PROVE  LET l == (n + max - 1) \div max
         IN  /\ l \in Nat /\ Upto(max, n, 0) = 0 /\ Upto(max, n, l) = n
             /\ \A i \in 0 .. l : Upto(max, n, i) \in Nat
             /\ \A i \in 1 .. l : /\ Part(max, n, i) \in 1 .. max
                                  /\ Upto(max, n, i) = Upto(max, n, i - 1) + Part(max, n, i)
<1> DEFINE l == (n + max - 1) \div max
<1>1. l \in Nat /\ l * max <= n + max - 1 /\ n <= l * max /\ l * max \in Nat
  <2>1. n + max - 1 \in Nat
    OBVIOUS
  <2> DEFINE r == (n + max - 1) % max
  <2>2. l \in Nat /\ r \in Nat /\ r < max /\ n + max - 1 = max * l + r
    BY <2>1, Division
  <2> HIDE DEF l, r
  <2>3. max * l = l * max /\ l * max \in Nat
    BY <2>2
  <2> QED  BY <2>2, <2>3
<1> HIDE DEF l
<1>2. ASSUME NEW i \in 1 .. l
      PROVE  /\ Part(max, n, i) \in 1 .. max
             /\ Upto(max, n, i) = Upto(max, n, i - 1) + Part(max, n, i)
  <2> DEFINE a == (i - 1) * max
  <2>1. i * max = a + max /\ a \in Nat
    BY <1>1
  <2>2. i * max <= l * max
    <3>1. l = i + (l - i) /\ l - i \in Nat
      BY <1>1
    <3>2. l * max = i * max + (l - i) * max /\ (l - i) * max \in Nat
      BY <1>1, <3>1
    <3> QED  BY <1>1, <3>2
  <2>3. a < n
    BY <1>1, <2>1, <2>2
  <2>4. Upto(max, n, i - 1) = a /\ Upto(max, n, i) = IF a + max <= n THEN a + max ELSE n
    BY <2>1, <2>3 DEF Upto
  <2>5. Part(max, n, i) = IF a + max <= n THEN max ELSE n % max
    BY <2>1 DEF Part
  <2>6. ASSUME ~ (a + max <= n) PROVE n % max = n - a
    <3>1. n - a \in Nat /\ n - a < max /\ n = max * (i - 1) + (n - a)
      BY <2>1, <2>3, <2>6
    <3>2. n \div max = i - 1
      BY <3>1, QuotientIs
    <3>3. n = max * (n \div max) + (n % max) /\ n % max \in Nat
      BY Division
    <3>4. max * (i - 1) = a
      BY <2>1
    <3> HIDE DEF a
    <3> QED  BY <2>1, <3>1, <3>2, <3>3, <3>4
  <2> HIDE DEF a
  <2> QED  BY <2>1, <2>3, <2>4, <2>5, <2>6
<1>3. Upto(max, n, 0) = 0 /\ Upto(max, n, l) = n
  BY <1>1 DEF Upto
<1>4. \A i \in 0 .. l : Upto(max, n, i) \in Nat
  <2>1. \A i \in 0 .. l : i * max \in Nat
    BY <1>1
  <2> QED  BY <2>1 DEF Upto
<1> QED  BY <1>1, <1>2, <1>3, <1>4 DEF l
=============================================================================
