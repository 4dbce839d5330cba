------------------------------ MODULE CpuProofs ------------------------------
(***************************************************************************)
(* Proofs about the other programs of MCCpu: that arithmetic is exact, and *)
(* that the code made of a recording does its writes in order and on time, *)
(* for recordings, banks and delays of any length.                         *)
(***************************************************************************)
EXTENDS RoutineProofs, MCCpu, Recursion

-----------------------------------------------------------------------------
(***************************************************************************)
(* The layout of the code.                                                 *)
(***************************************************************************)
\* The offset of a bank in the code.
Base(b) == (b - 1) * BankSize
Due(samples) == (samples * 41943) \div 441

\* Where the code may be entered, or left: in which bank that is, after how many
\* writes, and after how many cycles of delays.
Entry == [bank: Nat \ {0}, nth: Nat, clk: Nat]
InPlace(e, p) == e \in Entry /\ Base(e.bank) <= p /\ p < Base(e.bank + 1)

DelayAt(at, code, p) ==
  /\ code[p + 1] = \hCF
  /\ p + 3 \in DOMAIN at
  /\ at[p + 3] = [at[p] EXCEPT !.clk = @ + 64 * (code[p + 2] + 256 * code[p + 3] + 1)]
WriteAt(at, code, writes, p) ==
  /\ code[p + 1] = \h3E /\ code[p + 3] = \hE0
  /\ p + 4 \in DOMAIN at
  /\ at[p].nth < Len(writes)
  /\ LET write == writes[at[p].nth + 1]
     IN  /\ code[p + 2] = write.val /\ code[p + 4] = 16 + write.reg
         /\ at[p].clk - Due(write.at) \in -32 .. 31
  /\ at[p + 4] = [at[p] EXCEPT !.nth = @ + 1]
BankEndAt(at, code, p) ==
  /\ code[p + 1] = \hC9
  /\ Base(at[p].bank + 1) \in DOMAIN at
  /\ at[Base(at[p].bank + 1)] = [at[p] EXCEPT !.bank = @ + 1]
Unit(at, code, writes, p) ==
  DelayAt(at, code, p) \/ WriteAt(at, code, writes, p) \/ BankEndAt(at, code, p)

Layout(at, code, writes, stop) ==
  /\ stop \in Nat /\ DOMAIN at \subseteq 0 .. stop /\ {0, stop} \subseteq DOMAIN at
  /\ at[0] = [bank |-> 1, nth |-> 0, clk |-> 0]
  /\ at[stop].nth = Len(writes)
  /\ \A p \in DOMAIN at : InPlace(at[p], p) /\ (p # stop => Unit(at, code, writes, p))

\* While the recording is translated,
OpenAt(at, t, writes) ==
  /\ Layout(at, t.code, writes, Len(t.code))
  /\ at[Len(t.code)].clk = t.clocks
  /\ Base(at[Len(t.code)].bank + 1) = t.codelen
\* and with the end of it.
ClosedAt(at, t, writes) ==
  /\ Len(t.code) > 0 /\ t.code[Len(t.code)] = \hFF
  /\ Layout(at, t.code, writes, Len(t.code) - 1)
  /\ Len(t.code) <= t.codelen


LEMMA VgmSizes ==
  /\ BankSize \in Nat /\ 8 <= BankSize /\ BankSize <= 16384
  /\ MaxUnits \in Nat \ {0} /\ MaxUnits <= 65536
  /\ VgmStack \in Nat /\ 65414 < VgmStack /\ VgmStack <= 65535
BY VgmAssumption DEF BankAddr

LEMMA BaseIs ==
  ASSUME NEW b \in Nat \ {0}
  PROVE  /\ Base(b) \in Nat /\ Base(b + 1) = Base(b) + BankSize /\ Base(b) < Base(b + 1)
         /\ Base(1) = 0 /\ Base(2) = BankSize
<1>1. BankSize \in Nat /\ BankSize > 0
  BY VgmSizes
<1>2. b - 1 \in Nat /\ b + 1 - 1 = (b - 1) + 1 /\ 1 - 1 = 0 /\ 2 - 1 = 1
  OBVIOUS
<1>3. (b - 1) * BankSize \in Nat
  BY <1>1, <1>2
<1>4. ((b - 1) + 1) * BankSize = (b - 1) * BankSize + BankSize
  BY <1>1, <1>2
<1>5. 0 * BankSize = 0 /\ 1 * BankSize = BankSize
  BY <1>1
<1> QED  BY <1>1, <1>2, <1>3, <1>4, <1>5 DEF Base

\* A bank below the 255th ends before it.
LEMMA FewBanks ==
  ASSUME NEW b \in Nat \ {0}, Base(b + 1) < 255 * BankSize
  PROVE  b < 255
<1>1. BankSize \in Nat /\ BankSize > 0
  BY VgmSizes
<1> SUFFICES ASSUME b >= 255 PROVE FALSE
  OBVIOUS
<1>2. Base(b + 1) = b * BankSize
  <2>1. b + 1 - 1 = b
    OBVIOUS
  <2> QED  BY <2>1 DEF Base
<1>3. b = 255 + (b - 255) /\ b - 255 \in Nat
  OBVIOUS
<1>4. b * BankSize = 255 * BankSize + (b - 255) * BankSize /\ (b - 255) * BankSize \in Nat
  BY <1>1, <1>3
<1> QED  BY <1>1, <1>2, <1>4

-----------------------------------------------------------------------------
(***************************************************************************)
(* emit.                                                                   *)
(***************************************************************************)
LEMMA TranslationFields ==
  ASSUME NEW t \in Translation
  PROVE  /\ t.code \in Seq(Byte) /\ t.codelen \in Nat /\ t.wait \in Nat /\ t.clocks \in Nat
         /\ Len(t.code) \in Nat
BY DEF Translation

Renewed(t, code, len) == [code |-> code, codelen |-> len, wait |-> t.wait, clocks |-> t.clocks]

LEMMA RenewedIs ==
  ASSUME NEW t \in Translation, NEW code \in Seq(Byte), NEW len \in Nat
  PROVE  Renewed(t, code, len) \in Translation
BY DEF Renewed, Translation

LEMMA AppendIs ==
  ASSUME NEW S, NEW w \in Seq(S), NEW e \in S
  PROVE  /\ Append(w, e) \in Seq(S) /\ Len(Append(w, e)) = Len(w) + 1 /\ Len(w) \in Nat
         /\ w \o <<e>> = Append(w, e)
         /\ \A i \in 1 .. Len(w) : Append(w, e)[i] = w[i]
         /\ Append(w, e)[Len(w) + 1] = e
OBVIOUS

LEMMA RenewedExcept ==
  ASSUME NEW t \in Translation, NEW code, NEW len,
         NEW both, both = [t EXCEPT !.code = code, !.codelen = len],
         NEW one, one = [t EXCEPT !.code = code]
  PROVE  both = Renewed(t, code, len) /\ one = Renewed(t, code, t.codelen)
<1>1. t = [code |-> t.code, codelen |-> t.codelen, wait |-> t.wait, clocks |-> t.clocks]
  BY DEF Translation
<1> DEFINE once == [code |-> code, codelen |-> t.codelen, wait |-> t.wait, clocks |-> t.clocks]
<1>2. [t EXCEPT !.code = code, !.codelen = len] = Renewed(t, code, len)
  <2>1. [t EXCEPT !.code = code, !.codelen = len] = [[t EXCEPT !.code = code] EXCEPT !.codelen = len]
    OBVIOUS
  <2>2. [t EXCEPT !.code = code] = once
    BY <1>1
  <2>3. [once EXCEPT !.codelen = len] = Renewed(t, code, len)
    BY DEF Renewed
  <2> QED  BY <2>1, <2>2, <2>3
<1>3. [t EXCEPT !.code = code] = Renewed(t, code, t.codelen)
  BY <1>1 DEF Renewed
<1> QED  BY <1>2, <1>3

\* What emit appends to: this bank, or a new one.
Rets(n) == [i \in 1 .. n |-> RET]
Roomy(t, reserve) ==
  LET remain == t.codelen - Len(t.code)
  IN  IF reserve + 1 > remain THEN Renewed(t, t.code \o Rets(remain), t.codelen + BankSize) ELSE t

LEMMA RoomyKeeps ==
  ASSUME NEW t, NEW reserve
  PROVE  Roomy(t, reserve).wait = t.wait /\ Roomy(t, reserve).clocks = t.clocks
BY DEF Roomy, Renewed

LEMMA PaddingIs ==
  ASSUME NEW code \in Seq(Byte), NEW n \in Int
  PROVE  /\ code \o Rets(n) \in Seq(Byte)
         /\ Len(code \o Rets(n)) = Len(code) + IF n > 0 THEN n ELSE 0
         /\ \A i \in 1 .. Len(code) : (code \o Rets(n))[i] = code[i]
         /\ n > 0 => (code \o Rets(n))[Len(code) + 1] = RET
<1> DEFINE r == Rets(n)
           k == IF n > 0 THEN n ELSE 0
<1>1. k \in Nat /\ r = [i \in 1 .. k |-> RET] /\ RET \in Byte
  <2>1. 1 .. n = 1 .. k
    OBVIOUS
  <2> QED  BY <2>1 DEF Rets, RET, Byte
<1>2. r \in Seq(Byte) /\ Len(r) = k /\ (k > 0 => r[1] = RET)
  BY <1>1
<1> HIDE DEF r
<1>3. /\ code \o r \in Seq(Byte) /\ Len(code \o r) = Len(code) + Len(r)
      /\ \A i \in 1 .. Len(code) : (code \o r)[i] = code[i]
  BY <1>2
<1>4. n > 0 => (code \o r)[Len(code) + 1] = r[1]
  BY <1>1, <1>2
<1> QED  BY <1>2, <1>3, <1>4 DEF r

LEMMA EmitIs ==
  ASSUME NEW t \in Translation, NEW byte \in Byte, NEW reserve \in Nat
  PROVE  LET room == Roomy(t, reserve)
         IN  /\ room \in Translation /\ room.wait = t.wait /\ room.clocks = t.clocks
             /\ Emit(t, byte, reserve) = Renewed(room, Append(room.code, byte), room.codelen)
             /\ Emit(t, byte, reserve) \in Translation
<1> DEFINE remain == t.codelen - Len(t.code)
           room == Roomy(t, reserve)
           pad == t.code \o Rets(remain)
<1>1. /\ t.code \in Seq(Byte) /\ t.codelen \in Nat /\ remain \in Int /\ BankSize \in Nat
  BY TranslationFields, VgmSizes
<1> HIDE DEF remain, room
<1>2. pad \in Seq(Byte) /\ t.codelen + BankSize \in Nat
  <2>1. t.code \o Rets(remain) \in Seq(Byte)
    BY <1>1, PaddingIs
  <2>2. t.codelen + BankSize \in Nat
    BY <1>1
  <2> QED  BY <2>1, <2>2
<1> HIDE DEF pad
<1>3. CASE reserve + 1 > remain
  <2>1. room = Renewed(t, pad, t.codelen + BankSize)
    BY <1>3 DEF Roomy, room, remain, pad
  <2>2. /\ room \in Translation /\ room.code = pad /\ room.codelen = t.codelen + BankSize
        /\ room.wait = t.wait /\ room.clocks = t.clocks
    BY <1>2, <2>1, RenewedIs DEF Renewed
  <2>3. Emit(t, byte, reserve) = [t EXCEPT !.code = pad \o <<byte>>, !.codelen = t.codelen + BankSize]
    BY <1>3 DEF Emit, Rets, Translation, pad, remain
  <2>4. pad \o <<byte>> = Append(pad, byte) /\ Append(pad, byte) \in Seq(Byte)
    BY <1>2, AppendIs
  <2>5. Emit(t, byte, reserve) = Renewed(t, Append(pad, byte), t.codelen + BankSize)
    <3> DEFINE l == t.codelen + BankSize
               c == Append(pad, byte)
    <3>1. Emit(t, byte, reserve) = [t EXCEPT !.code = c, !.codelen = l]
      BY <2>3, <2>4
    <3> DEFINE new == Emit(t, byte, reserve)
    <3> HIDE DEF l, c, new
    <3>2. new = Renewed(t, c, l)
      BY <3>1, RenewedExcept DEF new
    <3> QED  BY <3>2 DEF l, c, new
  <2>6. Renewed(t, Append(pad, byte), t.codelen + BankSize) \in Translation
    BY <1>2, <2>4, RenewedIs
  <2>7. Renewed(t, Append(pad, byte), t.codelen + BankSize)
          = Renewed(room, Append(pad, byte), room.codelen)
    BY <2>2 DEF Renewed
  <2> QED  BY <2>2, <2>5, <2>6, <2>7 DEF room
<1>4. CASE ~(reserve + 1 > remain)
  <2>1. room = t
    BY <1>4 DEF Roomy, room, remain
  <2>2. Emit(t, byte, reserve) = [t EXCEPT !.code = Append(@, byte)]
    BY <1>4 DEF Emit, remain
  <2>3. Renewed(t, Append(t.code, byte), t.codelen) = [t EXCEPT !.code = Append(t.code, byte)]
    BY RenewedExcept
  <2>4. Renewed(t, Append(t.code, byte), t.codelen) \in Translation
    BY <1>1, AppendIs, RenewedIs
  <2> QED  BY <2>1, <2>2, <2>3, <2>4 DEF room
<1> QED  BY <1>3, <1>4

\* Within a bank the bytes of an instruction follow each other.
LEMMA EmitNext ==
  ASSUME NEW t \in Translation, NEW byte \in Byte, Len(t.code) < t.codelen
  PROVE  /\ Emit(t, byte, 0) = Renewed(t, Append(t.code, byte), t.codelen)
         /\ Emit(t, byte, 0) \in Translation
<1>1. Roomy(t, 0) = t
  BY TranslationFields DEF Roomy
<1> QED  BY <1>1, EmitIs

-----------------------------------------------------------------------------
(***************************************************************************)
(* The layout grows by one unit at a time.                                 *)
(***************************************************************************)
Same(code, code2, n) == \A i \in 1 .. n : code2[i] = code[i]
Further(at, stop2, e) == [p \in DOMAIN at \cup {stop2} |-> IF p = stop2 THEN e ELSE at[p]]

LEMMA LayoutGrows ==
  ASSUME NEW at, NEW code, NEW writes, NEW stop, Layout(at, code, writes, stop),
         NEW code2, NEW writes2, NEW stop2 \in Nat, stop < stop2,
         Same(code, code2, stop),
         Len(writes) \in Nat, Len(writes2) \in Nat, Len(writes) <= Len(writes2),
         Same(writes, writes2, Len(writes)),
         NEW e, InPlace(e, stop2), e.nth = Len(writes2),
         Unit(Further(at, stop2, e), code2, writes2, stop)
  PROVE  Layout(Further(at, stop2, e), code2, writes2, stop2)
<1> DEFINE at2 == Further(at, stop2, e)
<1>1. /\ stop \in Nat /\ DOMAIN at \subseteq 0 .. stop /\ 0 \in DOMAIN at /\ stop \in DOMAIN at
      /\ at[0] = [bank |-> 1, nth |-> 0, clk |-> 0]
      /\ \A p \in DOMAIN at : InPlace(at[p], p) /\ (p # stop => Unit(at, code, writes, p))
  BY DEF Layout
<1>2. /\ DOMAIN at2 = DOMAIN at \cup {stop2} /\ at2[stop2] = e
      /\ \A p \in DOMAIN at : p \in 0 .. stop /\ p # stop2 /\ p \in DOMAIN at2 /\ at2[p] = at[p]
  <2>1. stop2 \notin DOMAIN at
    BY <1>1
  <2> QED  BY <1>1, <2>1 DEF Further
<1> HIDE DEF at2
<1>3. ASSUME NEW p \in DOMAIN at, p # stop PROVE Unit(at2, code2, writes2, p)
  <2>1. Unit(at, code, writes, p) /\ p \in 0 .. stop /\ InPlace(at[p], p) /\ at2[p] = at[p]
    BY <1>1, <1>2, <1>3
  <2>2. CASE DelayAt(at, code, p)
    <3>1. p + 3 \in DOMAIN at
      BY <2>2 DEF DelayAt
    <3>2. p + 3 \in 0 .. stop /\ p + 3 \in DOMAIN at2 /\ at2[p + 3] = at[p + 3]
      BY <1>2, <3>1
    <3>3. p + 1 \in 1 .. stop /\ p + 2 \in 1 .. stop /\ p + 3 \in 1 .. stop
      BY <1>1, <2>1, <3>2
    <3>4. code2[p + 1] = code[p + 1] /\ code2[p + 2] = code[p + 2] /\ code2[p + 3] = code[p + 3]
      BY <3>3 DEF Same
    <3>5. DelayAt(at2, code2, p)
      BY <2>1, <2>2, <3>2, <3>4 DEF DelayAt
    <3> QED  BY <3>5 DEF Unit
  <2>3. CASE WriteAt(at, code, writes, p)
    <3>1. p + 4 \in DOMAIN at /\ at[p].nth < Len(writes)
      BY <2>3 DEF WriteAt
    <3>2. p + 4 \in 0 .. stop /\ p + 4 \in DOMAIN at2 /\ at2[p + 4] = at[p + 4]
      BY <1>2, <3>1
    <3>3. p + 1 \in 1 .. stop /\ p + 2 \in 1 .. stop /\ p + 3 \in 1 .. stop /\ p + 4 \in 1 .. stop
      BY <1>1, <2>1, <3>2
    <3>4. /\ code2[p + 1] = code[p + 1] /\ code2[p + 2] = code[p + 2] /\ code2[p + 3] = code[p + 3]
          /\ code2[p + 4] = code[p + 4]
      BY <3>3 DEF Same
    <3>5. at[p].nth \in Nat
      BY <2>1 DEF InPlace, Entry
    <3>6. at[p].nth + 1 \in 1 .. Len(writes) /\ at[p].nth < Len(writes2)
      BY <3>1, <3>5
    <3>7. writes2[at[p].nth + 1] = writes[at[p].nth + 1]
      BY <3>6 DEF Same
    <3>8. WriteAt(at2, code2, writes2, p)
      BY <2>1, <2>3, <3>2, <3>4, <3>6, <3>7 DEF WriteAt
    <3> QED  BY <3>8 DEF Unit
  <2>4. CASE BankEndAt(at, code, p)
    <3>1. p + 1 \in 1 .. stop
      BY <1>1, <1>3, <2>1
    <3>2. code2[p + 1] = code[p + 1]
      BY <3>1 DEF Same
    <3>3. Base(at[p].bank + 1) \in DOMAIN at
      BY <2>4 DEF BankEndAt
    <3>4. Base(at[p].bank + 1) \in DOMAIN at2 /\ at2[Base(at[p].bank + 1)] = at[Base(at[p].bank + 1)]
      BY <1>2, <3>3
    <3>5. BankEndAt(at2, code2, p)
      BY <2>1, <2>4, <3>2, <3>4 DEF BankEndAt
    <3> QED  BY <3>5 DEF Unit
  <2> QED  BY <2>1, <2>2, <2>3, <2>4 DEF Unit
<1>4. ASSUME NEW p \in DOMAIN at2
      PROVE  InPlace(at2[p], p) /\ (p # stop2 => Unit(at2, code2, writes2, p))
  <2>1. CASE p = stop2
    BY <1>2, <2>1
  <2>2. CASE p = stop
    <3>1. Unit(at2, code2, writes2, p)
      BY <2>2 DEF at2
    <3> QED  BY <1>1, <1>2, <2>2, <3>1
  <2>3. CASE p # stop /\ p # stop2
    BY <1>1, <1>2, <1>3, <2>3
  <2> QED  BY <2>1, <2>2, <2>3
<1>5. /\ DOMAIN at2 \subseteq 0 .. stop2 /\ {0, stop2} \subseteq DOMAIN at2
      /\ at2[0] = [bank |-> 1, nth |-> 0, clk |-> 0] /\ at2[stop2].nth = Len(writes2)
  BY <1>1, <1>2
<1> QED  BY <1>4, <1>5 DEF Layout, at2

Opened(t, writes) == t \in Translation /\ \E at : OpenAt(at, t, writes)

\* Where the code stands that is open.
LEMMA OpenIs ==
  ASSUME NEW t \in Translation, NEW writes, NEW at, OpenAt(at, t, writes)
  PROVE  LET stop == Len(t.code)
             e == at[stop]
         IN  /\ Layout(at, t.code, writes, stop) /\ stop \in Nat /\ t.code \in Seq(Byte)
             /\ e \in Entry /\ e.bank \in Nat \ {0} /\ e.nth = Len(writes) /\ e.clk = t.clocks
             /\ Base(e.bank) <= stop /\ stop < t.codelen /\ t.codelen = Base(e.bank + 1)
             /\ t.codelen \in Nat /\ e.nth \in Nat /\ e.clk \in Nat
<1>1. Layout(at, t.code, writes, Len(t.code))
  BY DEF OpenAt
<1>2. Len(t.code) \in DOMAIN at /\ InPlace(at[Len(t.code)], Len(t.code))
  BY <1>1 DEF Layout
<1> QED  BY <1>1, <1>2, TranslationFields DEF OpenAt, Layout, InPlace, Entry

\* What the end of the layout becomes.
LEMMA EntryIs ==
  ASSUME NEW e \in Entry, NEW n \in Nat
  PROVE  /\ [e EXCEPT !.bank = @ + 1] \in Entry /\ [e EXCEPT !.bank = @ + 1].bank = e.bank + 1
         /\ [e EXCEPT !.bank = @ + 1].nth = e.nth /\ [e EXCEPT !.bank = @ + 1].clk = e.clk
         /\ [e EXCEPT !.nth = @ + 1] \in Entry /\ [e EXCEPT !.nth = @ + 1].bank = e.bank
         /\ [e EXCEPT !.nth = @ + 1].nth = e.nth + 1 /\ [e EXCEPT !.nth = @ + 1].clk = e.clk
         /\ [e EXCEPT !.clk = @ + n] \in Entry /\ [e EXCEPT !.clk = @ + n].bank = e.bank
         /\ [e EXCEPT !.clk = @ + n].nth = e.nth /\ [e EXCEPT !.clk = @ + n].clk = e.clk + n
         /\ e.bank \in Nat \ {0} /\ e.nth \in Nat /\ e.clk \in Nat
BY DEF Entry

LEMMA RoomIs ==
  ASSUME NEW t, NEW writes, Len(writes) \in Nat, Opened(t, writes),
         NEW reserve \in Nat, reserve <= 4
  PROVE  LET room == Roomy(t, reserve)
         IN  Opened(room, writes) /\ Len(room.code) + reserve + 1 <= room.codelen
<1> DEFINE room == Roomy(t, reserve)
           stop == Len(t.code)
           remain == t.codelen - stop
<1>0. t \in Translation
  BY DEF Opened
<1>1. PICK at : OpenAt(at, t, writes)
  BY DEF Opened
<1> DEFINE e == at[stop]
           e2 == [e EXCEPT !.bank = @ + 1]
<1>2. /\ Layout(at, t.code, writes, stop) /\ stop \in Nat /\ t.code \in Seq(Byte)
      /\ e \in Entry /\ e.bank \in Nat \ {0} /\ e.nth = Len(writes) /\ e.clk = t.clocks
      /\ Base(e.bank) <= stop /\ stop < t.codelen /\ t.codelen = Base(e.bank + 1)
      /\ t.codelen \in Nat
  BY <1>0, <1>1, OpenIs
<1>3. CASE reserve + 1 > remain
  <2>1. room = Renewed(t, t.code \o Rets(remain), t.codelen + BankSize)
    BY <1>3 DEF Roomy
  <2> DEFINE code2 == t.code \o Rets(remain)
  <2>2. remain \in Int /\ remain > 0 /\ stop + remain = t.codelen
    BY <1>2
  <2>3. /\ code2 \in Seq(Byte) /\ Len(code2) = t.codelen
        /\ \A i \in 1 .. stop : code2[i] = t.code[i]
        /\ code2[stop + 1] = RET
    BY <1>2, <2>2, PaddingIs
  <2> HIDE DEF code2, remain
  <2>4. BankSize \in Nat /\ 8 <= BankSize /\ t.codelen + BankSize \in Nat
    BY <1>2, VgmSizes
  <2>5. /\ room \in Translation /\ room.code = code2 /\ room.codelen = t.codelen + BankSize
        /\ room.clocks = t.clocks
    <3>1. room = Renewed(t, code2, t.codelen + BankSize)
      BY <2>1 DEF code2
    <3> HIDE DEF room, stop, e, e2
    <3> DEFINE len == t.codelen + BankSize
    <3>0. code2 \in Seq(Byte) /\ len \in Nat
      BY <2>3, <2>4
    <3> HIDE DEF len
    <3>2. /\ Renewed(t, code2, len) \in Translation /\ Renewed(t, code2, len).code = code2
          /\ Renewed(t, code2, len).codelen = len /\ Renewed(t, code2, len).clocks = t.clocks
      BY <1>0, <3>0, RenewedIs DEF Renewed
    <3> QED  BY <3>1, <3>2 DEF len
  <2> HIDE DEF room, stop
  <2>6. e2 \in Entry /\ e2.bank = e.bank + 1 /\ e2.nth = e.nth /\ e2.clk = e.clk
    BY <1>2, EntryIs
  <2>7. Base(e.bank + 1 + 1) = t.codelen + BankSize /\ t.codelen < Base(e.bank + 1 + 1)
    <3>1. e.bank + 1 \in Nat \ {0}
      BY <1>2
    <3> QED  BY <1>2, <3>1, BaseIs
  <2> HIDE DEF e, e2
  <2>8. InPlace(e2, t.codelen)
    BY <1>2, <2>6, <2>7 DEF InPlace
  <2> DEFINE at2 == Further(at, t.codelen, e2)
  <2>9. Unit(at2, code2, writes, stop)
    <3>1. stop \in DOMAIN at /\ stop # t.codelen
      BY <1>2 DEF Layout
    <3>2. at2[stop] = e /\ t.codelen \in DOMAIN at2 /\ at2[t.codelen] = e2
      BY <3>1 DEF Further, e
    <3> HIDE DEF at2
    <3>3. BankEndAt(at2, code2, stop)
      BY <1>2, <2>3, <3>2 DEF BankEndAt, RET, e2
    <3> QED  BY <3>3 DEF Unit
  <2>10. Layout(at2, code2, writes, t.codelen)
    <3>1. Same(t.code, code2, stop) /\ Same(writes, writes, Len(writes))
      BY <2>3 DEF Same
    <3> QED  BY <1>2, <2>6, <2>8, <2>9, <3>1, LayoutGrows
  <2>11. at2[t.codelen] = e2
    BY DEF Further
  <2> HIDE DEF at2
  <2>12. OpenAt(at2, room, writes)
    BY <1>2, <2>3, <2>5, <2>6, <2>7, <2>10, <2>11 DEF OpenAt
  <2>13. Len(room.code) + reserve + 1 <= room.codelen
    BY <1>2, <2>3, <2>4, <2>5
  <2> QED  BY <2>5, <2>12, <2>13 DEF Opened, room
<1>4. CASE ~(reserve + 1 > remain)
  <2>1. room = t
    BY <1>4 DEF Roomy
  <2> QED  BY <1>2, <1>4, <2>1
<1> QED  BY <1>3, <1>4

-----------------------------------------------------------------------------
(***************************************************************************)
(* Delays and writes.                                                      *)
(***************************************************************************)
\* A number of two bytes.
LEMMA TwoBytes ==
  ASSUME NEW n \in Nat, n < 65536
  PROVE  Low(n) \in Byte /\ High(n) \in Byte /\ Low(n) + 256 * High(n) = n
BY DEF Low, High, Byte

\* Three bytes emitted where there is room for them.
Emit3(t, x, y, z, reserve) == Emit(Emit(Emit(t, x, reserve), y, 0), z, 0)
Append3(code, x, y, z) == Append(Append(Append(code, x), y), z)

Ends3(code, n, x, y, z) == code[n + 1] = x /\ code[n + 2] = y /\ code[n + 3] = z

LEMMA Append3Is ==
  ASSUME NEW code \in Seq(Byte), NEW x \in Byte, NEW y \in Byte, NEW z \in Byte,
         NEW new, new = Append3(code, x, y, z)
  PROVE  /\ new \in Seq(Byte) /\ Len(new) = Len(code) + 3 /\ Same(code, new, Len(code))
         /\ Ends3(new, Len(code), x, y, z)
<1> DEFINE c1 == Append(code, x)
           c2 == Append(c1, y)
           c3 == Append(c2, z)
           n == Len(code)
<1>1. c1 \in Seq(Byte) /\ Len(c1) = n + 1 /\ n \in Nat /\ Same(code, c1, n) /\ c1[n + 1] = x
  BY AppendIs DEF Same
<1> HIDE DEF c1, n
<1>2. c2 \in Seq(Byte) /\ Len(c2) = n + 2 /\ Same(c1, c2, n + 1) /\ c2[n + 2] = y
  BY <1>1 DEF Same
<1> HIDE DEF c2
<1>3. c3 \in Seq(Byte) /\ Len(c3) = n + 3 /\ Same(c2, c3, n + 2) /\ c3[n + 3] = z
  BY <1>1, <1>2 DEF Same
<1> HIDE DEF c3
<1>4. c3[n + 1] = x /\ c3[n + 2] = y
  BY <1>1, <1>2, <1>3 DEF Same
<1>5. Same(code, c3, n)
  BY <1>1, <1>2, <1>3 DEF Same
<1> QED  BY <1>3, <1>4, <1>5 DEF Append3, Ends3, c1, c2, c3, n

LEMMA RenewedAgain ==
  ASSUME NEW t \in Translation, NEW code, NEW code2, NEW len
  PROVE  Renewed(Renewed(t, code, len), code2, len) = Renewed(t, code2, len)
BY DEF Renewed, Translation

LEMMA Emit3Is ==
  ASSUME NEW t \in Translation, NEW x \in Byte, NEW y \in Byte, NEW z \in Byte,
         NEW reserve \in Nat, reserve \in {3, 4},
         Len(Roomy(t, reserve).code) + reserve + 1 <= Roomy(t, reserve).codelen
  PROVE  LET room == Roomy(t, reserve)
         IN  /\ Emit3(t, x, y, z, reserve)
                  = Renewed(room, Append3(room.code, x, y, z), room.codelen)
             /\ Emit3(t, x, y, z, reserve) \in Translation
<1> DEFINE room == Roomy(t, reserve)
           t1 == Emit(t, x, reserve)
           t2 == Emit(t1, y, 0)
           t3 == Emit(t2, z, 0)
           n == Len(room.code)
           l == room.codelen
           c1 == Append(room.code, x)
           c2 == Append(c1, y)
           c3 == Append(c2, z)
<1>1. room \in Translation /\ t1 = Renewed(room, c1, l) /\ n + 4 <= l
  <2>1. room \in Translation /\ t1 = Renewed(room, c1, l)
    BY EmitIs
  <2>2. n \in Nat /\ l \in Nat
    BY <2>1, TranslationFields
  <2>3. n + reserve + 1 <= l
    OBVIOUS
  <2> HIDE DEF room, t1, n, l, c1
  <2>4. n + 4 <= l
    BY <2>2, <2>3
  <2> QED  BY <2>1, <2>4
<1>2. room.code \in Seq(Byte) /\ n \in Nat /\ l \in Nat
  BY <1>1, TranslationFields
<1>3. c1 \in Seq(Byte) /\ Len(c1) = n + 1
  BY <1>2, AppendIs
<1> HIDE DEF room, t1, n, l, c1
<1>4. t1 \in Translation /\ t1.code = c1 /\ t1.codelen = l
  BY <1>1, <1>2, <1>3, RenewedIs DEF Renewed
<1>5. t2 = Renewed(t1, c2, l)
  BY <1>1, <1>2, <1>3, <1>4, EmitNext
<1>6. c2 \in Seq(Byte) /\ Len(c2) = n + 2
  BY <1>2, <1>3
<1> HIDE DEF t2, c2
<1>7. t2 \in Translation /\ t2.code = c2 /\ t2.codelen = l
  BY <1>2, <1>4, <1>5, <1>6, RenewedIs DEF Renewed
<1>8. t3 = Renewed(t2, c3, l) /\ t3 \in Translation
  BY <1>1, <1>2, <1>6, <1>7, EmitNext
<1> HIDE DEF t3, c3
<1>9. t2 = Renewed(room, c2, l)
  BY <1>1, <1>5, RenewedAgain
<1>10. t3 = Renewed(room, c3, l)
  BY <1>1, <1>8, <1>9, RenewedAgain
<1> QED  BY <1>8, <1>10 DEF Emit3, Append3, room, t1, t2, t3, l, c1, c2, c3

\* A call of the delay routine is one more unit of the layout.
LEMMA DelayEmitted ==
  ASSUME NEW t, NEW writes, Len(writes) \in Nat, Opened(t, writes),
         NEW units \in 1 .. MaxUnits
  PROVE  LET u == EmitDelay(t, units)
         IN  Opened(u, writes) /\ u.wait = t.wait /\ u.clocks = t.clocks + 64 * units
<1> DEFINE room == Roomy(t, 3)
           l == Low(units - 1)
           h == High(units - 1)
           counted == Emit3(t, \hCF, l, h, 3)
           u == EmitDelay(t, units)
           stop == Len(room.code)
           code2 == Append3(room.code, \hCF, l, h)
<1>0. /\ t \in Translation /\ units - 1 \in Nat /\ units - 1 < 65536 /\ units \in Nat
      /\ t.clocks \in Nat
  BY VgmSizes, TranslationFields DEF Opened
<1>1. /\ Opened(room, writes) /\ stop + 3 + 1 <= room.codelen
      /\ room.wait = t.wait /\ room.clocks = t.clocks
  <2>1. 3 \in Nat /\ 3 <= 4 /\ \hCF \in Byte
    BY DEF Byte
  <2>2. Opened(room, writes) /\ Len(room.code) + 3 + 1 <= room.codelen
    BY <2>1, RoomIs
  <2>3. room.wait = t.wait /\ room.clocks = t.clocks
    BY RoomyKeeps
  <2> QED  BY <2>2, <2>3
<1>2. l \in Byte /\ h \in Byte /\ l + 256 * h = units - 1 /\ \hCF \in Byte
  BY <1>0, TwoBytes DEF Byte
<1>3. counted = Renewed(room, code2, room.codelen)
  BY <1>0, <1>1, <1>2, Emit3Is
<1>4. u = [counted EXCEPT !.clocks = @ + 64 * units]
  BY DEF EmitDelay, Emit3
<1>5. PICK at : OpenAt(at, room, writes)
  BY <1>1 DEF Opened
<1>6. room \in Translation
  BY <1>1 DEF Opened
<1> DEFINE e == at[stop]
           e2 == [e EXCEPT !.clk = @ + 64 * units]
<1>7. /\ Layout(at, room.code, writes, stop) /\ stop \in Nat /\ room.code \in Seq(Byte)
      /\ e \in Entry /\ e.bank \in Nat \ {0} /\ e.nth = Len(writes) /\ e.clk = room.clocks
      /\ Base(e.bank) <= stop /\ stop < room.codelen /\ room.codelen = Base(e.bank + 1)
      /\ room.codelen \in Nat
  BY <1>5, <1>6, OpenIs
<1> HIDE DEF l, h, u
<1>8. /\ code2 \in Seq(Byte) /\ Len(code2) = stop + 3 /\ Same(room.code, code2, stop)
      /\ code2[stop + 1] = \hCF /\ code2[stop + 2] = l /\ code2[stop + 3] = h
  <2> DEFINE c == room.code
             cf == \hCF
  <2>1. c \in Seq(Byte) /\ stop = Len(c) /\ code2 = Append3(c, cf, l, h) /\ cf \in Byte
    BY <1>2, <1>7
  <2> HIDE DEF c, room, stop, code2, cf, counted, e, e2
  <2>2. /\ code2 \in Seq(Byte) /\ Len(code2) = Len(c) + 3 /\ Same(c, code2, Len(c))
        /\ Ends3(code2, Len(c), cf, l, h)
    BY <1>2, <2>1, Append3Is
  <2> QED  BY <2>1, <2>2 DEF c, cf, Ends3
<1> HIDE DEF code2, counted
<1>9. /\ counted \in Translation /\ counted.code = code2 /\ counted.codelen = room.codelen
      /\ counted.wait = room.wait /\ counted.clocks = room.clocks
  BY <1>3, <1>6, <1>7, <1>8, RenewedIs DEF Renewed
<1>10. 64 * units \in Nat
  BY <1>0
<1>11. /\ u \in Translation /\ u.code = code2 /\ u.codelen = room.codelen
       /\ u.wait = t.wait /\ u.clocks = t.clocks + 64 * units
  <2> HIDE DEF room, stop
  <2> DEFINE k == 64 * units
  <2>1. k \in Nat /\ counted.clocks + k \in Nat /\ counted.clocks = t.clocks
    BY <1>0, <1>1, <1>9, <1>10
  <2>2. u = [counted EXCEPT !.clocks = @ + k]
    BY <1>4
  <2> HIDE DEF k
  <2>3. /\ u \in Translation /\ u.code = counted.code /\ u.codelen = counted.codelen
        /\ u.wait = counted.wait /\ u.clocks = counted.clocks + k
    BY <1>9, <2>1, <2>2 DEF Translation
  <2> QED  BY <1>1, <1>9, <2>1, <2>3 DEF k
<1> HIDE DEF room, stop
<1>12. e2 \in Entry /\ e2.bank = e.bank /\ e2.nth = e.nth /\ e2.clk = e.clk + 64 * units
  BY <1>7, <1>10, EntryIs
<1> HIDE DEF e2
<1>13. InPlace(e2, stop + 3)
  <2>1. stop + 3 < Base(e.bank + 1) /\ Base(e.bank) <= stop + 3
    <3>1. Base(e.bank) \in Nat
      BY <1>7, BaseIs
    <3> HIDE DEF e
    <3> QED  BY <1>1, <1>7, <3>1
  <2> HIDE DEF e
  <2> QED  BY <1>12, <2>1 DEF InPlace
<1> DEFINE at2 == Further(at, stop + 3, e2)
<1>14. Unit(at2, code2, writes, stop)
  <2>1. stop \in DOMAIN at /\ stop # stop + 3
    BY <1>7 DEF Layout
  <2>2. at2[stop] = e /\ stop + 3 \in DOMAIN at2 /\ at2[stop + 3] = e2
    BY <2>1 DEF Further
  <2> HIDE DEF at2
  <2>3. code2[stop + 2] + 256 * code2[stop + 3] + 1 = units
    BY <1>0, <1>2, <1>8
  <2> HIDE DEF e
  <2>4. DelayAt(at2, code2, stop)
    BY <1>8, <2>2, <2>3 DEF DelayAt, e2
  <2> QED  BY <2>4 DEF Unit
<1> HIDE DEF e
<1>15. Layout(at2, code2, writes, stop + 3)
  <2>1. Same(writes, writes, Len(writes)) /\ stop + 3 \in Nat /\ stop < stop + 3
    BY <1>7 DEF Same
  <2>2. Layout(at, room.code, writes, stop) /\ Same(room.code, code2, stop)
    BY <1>7, <1>8
  <2>3. Len(writes) \in Nat /\ Len(writes) <= Len(writes) /\ e2.nth = Len(writes)
    BY <1>7, <1>12
  <2> QED  BY <1>13, <1>14, <2>1, <2>2, <2>3, LayoutGrows, ZenonT(60)
<1>16. at2[stop + 3] = e2
  BY DEF Further
<1> HIDE DEF at2
<1>17. OpenAt(at2, u, writes)
  <2>1. Len(u.code) = stop + 3 /\ at2[Len(u.code)].clk = u.clocks
        /\ Base(at2[Len(u.code)].bank + 1) = u.codelen
    BY <1>1, <1>7, <1>8, <1>11, <1>12, <1>16, SMTT(60)
  <2> QED  BY <1>11, <1>15, <2>1 DEF OpenAt
<1> QED  BY <1>11, <1>17 DEF Opened, u

Timed == [reg: 0 .. 47, val: Byte, at: Nat]

\* What is emitted for a write.
EmitWrite(t, val, reg) == Emit(Emit3(t, \h3E, val, \hE0, 4), 16 + reg, 0)
Ends4(code, n, w, x, y, z) == Ends3(code, n, w, x, y) /\ code[n + 4] = z
Append4(code, w, x, y, z) == Append(Append3(code, w, x, y), z)

LEMMA Append4Is ==
  ASSUME NEW code \in Seq(Byte), NEW w \in Byte, NEW x \in Byte, NEW y \in Byte, NEW z \in Byte,
         NEW new, new = Append4(code, w, x, y, z)
  PROVE  /\ new \in Seq(Byte) /\ Len(new) = Len(code) + 4 /\ Same(code, new, Len(code))
         /\ Ends4(new, Len(code), w, x, y, z)
<1> DEFINE c3 == Append3(code, w, x, y)
           n == Len(code)
<1>1. c3 \in Seq(Byte) /\ Len(c3) = n + 3 /\ Same(code, c3, n) /\ Ends3(c3, n, w, x, y) /\ n \in Nat
  BY Append3Is
<1>2. new = Append(c3, z)
  BY DEF Append4
<1> HIDE DEF c3, n
<1>3. new \in Seq(Byte) /\ Len(new) = n + 4 /\ Same(c3, new, n + 3) /\ new[n + 4] = z
  BY <1>1, <1>2 DEF Same
<1>4. Same(code, new, n)
  BY <1>1, <1>3 DEF Same
<1>5. Ends3(new, n, w, x, y)
  <2>1. n + 1 \in 1 .. n + 3 /\ n + 2 \in 1 .. n + 3 /\ n + 3 \in 1 .. n + 3
    BY <1>1
  <2> QED  BY <1>1, <1>3, <2>1 DEF Same, Ends3
<1> QED  BY <1>3, <1>4, <1>5 DEF n, Ends4

LEMMA EmitWriteIs ==
  ASSUME NEW t \in Translation, NEW val \in Byte, NEW reg \in 0 .. 47,
         Len(Roomy(t, 4).code) + 4 + 1 <= Roomy(t, 4).codelen
  PROVE  LET room == Roomy(t, 4)
         IN  /\ EmitWrite(t, val, reg)
                  = Renewed(room, Append4(room.code, \h3E, val, \hE0, 16 + reg), room.codelen)
             /\ EmitWrite(t, val, reg) \in Translation
<1> DEFINE room == Roomy(t, 4)
           n == Len(room.code)
           l == room.codelen
           x == \h3E
           y == \hE0
           z == 16 + reg
           t3 == Emit3(t, x, val, y, 4)
           c3 == Append3(room.code, x, val, y)
           t4 == Emit(t3, z, 0)
           c4 == Append(c3, z)
<1>0. x \in Byte /\ y \in Byte /\ z \in Byte
  BY DEF Byte
<1>1. t3 = Renewed(room, c3, l) /\ t3 \in Translation /\ n + 5 <= l
  <2> HIDE DEF x, y
  <2>1. t3 = Renewed(room, c3, l) /\ t3 \in Translation
    BY <1>0, Emit3Is
  <2>2. room \in Translation
    BY <1>0, EmitIs
  <2>3. n \in Nat /\ l \in Nat
    BY <2>2, TranslationFields
  <2>4. n + 4 + 1 <= l
    OBVIOUS
  <2> HIDE DEF t3, room, n, l, c3
  <2>5. n + 5 <= l
    BY <2>3, <2>4
  <2> QED  BY <2>1, <2>5
<1>2. room \in Translation
  <2> HIDE DEF y, x
  <2> QED  BY <1>0, EmitIs
<1>3. room.code \in Seq(Byte) /\ n \in Nat /\ l \in Nat
  BY <1>2, TranslationFields
<1>4. t4 = EmitWrite(t, val, reg) /\ c4 = Append4(room.code, \h3E, val, \hE0, 16 + reg)
  BY DEF EmitWrite, Append4
<1> HIDE DEF x, y, z
<1>5. c3 \in Seq(Byte) /\ Len(c3) = n + 3
  <2> DEFINE c == room.code
  <2>1. c \in Seq(Byte) /\ c3 = Append3(c, x, val, y) /\ n = Len(c)
    BY <1>3
  <2> HIDE DEF c, c3, n, t3, t4, c4, l, room
  <2>2. c3 \in Seq(Byte) /\ Len(c3) = Len(c) + 3
    BY <1>0, <2>1, Append3Is
  <2> QED  BY <2>1, <2>2
<1> HIDE DEF room, n, l, c3, t3
<1>6. t3.code = c3 /\ t3.codelen = l
  BY <1>1 DEF Renewed
<1>7. t4 = Renewed(t3, c4, l) /\ t4 \in Translation
  BY <1>0, <1>1, <1>3, <1>5, <1>6, EmitNext
<1> HIDE DEF t4, c4
<1>8. t4 = Renewed(room, c4, l)
  BY <1>1, <1>2, <1>7, RenewedAgain
<1> QED  BY <1>4, <1>7, <1>8 DEF room, l

LEMMA WriteEmitted ==
  ASSUME NEW t, NEW writes \in Seq(Timed), Opened(t, writes),
         NEW write \in Timed, t.clocks - Due(write.at) \in -32 .. 31
  PROVE  LET u == EmitWrite(t, write.val, write.reg)
         IN  Opened(u, Append(writes, write)) /\ u.wait = t.wait /\ u.clocks = t.clocks
<1> DEFINE room == Roomy(t, 4)
           u == EmitWrite(t, write.val, write.reg)
           stop == Len(room.code)
           x == \h3E
           y == \hE0
           z == 16 + write.reg
           code2 == Append4(room.code, x, write.val, y, z)
           writes2 == Append(writes, write)
           n == Len(writes)
<1>0. /\ t \in Translation /\ write.val \in Byte /\ write.reg \in 0 .. 47
      /\ x \in Byte /\ y \in Byte /\ z \in Byte
  <2>1. x \in Byte /\ y \in Byte /\ write.val \in Byte /\ write.reg \in 0 .. 47
    BY DEF Timed, Byte
  <2>2. z \in Byte
    <3> DEFINE r == write.reg
    <3>1. r \in 0 .. 47
      BY <2>1
    <3> HIDE DEF r
    <3>2. 16 + r \in Byte
      BY <3>1 DEF Byte
    <3> QED  BY <3>2 DEF r
  <2>3. t \in Translation
    BY DEF Opened
  <2> QED  BY <2>1, <2>2, <2>3
<1>1. /\ n \in Nat /\ Len(writes2) = n + 1 /\ Same(writes, writes2, n) /\ writes2[n + 1] = write
  BY DEF Same
<1>2. Opened(room, writes) /\ stop + 4 + 1 <= room.codelen
  <2>1. 4 \in Nat /\ 4 <= 4
    OBVIOUS
  <2> HIDE DEF n, writes2, x, y, z, code2
  <2> QED  BY <1>1, <2>1, RoomIs DEF n
<1>3. room.wait = t.wait /\ room.clocks = t.clocks
  BY RoomyKeeps
<1>4. u = Renewed(room, code2, room.codelen)
  BY <1>0, <1>2, EmitWriteIs
<1>5. PICK at : OpenAt(at, room, writes)
  BY <1>2 DEF Opened
<1>6. room \in Translation
  BY <1>2 DEF Opened
<1> DEFINE e == at[stop]
           e2 == [e EXCEPT !.nth = @ + 1]
<1>7. /\ Layout(at, room.code, writes, stop) /\ stop \in Nat /\ room.code \in Seq(Byte)
      /\ e \in Entry /\ e.bank \in Nat \ {0} /\ e.nth = n /\ e.clk = room.clocks
      /\ Base(e.bank) <= stop /\ stop < room.codelen /\ room.codelen = Base(e.bank + 1)
      /\ room.codelen \in Nat
  BY <1>5, <1>6, OpenIs
<1> HIDE DEF n, writes2, u, x, y, z
<1>8. /\ code2 \in Seq(Byte) /\ Len(code2) = stop + 4 /\ Same(room.code, code2, stop)
      /\ Ends3(code2, stop, x, write.val, y) /\ code2[stop + 4] = z
  <2> DEFINE c == room.code
             v == write.val
  <2>1. c \in Seq(Byte) /\ stop = Len(c) /\ code2 = Append4(c, x, v, y, z) /\ v \in Byte
    BY <1>0, <1>7
  <2> HIDE DEF c, v, room, stop, code2, e, e2
  <2>2. /\ code2 \in Seq(Byte) /\ Len(code2) = Len(c) + 4 /\ Same(c, code2, Len(c))
        /\ Ends4(code2, Len(c), x, v, y, z)
    BY <1>0, <2>1, Append4Is
  <2> QED  BY <2>1, <2>2 DEF c, v, Ends4
<1> HIDE DEF code2, room, stop
<1>9. /\ u \in Translation /\ u.code = code2 /\ u.codelen = room.codelen
      /\ u.wait = t.wait /\ u.clocks = t.clocks
  <2>1. u.code = code2 /\ u.codelen = room.codelen /\ u.wait = room.wait /\ u.clocks = room.clocks
    BY <1>4 DEF Renewed
  <2>2. u \in Translation
    BY <1>4, <1>6, <1>7, <1>8, RenewedIs
  <2> QED  BY <1>3, <2>1, <2>2
<1>10. e2 \in Entry /\ e2.bank = e.bank /\ e2.nth = e.nth + 1 /\ e2.clk = e.clk
  BY <1>7, EntryIs
<1> HIDE DEF e2
<1>11. InPlace(e2, stop + 4)
  <2>1. stop + 4 < Base(e.bank + 1) /\ Base(e.bank) <= stop + 4
    <3>1. Base(e.bank) \in Nat
      BY <1>7, BaseIs
    <3> HIDE DEF e
    <3> QED  BY <1>2, <1>7, <3>1
  <2> HIDE DEF e
  <2> QED  BY <1>10, <2>1 DEF InPlace
<1> DEFINE at2 == Further(at, stop + 4, e2)
<1>12. Unit(at2, code2, writes2, stop)
  <2>1. stop \in DOMAIN at /\ stop # stop + 4
    BY <1>7 DEF Layout
  <2>2. at2[stop] = e /\ stop + 4 \in DOMAIN at2 /\ at2[stop + 4] = e2
    BY <2>1 DEF Further
  <2> HIDE DEF at2, e
  <2>3. e.clk - Due(write.at) \in -32 .. 31
    BY <1>3, <1>7
  <2>4. code2[stop + 1] = \h3E /\ code2[stop + 3] = \hE0
        /\ code2[stop + 2] = write.val /\ code2[stop + 4] = 16 + write.reg
    BY <1>8 DEF Ends3, x, y, z
  <2>5. at2[stop].nth < Len(writes2) /\ writes2[at2[stop].nth + 1] = write
    BY <1>1, <1>7, <2>2
  <2>6. at2[stop + 4] = [at2[stop] EXCEPT !.nth = @ + 1]
    BY <2>2 DEF e2
  <2>7. WriteAt(at2, code2, writes2, stop)
    BY <2>2, <2>3, <2>4, <2>5, <2>6 DEF WriteAt
  <2> QED  BY <2>7 DEF Unit
<1> HIDE DEF e
<1>13. Layout(at2, code2, writes2, stop + 4)
  <2>1. /\ stop + 4 \in Nat /\ stop < stop + 4 /\ Len(writes) = n /\ Len(writes2) \in Nat
        /\ Len(writes) <= Len(writes2) /\ Same(writes, writes2, Len(writes))
        /\ e2.nth = Len(writes2)
    BY <1>1, <1>7, <1>10 DEF n
  <2> QED  BY <1>1, <1>7, <1>8, <1>11, <1>12, <2>1, LayoutGrows
<1>14. at2[stop + 4] = e2
  BY DEF Further
<1> HIDE DEF at2
<1>15. OpenAt(at2, u, writes2)
  <2>1. Len(u.code) = stop + 4 /\ at2[Len(u.code)].clk = u.clocks
        /\ Base(at2[Len(u.code)].bank + 1) = u.codelen
    BY <1>3, <1>7, <1>8, <1>9, <1>10, <1>14
  <2> QED  BY <1>9, <1>13, <2>1 DEF OpenAt
<1> QED  BY <1>9, <1>15 DEF Opened, u, writes2

\* The delays before a write.
LEMMA EmitDelayTyped ==
  ASSUME NEW t \in Translation, NEW units \in 1 .. MaxUnits
  PROVE  EmitDelay(t, units) \in Translation
<1> DEFINE x == \hCF
           l == Low(units - 1)
           h == High(units - 1)
           t1 == Emit(t, x, 3)
           t2 == Emit(t1, l, 0)
           t3 == Emit(t2, h, 0)
           u == EmitDelay(t, units)
           k == 64 * units
<1>1. units - 1 \in Nat /\ units - 1 < 65536 /\ k \in Nat
  BY VgmSizes
<1>2. l \in Byte /\ h \in Byte /\ x \in Byte
  BY <1>1, TwoBytes DEF Byte
<1>3. u = [t3 EXCEPT !.clocks = @ + k]
  BY DEF EmitDelay
<1> HIDE DEF x, l, h, u, k
<1>4. t1 \in Translation
  BY <1>2, EmitIs
<1> HIDE DEF t1
<1>5. t2 \in Translation
  BY <1>2, <1>4, EmitIs
<1> HIDE DEF t2
<1>6. t3 \in Translation
  BY <1>2, <1>5, EmitIs
<1> HIDE DEF t3
<1>7. t3.clocks + k \in Nat
  BY <1>1, <1>6, TranslationFields
<1>8. u \in Translation
  BY <1>3, <1>6, <1>7 DEF Translation
<1> QED  BY <1>8 DEF u

LEMMA DelayingIs ==
  /\ Delaying \in [Translation \X (1 .. MaxUnits) -> Translation]
  /\ \A t \in Translation : \A units \in 1 .. MaxUnits :
       Delaying[<<t, units>>] = EmitDelay(t, units)
<1>1. \A p \in Translation \X (1 .. MaxUnits) : EmitDelay(p[1], p[2]) \in Translation
  BY EmitDelayTyped
<1> QED  BY <1>1 DEF Delaying

LEMMA DelaysAre ==
  ASSUME NEW units \in Nat
  PROVE  LET w == DelaysOf(units)
             l == (units + MaxUnits - 1) \div MaxUnits
         IN  /\ w \in Seq(1 .. MaxUnits) /\ Len(w) = l /\ l \in Nat
             /\ \A i \in 1 .. l : w[i] = Part(MaxUnits, units, i)
<1> DEFINE l == (units + MaxUnits - 1) \div MaxUnits
<1>1. MaxUnits \in Nat \ {0}
  BY VgmSizes
<1>2. l \in Nat /\ \A i \in 1 .. l : Part(MaxUnits, units, i) \in 1 .. MaxUnits
  BY <1>1, PartsAddUp
<1>3. DelaysOf(units) = [i \in 1 .. l |-> Part(MaxUnits, units, i)]
  BY DEF DelaysOf, Part
<1> HIDE DEF l
<1>4. [i \in 1 .. l |-> Part(MaxUnits, units, i)] \in Seq(1 .. MaxUnits)
  BY <1>2
<1> QED  BY <1>2, <1>3, <1>4 DEF l

LEMMA WaitedIs ==
  ASSUME NEW t, NEW writes, Len(writes) \in Nat, Opened(t, writes), NEW units \in Nat
  PROVE  LET u == Waited(t, units)
         IN  Opened(u, writes) /\ u.wait = t.wait /\ u.clocks = t.clocks + 64 * units
<1> DEFINE w == DelaysOf(units)
           l == (units + MaxUnits - 1) \div MaxUnits
           S == 1 .. MaxUnits
<1>0. t \in Translation /\ t.clocks \in Nat /\ MaxUnits \in Nat \ {0}
  BY TranslationFields, VgmSizes DEF Opened
<1>1. w \in Seq(S) /\ Len(w) = l /\ l \in Nat /\ \A i \in 1 .. l : w[i] = Part(MaxUnits, units, i)
  BY DelaysAre
<1>2. Upto(MaxUnits, units, 0) = 0 /\ Upto(MaxUnits, units, l) = units
  BY <1>0, PartsAddUp
<1>3. \A i \in 0 .. l : Upto(MaxUnits, units, i) \in Nat
  BY <1>0, PartsAddUp
<1>4. \A i \in 1 .. l : /\ Part(MaxUnits, units, i) \in S
                        /\ Upto(MaxUnits, units, i)
                             = Upto(MaxUnits, units, i - 1) + Part(MaxUnits, units, i)
  BY <1>0, PartsAddUp
<1>5. Waited(t, units) = Accumulated(Delaying, t, w)
  BY DEF Waited
<1> HIDE DEF w, l
<1>6. PICK run : Through(run, Delaying, t, w) /\ Accumulated(Delaying, t, w) = run[l]
  <2>1. Delaying \in [Translation \X S -> Translation]
    BY DelayingIs
  <2> HIDE DEF S
  <2>2. Reached(Delaying, t, w)
    BY <1>0, <1>1, <2>1, AccumulatedThrough
  <2> QED  BY <1>1, <2>2 DEF Reached
<1> DEFINE Good(i) == /\ Opened(run[i], writes) /\ run[i].wait = t.wait
                      /\ run[i].clocks = t.clocks + 64 * Upto(MaxUnits, units, i)
           T == {i \in Nat : i <= l => Good(i)}
<1>7. 0 \in T
  <2>1. run[0] = t
    BY <1>1, <1>6 DEF Through
  <2> QED  BY <1>0, <1>2, <2>1
<1>8. ASSUME NEW i \in Nat, i \in T PROVE i + 1 \in T
  <2> SUFFICES ASSUME i + 1 <= l PROVE Good(i + 1)
    OBVIOUS
  <2> DEFINE p == Part(MaxUnits, units, i + 1)
  <2>1. /\ i + 1 \in 0 .. Len(w) /\ i + 1 # 0 /\ i + 1 - 1 = i /\ i + 1 \in 1 .. l
        /\ i <= l /\ i \in 0 .. l
    BY <1>1
  <2>2. run[i + 1] = Delaying[<<run[i], p>>] /\ p \in S
    BY <1>1, <1>4, <1>6, <2>1 DEF Through
  <2>3. Good(i)
    BY <1>8, <2>1
  <2>4. run[i] \in Translation
    BY <2>3 DEF Opened
  <2>5. run[i + 1] = EmitDelay(run[i], p)
    BY <2>2, <2>4, DelayingIs
  <2>6. Upto(MaxUnits, units, i + 1) = Upto(MaxUnits, units, i) + p
    BY <1>4, <2>1
  <2> HIDE DEF p
  <2>7. /\ Opened(run[i + 1], writes) /\ run[i + 1].wait = run[i].wait
        /\ run[i + 1].clocks = run[i].clocks + 64 * p
    BY <2>2, <2>3, <2>5, DelayEmitted
  <2>8. p \in Nat /\ Upto(MaxUnits, units, i) \in Nat
    BY <1>3, <2>1, <2>2
  <2> QED  BY <1>0, <2>3, <2>6, <2>7, <2>8
<1>9. \A i \in Nat : i \in T
  <2> HIDE DEF T
  <2> QED  BY <1>7, <1>8, Induction
<1>10. Good(l)
  BY <1>1, <1>9
<1> QED  BY <1>2, <1>5, <1>6, <1>10

\* The rounding of a delay to units.
LEMMA ToUnits ==
  ASSUME NEW due \in Nat, NEW clocks \in Nat, clocks <= due + 31,
         NEW units, units = (due - clocks + 31) \div 64,
         NEW after, after = clocks + 64 * units
  PROVE  units \in Nat /\ after - due \in -32 .. 31 /\ after \in Nat
OBVIOUS

LEMMA DueGrows ==
  ASSUME NEW samples \in Nat, NEW more \in Nat
  PROVE  Due(samples) \in Nat /\ Due(samples) <= Due(samples + more)
BY DEF Due

-----------------------------------------------------------------------------
(***************************************************************************)
(* The commands.                                                           *)
(***************************************************************************)
LEMMA CountIs == \A n \in Uint16 : n \in Nat
BY DEF Uint16

LEMMA CommandIs ==
  ASSUME NEW cmd \in Command
  PROVE  \/ cmd.op = \hB3 /\ IsWrite(cmd) /\ cmd.reg \in 0 .. 47 /\ cmd.val \in Byte
         \/ cmd.op # \hB3 /\ ~ IsWrite(cmd) /\ Samples(cmd) \in Nat
<1>1. CASE cmd \in WriteCommand
  BY <1>1 DEF WriteCommand, IsWrite, Byte
<1>2. CASE cmd \in WaitCommand
  <2>1. cmd.op \in Waits /\ cmd.n \in Uint16
    BY <1>2 DEF WaitCommand
  <2>2. cmd.op # \hB3 /\ cmd.op \in Nat
    BY <2>1 DEF Waits
  <2>3. cmd.n \in Nat
    BY <2>1, CountIs
  <2>4. (cmd.op % 16) + 1 \in Nat
    BY <2>2
  <2>5. Samples(cmd) \in Nat
    BY <2>3, <2>4 DEF Samples
  <2> QED  BY <2>2, <2>5 DEF IsWrite
<1> QED  BY <1>1, <1>2 DEF Command

\* A score with one command more.
Noted(score, cmd) ==
  IF IsWrite(cmd)
  THEN [writes |-> Append(score.writes,
                          [reg |-> cmd.reg, val |-> cmd.val, at |-> score.samples]),
        samples |-> score.samples]
  ELSE [writes |-> score.writes, samples |-> score.samples + Samples(cmd)]

LEMMA ScoreFields ==
  ASSUME NEW score \in Score
  PROVE  /\ score.writes \in Seq(Timed) /\ score.samples \in Nat
         /\ score = [writes |-> score.writes, samples |-> score.samples]
         /\ Len(score.writes) \in Nat
<1>1. score.writes \in Seq(Timed) /\ score.samples \in Nat
  BY DEF Score, Timed
<1>2. score = [writes |-> score.writes, samples |-> score.samples]
  BY DEF Score
<1> QED  BY <1>1, <1>2

LEMMA NotingIs ==
  /\ Noting \in [Score \X Command -> Score]
  /\ \A score \in Score : \A cmd \in Command : Noting[<<score, cmd>>] = Noted(score, cmd)
<1> DEFINE note(score, cmd) ==
      LET write == [reg |-> cmd.reg, val |-> cmd.val, at |-> score.samples]
      IN  IF IsWrite(cmd) THEN [score EXCEPT !.writes = Append(@, write)]
          ELSE [score EXCEPT !.samples = @ + Samples(cmd)]
<1>1. ASSUME NEW score \in Score, NEW cmd \in Command
      PROVE  note(score, cmd) = Noted(score, cmd) /\ Noted(score, cmd) \in Score
  <2> DEFINE old == score.writes
             n == score.samples
             write == [reg |-> cmd.reg, val |-> cmd.val, at |-> n]
             k == Samples(cmd)
  <2>1. old \in Seq(Timed) /\ n \in Nat /\ score = [writes |-> old, samples |-> n]
    BY ScoreFields
  <2>2. CASE IsWrite(cmd)
    <3>1. write \in Timed
      <4>1. cmd.reg \in 0 .. 47 /\ cmd.val \in Byte
        BY <2>2, CommandIs
      <4> QED  BY <2>1, <4>1 DEF Timed
    <3>2. note(score, cmd) = [score EXCEPT !.writes = Append(old, write)]
      BY <2>2
    <3>3. Noted(score, cmd) = [writes |-> Append(old, write), samples |-> n]
      BY <2>2 DEF Noted
    <3> HIDE DEF old, n, write
    <3> DEFINE new == Append(old, write)
    <3>4. new \in Seq(Timed)
      BY <2>1, <3>1
    <3> HIDE DEF new
    <3>5. [score EXCEPT !.writes = new] = [writes |-> new, samples |-> n]
      BY <2>1
    <3>6. [writes |-> new, samples |-> n] \in Score
      BY <2>1, <3>4 DEF Score, Timed
    <3> QED  BY <3>2, <3>3, <3>5, <3>6 DEF new
  <2>3. CASE ~ IsWrite(cmd)
    <3>1. note(score, cmd) = [score EXCEPT !.samples = n + k]
      BY <2>3
    <3>2. Noted(score, cmd) = [writes |-> old, samples |-> n + k]
      BY <2>3 DEF Noted
    <3>3. n + k \in Nat
      <4>1. k \in Nat
        BY <2>3, CommandIs
      <4> HIDE DEF k, n
      <4> QED  BY <2>1, <4>1
    <3> HIDE DEF old, n, k
    <3>4. [score EXCEPT !.samples = n + k] = [writes |-> old, samples |-> n + k]
      BY <2>1
    <3>5. [writes |-> old, samples |-> n + k] \in Score
      BY <2>1, <3>3 DEF Score, Timed
    <3> QED  BY <3>1, <3>2, <3>4, <3>5
  <2> QED  BY <2>2, <2>3
<1>2. Noting = [p \in Score \X Command |-> note(p[1], p[2])]
  BY DEF Noting
<1> HIDE DEF note
<1>3. \A p \in Score \X Command : note(p[1], p[2]) = Noted(p[1], p[2]) /\ note(p[1], p[2]) \in Score
  BY <1>1
<1> QED  BY <1>1, <1>2, <1>3

LEMMA ScoreIs ==
  ASSUME NEW cmds \in Seq(Command), NEW cmd \in Command
  PROVE  ScoreOf(cmds) \in Score /\ ScoreOf(Append(cmds, cmd)) = Noted(ScoreOf(cmds), cmd)
<1> DEFINE base == [writes |-> <<>>, samples |-> 0]
<1>1. base \in Score
  <2>1. <<>> \in Seq([reg: 0 .. 47, val: Byte, at: Nat])
    OBVIOUS
  <2> QED  BY <2>1 DEF Score
<1>2. ScoreOf(cmds) = Accumulated(Noting, base, cmds)
      /\ ScoreOf(Append(cmds, cmd)) = Accumulated(Noting, base, Append(cmds, cmd))
  BY DEF ScoreOf
<1> HIDE DEF base
<1>3. Noting \in [Score \X Command -> Score]
  BY NotingIs
<1>4. Accumulated(Noting, base, cmds) \in Score /\ OneMore(Noting, base, cmds, cmd)
  BY <1>1, <1>3, AccumulatedAppend
<1> QED  BY <1>2, <1>4, NotingIs DEF OneMore

LEMMA ScoreOfNothing == ScoreOf(<<>>) = [writes |-> <<>>, samples |-> 0]
<1> DEFINE base == [writes |-> <<>>, samples |-> 0]
<1>1. base \in Score
  <2>1. <<>> \in Seq([reg: 0 .. 47, val: Byte, at: Nat])
    OBVIOUS
  <2> QED  BY <2>1 DEF Score
<1>2. Noting \in [Score \X Command -> Score]
  BY NotingIs
<1> HIDE DEF base
<1>3. Accumulated(Noting, base, <<>>) = base
  BY <1>1, <1>2, AccumulatedEmpty
<1> QED  BY <1>3 DEF ScoreOf, base

\* What the translation of some commands has come to.
Translated(t, cmds) ==
  LET score == ScoreOf(cmds)
  IN  Opened(t, score.writes) /\ t.wait = score.samples /\ t.clocks <= Due(t.wait) + 31

LEMMA WriteTranslated ==
  ASSUME NEW t, NEW cmds \in Seq(Command), Translated(t, cmds),
         NEW cmd \in Command, cmd.op = \hB3
  PROVE  Translated(OnWrite(t, cmd), Append(cmds, cmd))
<1> DEFINE score == ScoreOf(cmds)
           writes == score.writes
           due == Due(t.wait)
           units == (due - t.clocks + 31) \div 64
           u == Waited(t, units)
           write == [reg |-> cmd.reg, val |-> cmd.val, at |-> t.wait]
           v == EmitWrite(u, write.val, write.reg)
<1>1. score \in Score /\ ScoreOf(Append(cmds, cmd)) = Noted(score, cmd)
  BY ScoreIs
<1>2. /\ Opened(t, writes) /\ t.wait = score.samples /\ t.clocks <= due + 31
      /\ writes \in Seq(Timed) /\ Len(writes) \in Nat
  BY <1>1, ScoreFields DEF Translated
<1>3. t \in Translation /\ t.wait \in Nat /\ t.clocks \in Nat /\ due \in Nat
  <2>1. t \in Translation
    BY <1>2 DEF Opened
  <2>2. t.wait \in Nat /\ t.clocks \in Nat
    BY <2>1, TranslationFields
  <2>3. Due(t.wait) \in Nat
    BY <2>2, DueGrows, ZenonT(60)
  <2> QED  BY <2>1, <2>2, <2>3
<1>4. IsWrite(cmd) /\ write \in Timed
  <2>1. IsWrite(cmd) /\ cmd.reg \in 0 .. 47 /\ cmd.val \in Byte
    BY CommandIs
  <2> QED  BY <1>3, <2>1 DEF Timed
<1>5. OnWrite(t, cmd) = v
  BY DEF OnWrite, EmitWrite, Emit3, Due
<1>6. Noted(score, cmd) = [writes |-> Append(writes, write), samples |-> score.samples]
  BY <1>2, <1>4 DEF Noted
<1>7. write.at = t.wait
  OBVIOUS
<1> HIDE DEF score, writes, due, write
<1> DEFINE c == t.clocks + 64 * units
<1>8. units \in Nat /\ c - due \in -32 .. 31 /\ c \in Nat
  <2> DEFINE k == t.clocks
  <2>1. /\ k \in Nat /\ k <= due + 31 /\ units = (due - k + 31) \div 64
        /\ c = k + 64 * units
    BY <1>2, <1>3
  <2> HIDE DEF k, c, units, u, v
  <2> QED  BY <1>3, <2>1, ToUnits
<1> HIDE DEF units
<1>9. Opened(u, writes) /\ u.wait = t.wait /\ u.clocks = t.clocks + 64 * units
  BY <1>2, <1>8, WaitedIs, ZenonT(60)
<1> HIDE DEF u
<1>10. u.clocks - Due(write.at) \in -32 .. 31
  <2>1. u.clocks = c /\ Due(write.at) = due
    BY <1>7, <1>9 DEF due
  <2>2. c - due \in -32 .. 31
    BY <1>8
  <2> HIDE DEF c, due
  <2> QED  BY <2>1, <2>2
<1>11. Opened(v, Append(writes, write)) /\ v.wait = u.wait /\ v.clocks = u.clocks
  BY <1>2, <1>4, <1>9, <1>10, WriteEmitted
<1> HIDE DEF v
<1>12. v.clocks <= Due(v.wait) + 31
  <2>1. v.wait = t.wait /\ v.clocks = c
    BY <1>9, <1>11
  <2>2. c <= due + 31
    <3>1. c \in Int /\ c - due \in -32 .. 31
      BY <1>8
    <3> HIDE DEF c
    <3> QED  BY <1>3, <3>1
  <2> QED  BY <2>1, <2>2 DEF due
<1> QED  BY <1>1, <1>2, <1>5, <1>6, <1>9, <1>11, <1>12 DEF Translated

LEMMA WaitTranslated ==
  ASSUME NEW t, NEW cmds \in Seq(Command), Translated(t, cmds),
         NEW cmd \in Command, cmd.op # \hB3
  PROVE  Translated([t EXCEPT !.wait = @ + Samples(cmd)], Append(cmds, cmd))
<1> DEFINE score == ScoreOf(cmds)
           k == Samples(cmd)
           wait == t.wait + k
           u == [t EXCEPT !.wait = @ + k]
<1>1. score \in Score /\ ScoreOf(Append(cmds, cmd)) = Noted(score, cmd)
  BY ScoreIs
<1>2. ~ IsWrite(cmd) /\ k \in Nat
  BY CommandIs
<1>3. /\ Opened(t, score.writes) /\ t.wait = score.samples /\ t.clocks <= Due(t.wait) + 31
      /\ t \in Translation /\ t.wait \in Nat /\ t.clocks \in Nat
  <2>1. Opened(t, score.writes) /\ t.wait = score.samples /\ t.clocks <= Due(t.wait) + 31
    BY DEF Translated
  <2>2. t \in Translation
    BY <2>1 DEF Opened
  <2> QED  BY <2>1, <2>2, TranslationFields
<1>4. Noted(score, cmd) = [writes |-> score.writes, samples |-> wait]
  BY <1>2, <1>3 DEF Noted
<1> HIDE DEF score, k
<1>5. wait \in Nat /\ u = [t EXCEPT !.wait = wait]
  BY <1>2, <1>3
<1>6. Due(wait) \in Nat /\ Due(t.wait) \in Nat /\ Due(t.wait) <= Due(wait)
  BY <1>2, <1>3, <1>5, DueGrows
<1> HIDE DEF wait, u
<1>7. /\ u \in Translation /\ u.code = t.code /\ u.codelen = t.codelen
      /\ u.wait = wait /\ u.clocks = t.clocks
  BY <1>3, <1>5 DEF Translation
<1>8. Opened(u, score.writes)
  BY <1>3, <1>7 DEF Opened, OpenAt
<1>9. u.clocks <= Due(wait) + 31
  BY <1>3, <1>6, <1>7
<1>10. Translated(u, Append(cmds, cmd))
  BY <1>1, <1>4, <1>7, <1>8, <1>9 DEF Translated
<1> QED  BY <1>10 DEF u, k

\* Nothing has been translated yet.
LEMMA NothingTranslated ==
  ASSUME NEW t, t = [code |-> <<>>, codelen |-> BankSize, wait |-> 0, clocks |-> 0]
  PROVE  Translated(t, <<>>)
<1> DEFINE at == [p \in {0} |-> [bank |-> 1, nth |-> 0, clk |-> 0]]
<1>1. t \in Translation
  <2>1. <<>> \in Seq(Byte) /\ BankSize \in Nat
    BY VgmSizes
  <2> QED  BY <2>1 DEF Translation
<1>2. DOMAIN at = {0} /\ at[0] = [bank |-> 1, nth |-> 0, clk |-> 0]
  OBVIOUS
<1>3. 1 \in Nat \ {0} /\ Base(1) = 0 /\ Base(1 + 1) = BankSize /\ BankSize > 0
  <2>1. Base(1) = 0 /\ Base(2) = BankSize
    BY BaseIs
  <2>2. 1 + 1 = 2
    OBVIOUS
  <2> QED  BY <2>1, <2>2, VgmSizes
<1> HIDE DEF at
<1>4. InPlace(at[0], 0)
  BY <1>2, <1>3, VgmSizes DEF InPlace, Entry
<1>5. Len(<<>>) = 0 /\ t.code = <<>> /\ t.codelen = BankSize /\ t.wait = 0 /\ t.clocks = 0
  OBVIOUS
<1>6. Layout(at, <<>>, <<>>, 0)
  BY <1>2, <1>4, <1>5 DEF Layout
<1>7. OpenAt(at, t, <<>>)
  BY <1>2, <1>3, <1>5, <1>6 DEF OpenAt
<1>8. t.clocks <= Due(t.wait) + 31
  <2>1. Due(0) \in Nat
    BY DueGrows
  <2> QED  BY <1>5, <2>1
<1> QED  BY <1>1, <1>5, <1>7, <1>8, ScoreOfNothing DEF Translated, Opened

\* The end of the translation.
Closed(t, writes) == t \in Translation /\ \E at : ClosedAt(at, t, writes)

LEMMA EndTranslated ==
  ASSUME NEW t, NEW writes, Len(writes) \in Nat, Opened(t, writes)
  PROVE  Closed(Emit(t, \hFF, 1), writes)
<1> DEFINE room == Roomy(t, 1)
           x == \hFF
           u == Emit(t, x, 1)
           stop == Len(room.code)
           code2 == Append(room.code, x)
<1>1. t \in Translation /\ x \in Byte
  BY DEF Opened, Byte
<1>2. room \in Translation /\ u = Renewed(room, code2, room.codelen) /\ u \in Translation
  <2> HIDE DEF x
  <2> QED  BY <1>1, EmitIs
<1>3. Opened(room, writes) /\ stop + 1 + 1 <= room.codelen
  <2>1. 1 \in Nat /\ 1 <= 4
    OBVIOUS
  <2> QED  BY <2>1, RoomIs
<1>4. PICK at : OpenAt(at, room, writes)
  BY <1>3 DEF Opened
<1>5. Layout(at, room.code, writes, stop) /\ stop \in Nat /\ room.code \in Seq(Byte)
  BY <1>2, <1>4, OpenIs
<1>6. room.codelen \in Nat
  BY <1>2, TranslationFields
<1>7. /\ code2 \in Seq(Byte) /\ Len(code2) = stop + 1 /\ Same(room.code, code2, stop)
      /\ code2[stop + 1] = x
  <2> DEFINE c == room.code
  <2>1. c \in Seq(Byte) /\ stop = Len(c) /\ code2 = Append(c, x)
    BY <1>5
  <2> HIDE DEF c, x, room, code2, stop
  <2>2. code2 \in Seq(Byte) /\ Len(code2) = Len(c) + 1 /\ Same(c, code2, Len(c)) /\ code2[Len(c) + 1] = x
    BY <1>1, <2>1 DEF Same
  <2> QED  BY <2>1, <2>2 DEF c
<1> HIDE DEF code2, u
<1>8. u.code = code2 /\ u.codelen = room.codelen
  BY <1>2 DEF Renewed
<1> HIDE DEF room, stop
<1>9. ASSUME NEW p \in DOMAIN at, p # stop PROVE Unit(at, code2, writes, p)
  <2>1. /\ Unit(at, room.code, writes, p) /\ DOMAIN at \subseteq 0 .. stop /\ p \in 0 .. stop
        /\ p + 1 \in 1 .. stop
    BY <1>5, <1>9 DEF Layout
  <2>2. CASE DelayAt(at, room.code, p)
    <3>1. p + 3 \in 0 .. stop
      BY <2>1, <2>2 DEF DelayAt
    <3>2. p + 2 \in 1 .. stop /\ p + 3 \in 1 .. stop
      BY <1>5, <2>1, <3>1
    <3>3. /\ code2[p + 1] = room.code[p + 1] /\ code2[p + 2] = room.code[p + 2]
          /\ code2[p + 3] = room.code[p + 3]
      BY <1>7, <2>1, <3>2 DEF Same
    <3>4. DelayAt(at, code2, p)
      BY <2>2, <3>3 DEF DelayAt
    <3> QED  BY <3>4 DEF Unit
  <2>3. CASE WriteAt(at, room.code, writes, p)
    <3>1. p + 4 \in 0 .. stop
      BY <2>1, <2>3 DEF WriteAt
    <3>2. p + 2 \in 1 .. stop /\ p + 3 \in 1 .. stop /\ p + 4 \in 1 .. stop
      BY <1>5, <2>1, <3>1
    <3>3. /\ code2[p + 1] = room.code[p + 1] /\ code2[p + 2] = room.code[p + 2]
          /\ code2[p + 3] = room.code[p + 3] /\ code2[p + 4] = room.code[p + 4]
      BY <1>7, <2>1, <3>2 DEF Same
    <3>4. WriteAt(at, code2, writes, p)
      BY <2>3, <3>3 DEF WriteAt
    <3> QED  BY <3>4 DEF Unit
  <2>4. CASE BankEndAt(at, room.code, p)
    <3>1. code2[p + 1] = room.code[p + 1]
      BY <1>7, <2>1 DEF Same
    <3>2. BankEndAt(at, code2, p)
      BY <2>4, <3>1 DEF BankEndAt
    <3> QED  BY <3>2 DEF Unit
  <2> QED  BY <2>1, <2>2, <2>3, <2>4 DEF Unit
<1>10. Layout(at, code2, writes, stop)
  BY <1>5, <1>9 DEF Layout
<1>11. Len(code2) > 0 /\ Len(code2) - 1 = stop /\ Len(code2) <= room.codelen
  BY <1>3, <1>5, <1>6, <1>7
<1>12. code2[Len(code2)] = \hFF
  BY <1>7 DEF x
<1>13. ClosedAt(at, u, writes)
  BY <1>8, <1>10, <1>11, <1>12 DEF ClosedAt
<1> QED  BY <1>2, <1>13 DEF Closed, u, x

-----------------------------------------------------------------------------
(***************************************************************************)
(* The routines in the lower bank.                                         *)
(***************************************************************************)
DelayBytes ==
  <<\hE1, \h2A, \h5F, \h2A, \h57, \hE5>> \o <<\h7A, \hB3, \hC8, \h1B, \h23, \h23, \h23>>
  \o <<\hC3, 14, 0>>
TrapBytes == <<\hF3, \h76, \hC3, Trap, 0>>
LoopBytes ==
  <<\hF3, \h3E, 1>> \o <<\hE0, 128, \h21, 0, 32, \h77>> \o <<\hCD, 0, 64>> \o <<\hF0, 128, \h3C>>
  \o <<\hC3, Low(VgmInitAddr + 3), High(VgmInitAddr + 3)>>

LEMMA DelayBytesAre ==
  /\ Len(DelayBytes) = 16
  /\ DelayBytes[1] = \hE1 /\ DelayBytes[2] = \h2A /\ DelayBytes[3] = \h5F
  /\ DelayBytes[4] = \h2A /\ DelayBytes[5] = \h57 /\ DelayBytes[6] = \hE5
  /\ DelayBytes[7] = \h7A /\ DelayBytes[8] = \hB3 /\ DelayBytes[9] = \hC8
  /\ DelayBytes[10] = \h1B /\ DelayBytes[11] = \h23 /\ DelayBytes[12] = \h23
  /\ DelayBytes[13] = \h23 /\ DelayBytes[14] = \hC3 /\ DelayBytes[15] = 14
  /\ DelayBytes[16] = 0
BY DEF DelayBytes

LEMMA LoopBytesAre ==
  /\ Len(LoopBytes) = 18
  /\ LoopBytes[1] = \hF3 /\ LoopBytes[2] = \h3E /\ LoopBytes[3] = 1
  /\ LoopBytes[4] = \hE0 /\ LoopBytes[5] = 128 /\ LoopBytes[6] = \h21
  /\ LoopBytes[7] = 0 /\ LoopBytes[8] = 32 /\ LoopBytes[9] = \h77
  /\ LoopBytes[10] = \hCD /\ LoopBytes[11] = 0 /\ LoopBytes[12] = 64
  /\ LoopBytes[13] = \hF0 /\ LoopBytes[14] = 128 /\ LoopBytes[15] = \h3C
  /\ LoopBytes[16] = \hC3 /\ LoopBytes[17] = Low(1091) /\ LoopBytes[18] = High(1091)
BY DEF LoopBytes, VgmInitAddr

LEMMA TrapBytesAre ==
  /\ Len(TrapBytes) = 5
  /\ TrapBytes[1] = \hF3 /\ TrapBytes[2] = \h76 /\ TrapBytes[3] = \hC3
  /\ TrapBytes[4] = 56 /\ TrapBytes[5] = 0
BY DEF TrapBytes, Trap

LEMMA LowerIs ==
  /\ \A i \in 1 .. 16 : Read(7 + i) = DelayBytes[i]
  /\ \A i \in 1 .. 5 : Read(55 + i) = TrapBytes[i]
  /\ \A i \in 1 .. 18 : Read(1087 + i) = LoopBytes[i]
<1> DEFINE d == DelayRoutine
           t == TrapRoutine
           b == BankLoop
<1>1. d = Seq2Fun(8, DelayBytes) /\ t = Seq2Fun(56, TrapBytes) /\ b = Seq2Fun(1088, LoopBytes)
  BY DEF DelayRoutine, TrapRoutine, BankLoop, DelayBytes, TrapBytes, LoopBytes, VgmInitAddr, Trap
<1>2. Len(DelayBytes) = 16 /\ Len(TrapBytes) = 5 /\ Len(LoopBytes) = 18
  BY DelayBytesAre, TrapBytesAre, LoopBytesAre
<1> HIDE DEF d, t, b
<1>3. DOMAIN d = 8 .. 23 /\ \A i \in 1 .. 16 : d[7 + i] = DelayBytes[i]
  <2>1. DOMAIN d = 8 .. 23 /\ \A x \in 8 .. 23 : d[x] = DelayBytes[x - 8 + 1]
    BY <1>1, <1>2 DEF Seq2Fun
  <2>2. \A i \in 1 .. 16 : 7 + i \in 8 .. 23 /\ 7 + i - 8 + 1 = i
    OBVIOUS
  <2> QED  BY <2>1, <2>2
<1>4. DOMAIN t = 56 .. 60 /\ \A i \in 1 .. 5 : t[55 + i] = TrapBytes[i]
  <2>1. DOMAIN t = 56 .. 60 /\ \A x \in 56 .. 60 : t[x] = TrapBytes[x - 56 + 1]
    BY <1>1, <1>2 DEF Seq2Fun
  <2>2. \A i \in 1 .. 5 : 55 + i \in 56 .. 60 /\ 55 + i - 56 + 1 = i
    OBVIOUS
  <2> QED  BY <2>1, <2>2
<1>5. DOMAIN b = 1088 .. 1105 /\ \A i \in 1 .. 18 : b[1087 + i] = LoopBytes[i]
  <2>1. DOMAIN b = 1088 .. 1105 /\ \A x \in 1088 .. 1105 : b[x] = LoopBytes[x - 1088 + 1]
    BY <1>1, <1>2 DEF Seq2Fun
  <2>2. \A i \in 1 .. 18 : 1087 + i \in 1088 .. 1105 /\ 1087 + i - 1088 + 1 = i
    OBVIOUS
  <2> QED  BY <2>1, <2>2
<1>6. \A x : Lower(x) = CASE x \in DOMAIN d -> d[x] [] x \in DOMAIN t -> t[x]
                          [] x \in DOMAIN b -> b[x] [] OTHER -> 0
  BY DEF Lower, d, t, b
<1>7. ASSUME NEW i \in 1 .. 16 PROVE Lower(7 + i) = DelayBytes[i] /\ 7 + i < 16384
  <2>1. 7 + i \in 8 .. 23 /\ 7 + i \notin 56 .. 60 /\ 7 + i \notin 1088 .. 1105 /\ 7 + i < 16384
    OBVIOUS
  <2> QED  BY <1>3, <1>4, <1>5, <1>6, <2>1
<1>8. ASSUME NEW i \in 1 .. 5 PROVE Lower(55 + i) = TrapBytes[i] /\ 55 + i < 16384
  <2>1. 55 + i \in 56 .. 60 /\ 55 + i \notin 8 .. 23 /\ 55 + i \notin 1088 .. 1105 /\ 55 + i < 16384
    OBVIOUS
  <2> QED  BY <1>3, <1>4, <1>5, <1>6, <2>1
<1>9. ASSUME NEW i \in 1 .. 18 PROVE Lower(1087 + i) = LoopBytes[i] /\ 1087 + i < 16384
  <2>1. /\ 1087 + i \in 1088 .. 1105 /\ 1087 + i \notin 8 .. 23 /\ 1087 + i \notin 56 .. 60
        /\ 1087 + i < 16384
    OBVIOUS
  <2> QED  BY <1>3, <1>4, <1>5, <1>6, <2>1
<1>10. \A x \in Nat : x < 16384 => Read(x) = Lower(x)
  <2>1. ASSUME NEW x \in Nat, x < 16384 PROVE Read(x) = Lower(x)
    <3>1. x \notin 16384 .. 16384 + BankSize - 1 /\ x \notin 16384 + BankSize .. 40959
      BY <2>1, VgmSizes
    <3> QED  BY <2>1, <3>1 DEF Read
  <2> QED  BY <2>1
<1> QED  BY <1>7, <1>8, <1>9, <1>10

LEMMA LowerBytes ==
  /\ Read(8) = \hE1 /\ Read(9) = \h2A /\ Read(10) = \h5F /\ Read(11) = \h2A
  /\ Read(12) = \h57 /\ Read(13) = \hE5 /\ Read(14) = \h7A /\ Read(15) = \hB3
  /\ Read(16) = \hC8 /\ Read(17) = \h1B /\ Read(18) = \h23 /\ Read(19) = \h23
  /\ Read(20) = \h23 /\ Read(21) = \hC3 /\ Read(22) + 256 * Read(23) = 14
  /\ Read(56) = \hF3 /\ Read(57) = \h76 /\ Read(58) = \hC3
  /\ Read(59) + 256 * Read(60) = 56
  /\ Read(1088) = \hF3 /\ Read(1089) = \h3E /\ Read(1090) = 1 /\ Read(1091) = \hE0
  /\ Read(1092) = 128 /\ Read(1093) = \h21 /\ Read(1094) + 256 * Read(1095) = 8192
  /\ Read(1096) = \h77 /\ Read(1097) = \hCD /\ Read(1098) + 256 * Read(1099) = 16384
  /\ Read(1100) = \hF0 /\ Read(1101) = 128 /\ Read(1102) = \h3C /\ Read(1103) = \hC3
  /\ Read(1104) + 256 * Read(1105) = 1091
<1>1. \A x \in 8 .. 23 : Read(x) = DelayBytes[x - 7]
  <2>1. \A x \in 8 .. 23 : x - 7 \in 1 .. 16 /\ 7 + (x - 7) = x
    OBVIOUS
  <2> QED  BY <2>1, LowerIs
<1>2. \A x \in 56 .. 60 : Read(x) = TrapBytes[x - 55]
  <2>1. \A x \in 56 .. 60 : x - 55 \in 1 .. 5 /\ 55 + (x - 55) = x
    OBVIOUS
  <2> QED  BY <2>1, LowerIs
<1>3. \A x \in 1088 .. 1105 : Read(x) = LoopBytes[x - 1087]
  <2>1. \A x \in 1088 .. 1105 : x - 1087 \in 1 .. 18 /\ 1087 + (x - 1087) = x
    OBVIOUS
  <2> QED  BY <2>1, LowerIs
<1>4. /\ Read(8) = \hE1 /\ Read(9) = \h2A /\ Read(10) = \h5F /\ Read(11) = \h2A
      /\ Read(12) = \h57 /\ Read(13) = \hE5 /\ Read(14) = \h7A /\ Read(15) = \hB3
  BY <1>1, DelayBytesAre
<1>5. /\ Read(16) = \hC8 /\ Read(17) = \h1B /\ Read(18) = \h23 /\ Read(19) = \h23
      /\ Read(20) = \h23 /\ Read(21) = \hC3 /\ Read(22) + 256 * Read(23) = 14
  BY <1>1, DelayBytesAre
<1>6. /\ Read(56) = \hF3 /\ Read(57) = \h76 /\ Read(58) = \hC3
      /\ Read(59) + 256 * Read(60) = 56
  BY <1>2, TrapBytesAre
<1>7. /\ Read(1088) = \hF3 /\ Read(1089) = \h3E /\ Read(1090) = 1 /\ Read(1091) = \hE0
      /\ Read(1092) = 128 /\ Read(1093) = \h21 /\ Read(1094) + 256 * Read(1095) = 8192
  BY <1>3, LoopBytesAre
<1>8. /\ Read(1096) = \h77 /\ Read(1097) = \hCD /\ Read(1098) + 256 * Read(1099) = 16384
      /\ Read(1100) = \hF0 /\ Read(1101) = 128 /\ Read(1102) = \h3C /\ Read(1103) = \hC3
  BY <1>3, LoopBytesAre
<1>9. Read(1104) + 256 * Read(1105) = 1091
  <2>1. Low(1091) + 256 * High(1091) = 1091
    BY WordIs
  <2>2. Read(1104) = Low(1091) /\ Read(1105) = High(1091)
    BY <1>3, LoopBytesAre
  <2> QED  BY <2>1, <2>2
<1> QED  BY <1>4, <1>5, <1>6, <1>7, <1>8, <1>9

-----------------------------------------------------------------------------
(***************************************************************************)
(* The instructions of the code.                                           *)
(***************************************************************************)
LEMMA DecodedVgm ==
  ASSUME NEW op, NEW imm8, NEW imm16, NEW found, Execute(op, imm8, imm16, found)
  PROVE  /\ op = \h2A => LdAHlInc(found)
         /\ op = \h5F => LdE
         /\ op = \h57 => LdD
         /\ op = \h7A => LdAD
         /\ op = \hB3 => OrE
         /\ op = \h1B => DecDe
         /\ op = \h23 => IncHl
         /\ op = \hF0 => LdhGet(imm8)
         /\ op = \h3C => IncA
         /\ op = \h77 => LdAtHl(a, 1)
<1>1. ControlFlow(op, imm8, imm16) \/ Loads(op, imm8, imm16, found)
  BY DEF Execute
<1> USE DEF ControlFlow, Loads, JrConds, RetConds, JpConds, CallConds, Rsts
<1>2. op = \h2A => LdAHlInc(found)
  BY <1>1
<1>3. op = \h5F => LdE
  BY <1>1
<1>4. op = \h57 => LdD
  BY <1>1
<1>5. op = \h7A => LdAD
  BY <1>1
<1>6. op = \hB3 => OrE
  BY <1>1
<1>7. op = \h1B => DecDe
  BY <1>1
<1>8. op = \h23 => IncHl
  BY <1>1
<1>9. op = \hF0 => LdhGet(imm8)
  BY <1>1
<1>10. op = \h3C => IncA
  BY <1>1
<1>11. op = \h77 => LdAtHl(a, 1)
  BY <1>1
<1> QED  BY <1>2, <1>3, <1>4, <1>5, <1>6, <1>7, <1>8, <1>9, <1>10, <1>11

\* What an instruction leaves alone, and how time goes on.
Quiet == written' = written /\ delays' = delays /\ bank' = bank
Ticks(to, time) == pc' = to /\ clock' = clock + time
OnClock == clock \in Nat /\ pc \in Nat /\ pc <= 65532

LEMMA TicksIs ==
  ASSUME OnClock, NEW time
  PROVE  /\ Passes(1, time) => Ticks(pc + 1, time)
         /\ Passes(2, time) => Ticks(pc + 2, time)
         /\ Passes(3, time) => Ticks(pc + 3, time)
         /\ \A to, on, stops : Goes(to, on, stops) /\ Takes(time) => Ticks(to, time)
<1>1. After(1) = pc + 1 /\ After(2) = pc + 2 /\ After(3) = pc + 3
  BY AfterIs DEF OnClock
<1>2. clock # Untimed
  BY DEF OnClock, Untimed
<1> QED  BY <1>1, <1>2 DEF Passes, Goes, Takes, Ticks

LEMMA QuietIs ==
  ASSUME Step
  PROVE  /\ Read(pc) \notin {\h77, \hE0, \hCF} => Quiet
         /\ Read(pc) = \hCF => written' = written /\ delays' = delays + 1 /\ bank' = bank
         /\ Read(pc) = \h77 => /\ written' = written /\ delays' = delays
                               /\ hl \in 8192 .. 16383 => SelectBank(a)
         /\ Read(pc) = \hE0 =>
              /\ delays' = delays /\ bank' = bank
              /\ written' = IF IsSound(Read(pc + 1))
                            THEN Append(written, Sound(Read(pc + 1), a)) ELSE written
BY DEF Step, Quiet

\* Loads and arithmetic.
LEMMA LoadStep ==
  ASSUME Step, OnClock
  PROVE  /\ Read(pc) = \h3E => /\ Ticks(pc + 2, 8) /\ Quiet /\ a' = Read(pc + 1)
                               /\ UNCHANGED <<de, hl, sp, ram>>
         /\ Read(pc) = \h21 => /\ Ticks(pc + 3, 12) /\ Quiet
                               /\ hl' = Read(pc + 1) + 256 * Read(pc + 2)
                               /\ UNCHANGED <<a, de, sp, ram>>
         /\ Read(pc) = \h2A => /\ Ticks(pc + 1, 8) /\ Quiet /\ a' = Read(hl)
                               /\ hl' = Word(hl + 1) /\ UNCHANGED <<de, sp, ram>>
         /\ Read(pc) = \h5F => /\ Ticks(pc + 1, 4) /\ Quiet /\ de' = 256 * High(de) + a
                               /\ UNCHANGED <<a, hl, sp, ram>>
         /\ Read(pc) = \h57 => /\ Ticks(pc + 1, 4) /\ Quiet /\ de' = 256 * a + Low(de)
                               /\ UNCHANGED <<a, hl, sp, ram>>
         /\ Read(pc) = \h7A => /\ Ticks(pc + 1, 4) /\ Quiet /\ a' = High(de)
                               /\ UNCHANGED <<de, hl, sp, ram>>
         /\ Read(pc) = \hF0 => /\ Ticks(pc + 2, 12) /\ Quiet /\ a' = At(65280 + Read(pc + 1))
                               /\ UNCHANGED <<de, hl, sp, ram>>
<1> DEFINE op == Read(pc)
           i8 == Read(pc + 1)
           i16 == Read(pc + 1) + 256 * Read(pc + 2)
           found == Read(hl)
<1>1. Execute(op, i8, i16, found)
  BY DEF Step
<1>2. op \notin {\h77, \hE0, \hCF} => Quiet
  BY QuietIs
<1>3. /\ \A time : Passes(1, time) => Ticks(pc + 1, time)
      /\ \A time : Passes(2, time) => Ticks(pc + 2, time)
      /\ \A time : Passes(3, time) => Ticks(pc + 3, time)
  BY TicksIs
<1> HIDE DEF op, i8, i16, found
<1>4. CASE op = \h3E
  <2>1. LdA(i8)
    BY <1>1, <1>4, DecodedReplayer
  <2> QED  BY <1>2, <1>3, <1>4, <2>1 DEF LdA, KeepStack, op, i8
<1>5. CASE op = \h21
  <2>1. LdHl(i16)
    BY <1>1, <1>5, DecodedReplayer
  <2> QED  BY <1>2, <1>3, <1>5, <2>1 DEF LdHl, KeepStack, op, i16
<1>6. CASE op = \h2A
  <2>1. LdAHlInc(found)
    BY <1>1, <1>6, DecodedVgm
  <2> QED  BY <1>2, <1>3, <1>6, <2>1 DEF LdAHlInc, KeepStack, op, found
<1>7. CASE op = \h5F
  <2>1. LdE
    BY <1>1, <1>7, DecodedVgm
  <2> QED  BY <1>2, <1>3, <1>7, <2>1 DEF LdE, KeepStack, op
<1>8. CASE op = \h57
  <2>1. LdD
    BY <1>1, <1>8, DecodedVgm
  <2> QED  BY <1>2, <1>3, <1>8, <2>1 DEF LdD, KeepStack, op
<1>9. CASE op = \h7A
  <2>1. LdAD
    BY <1>1, <1>9, DecodedVgm
  <2> QED  BY <1>2, <1>3, <1>9, <2>1 DEF LdAD, KeepStack, op
<1>10. CASE op = \hF0
  <2>1. LdhGet(i8)
    BY <1>1, <1>10, DecodedVgm
  <2> QED  BY <1>2, <1>3, <1>10, <2>1 DEF LdhGet, KeepStack, op, i8
<1> QED  BY <1>4, <1>5, <1>6, <1>7, <1>8, <1>9, <1>10 DEF op

LEMMA ArithmeticStep ==
  ASSUME Step, OnClock
  PROVE  /\ Read(pc) = \hB3 => /\ Ticks(pc + 1, 4) /\ Quiet
                               /\ f' = Zero(Or(a, Low(de)))
                               /\ UNCHANGED <<de, hl, sp, ram>>
         /\ Read(pc) = \h1B => /\ Ticks(pc + 1, 8) /\ Quiet /\ de' = Word(de - 1)
                               /\ UNCHANGED <<a, hl, sp, ram>>
         /\ Read(pc) = \h23 => /\ Ticks(pc + 1, 8) /\ Quiet
                               /\ UNCHANGED <<a, de, sp, ram>>
         /\ Read(pc) = \h3C => /\ Ticks(pc + 1, 4) /\ Quiet /\ a' = (a + 1) % 256
                               /\ UNCHANGED <<de, hl, sp, ram>>
<1> DEFINE op == Read(pc)
           i8 == Read(pc + 1)
           i16 == Read(pc + 1) + 256 * Read(pc + 2)
           found == Read(hl)
<1>1. Execute(op, i8, i16, found)
  BY DEF Step
<1>2. op \notin {\h77, \hE0, \hCF} => Quiet
  BY QuietIs
<1>3. \A time : Passes(1, time) => Ticks(pc + 1, time)
  BY TicksIs
<1> HIDE DEF op, i8, i16, found
<1>4. CASE op = \hB3
  <2>1. OrE
    BY <1>1, <1>4, DecodedVgm
  <2>2. f' = Zero(Or(a, Low(de)))
    BY <2>1 DEF OrE, OrWith, Put, To
  <2> QED  BY <1>2, <1>3, <1>4, <2>1, <2>2 DEF OrE, KeepStack, op
<1>5. CASE op = \h1B
  <2>1. DecDe
    BY <1>1, <1>5, DecodedVgm
  <2> QED  BY <1>2, <1>3, <1>5, <2>1 DEF DecDe, KeepStack, op
<1>6. CASE op = \h23
  <2>1. IncHl
    BY <1>1, <1>6, DecodedVgm
  <2> QED  BY <1>2, <1>3, <1>6, <2>1 DEF IncHl, KeepStack, op
<1>7. CASE op = \h3C
  <2>1. IncA
    BY <1>1, <1>7, DecodedVgm
  <2>2. a' = (a + 1) % 256
    BY <2>1 DEF IncA, Inc, IncOf, Put, To
  <2> QED  BY <1>2, <1>3, <1>7, <2>1, <2>2 DEF IncA, KeepStack, op
<1> QED  BY <1>4, <1>5, <1>6, <1>7 DEF op

LEMMA StoreStep ==
  ASSUME Step, OnClock
  PROVE  /\ Read(pc) = \h77 => /\ Ticks(pc + 1, 8) /\ written' = written /\ delays' = delays
                               /\ UNCHANGED <<a, de, hl, sp>>
                               /\ hl \in 8192 .. 16383 => SelectBank(a) /\ ram' = ram
         /\ Read(pc) = \hE0 => /\ Ticks(pc + 2, 12) /\ delays' = delays /\ bank' = bank
                               /\ UNCHANGED <<a, de, hl, sp>>
                               /\ Read(pc + 1) \in Nat => ram' = With(ram, 65280 + Read(pc + 1), a)
                               /\ written' = IF IsSound(Read(pc + 1))
                                             THEN Append(written, Sound(Read(pc + 1), a))
                                             ELSE written
<1> DEFINE op == Read(pc)
           i8 == Read(pc + 1)
           i16 == Read(pc + 1) + 256 * Read(pc + 2)
           found == Read(hl)
<1>1. Execute(op, i8, i16, found)
  BY DEF Step
<1>2. /\ op = \h77 => /\ written' = written /\ delays' = delays
                      /\ hl \in 8192 .. 16383 => SelectBank(a)
      /\ op = \hE0 => /\ delays' = delays /\ bank' = bank
                      /\ written' = IF IsSound(i8) THEN Append(written, Sound(i8, a)) ELSE written
  BY QuietIs
<1>3. /\ \A time : Passes(1, time) => Ticks(pc + 1, time)
      /\ \A time : Passes(2, time) => Ticks(pc + 2, time)
  BY TicksIs
<1> HIDE DEF op, i8, i16, found
<1>4. CASE op = \h77
  <2>1. LdAtHl(a, 1)
    BY <1>1, <1>4, DecodedVgm
  <2>2. Store(hl, a) /\ Passes(1, 8) /\ UNCHANGED <<sp, data>>
    <3>1. 4 + 4 * 1 = 8
      OBVIOUS
    <3> QED  BY <2>1, <3>1 DEF LdAtHl
  <2>3. hl \in 8192 .. 16383 => ram' = ram
    BY <2>2 DEF Store
  <2>4. Ticks(pc + 1, 8) /\ UNCHANGED <<a, de, hl, sp>>
    BY <1>3, <2>2 DEF data
  <2> QED  BY <1>2, <1>4, <2>3, <2>4 DEF op
<1>5. CASE op = \hE0
  <2>1. LdhPut(i8)
    BY <1>1, <1>5, DecodedReplayer
  <2>2. i8 \in Nat => ram' = With(ram, 65280 + i8, a)
    <3>1. Store(65280 + i8, a)
      BY <2>1 DEF LdhPut
    <3>2. i8 \in Nat => ~ (65280 + i8 < 32768)
      OBVIOUS
    <3> QED  BY <3>1, <3>2 DEF Store
  <2>3. Passes(2, 12) /\ UNCHANGED <<sp, data>>
    BY <2>1 DEF LdhPut
  <2>4. Ticks(pc + 2, 12) /\ UNCHANGED <<a, de, hl, sp>>
    BY <1>3, <2>3 DEF data
  <2> QED  BY <1>2, <1>5, <2>2, <2>4 DEF op, i8
<1> QED  BY <1>4, <1>5 DEF op

LEMMA JumpStep ==
  ASSUME Step, OnClock
  PROVE  /\ Read(pc) = \hC3 => /\ Ticks(Read(pc + 1) + 256 * Read(pc + 2), 16) /\ Quiet
                               /\ UNCHANGED <<a, de, hl, sp, ram>>
         /\ Read(pc) \in {\hF3, \h76} => /\ Ticks(pc + 1, 4) /\ Quiet
                                         /\ UNCHANGED <<a, de, hl, sp, ram>>
<1> DEFINE op == Read(pc)
           i8 == Read(pc + 1)
           i16 == Read(pc + 1) + 256 * Read(pc + 2)
           found == Read(hl)
<1>1. Execute(op, i8, i16, found)
  BY DEF Step
<1>2. op \notin {\h77, \hE0, \hCF} => Quiet
  BY QuietIs
<1>3. clock # Untimed
  BY DEF OnClock, Untimed
<1>4. After(1) = pc + 1
  BY AfterIs DEF OnClock
<1> HIDE DEF op, i8, i16, found
<1>5. CASE op = \hC3
  <2>1. Jp(i16)
    BY <1>1, <1>5, DecodedReplayer
  <2>2. Goes(i16, ime, FALSE) /\ Takes(16) /\ UNCHANGED <<a, de, hl, sp, ram>>
    BY <2>1 DEF Jp, Jump, KeepStack, data
  <2>3. Ticks(i16, 16)
    BY <1>3, <2>2 DEF Goes, Takes, Ticks
  <2> QED  BY <1>2, <1>5, <2>2, <2>3 DEF op, i16
<1>6. CASE op = \hF3
  <2>1. Di
    BY <1>1, <1>6, DecodedFile
  <2>2. Goes(pc + 1, FALSE, FALSE) /\ Takes(4) /\ UNCHANGED <<a, de, hl, sp, ram>>
    BY <1>4, <2>1 DEF Di, KeepStack, data
  <2>3. Ticks(pc + 1, 4)
    BY <1>3, <2>2 DEF Goes, Takes, Ticks
  <2> QED  BY <1>2, <1>6, <2>2, <2>3 DEF op
<1>7. CASE op = \h76
  <2>1. Halt
    BY <1>1, <1>7, DecodedReplayer
  <2>2. Goes(pc + 1, ime, TRUE) /\ Takes(4) /\ UNCHANGED <<a, de, hl, sp, ram>>
    BY <1>4, <2>1 DEF Halt, KeepStack, data
  <2>3. Ticks(pc + 1, 4)
    BY <1>3, <2>2 DEF Goes, Takes, Ticks
  <2> QED  BY <1>2, <1>7, <2>2, <2>3 DEF op
<1> QED  BY <1>5, <1>6, <1>7 DEF op

\* Calls and returns, and words on the stack.
PutsWord(val) == sp' = sp - 2 /\ ram' = Put2(ram, sp - 2, val)
TakesWord == sp' = sp + 2 /\ ram' = Without(ram, {sp, sp + 1})

OnStack == sp \in Nat /\ 2 <= sp /\ sp + 2 <= 65535

LEMMA StackStep ==
  ASSUME Step, OnClock, OnStack
  PROVE  /\ Read(pc) = \hCD => /\ Ticks(Read(pc + 1) + 256 * Read(pc + 2), 24) /\ Quiet
                               /\ PutsWord(pc + 3) /\ UNCHANGED <<a, de, hl>>
         /\ Read(pc) = \hCF => /\ Ticks(8, 16) /\ written' = written /\ delays' = delays + 1
                               /\ bank' = bank /\ PutsWord(pc + 1) /\ UNCHANGED <<a, de, hl>>
         /\ Read(pc) = \hFF => /\ Ticks(56, 16) /\ Quiet /\ de' = de
         /\ Read(pc) = \hC9 => Ticks(Top, 16) /\ Quiet /\ TakesWord /\ UNCHANGED <<a, de, hl>>
         /\ Read(pc) = \hC8 /\ "Z" \in f =>
              Ticks(Top, 20) /\ Quiet /\ TakesWord /\ UNCHANGED <<a, de, hl>>
         /\ Read(pc) = \hC8 /\ "Z" \notin f =>
              Ticks(pc + 1, 8) /\ Quiet /\ UNCHANGED <<a, de, hl, sp, ram>>
         /\ Read(pc) = \hE1 => /\ Ticks(pc + 1, 12) /\ Quiet /\ TakesWord /\ hl' = Top
                               /\ UNCHANGED <<a, de>>
         /\ Read(pc) = \hE5 => /\ Ticks(pc + 1, 16) /\ Quiet /\ PutsWord(hl)
                               /\ UNCHANGED <<a, de, hl>>
<1> DEFINE op == Read(pc)
           i8 == Read(pc + 1)
           i16 == Read(pc + 1) + 256 * Read(pc + 2)
           found == Read(hl)
<1>1. Execute(op, i8, i16, found)
  BY DEF Step
<1>2. /\ op \notin {\h77, \hE0, \hCF} => Quiet
      /\ op = \hCF => written' = written /\ delays' = delays + 1 /\ bank' = bank
  BY QuietIs
<1>3. /\ clock # Untimed
      /\ \A time : Passes(1, time) => Ticks(pc + 1, time)
  BY TicksIs DEF OnClock, Untimed
<1>4. After(1) = pc + 1 /\ After(3) = pc + 3
  BY AfterIs DEF OnClock
<1>5. \A val : Push(val) => PutsWord(val)
  <2>1. ASSUME NEW val, Push(val) PROVE PutsWord(val)
    <3>1. sp' = sp - 2 /\ ram' = Put2(ram, sp - 2, val)
      <4>1. sp \in Nat /\ sp >= 2 /\ sp <= 65535
        BY DEF OnStack
      <4> QED  BY <2>1, <4>1, PushIs
    <3> QED  BY <3>1 DEF PutsWord
  <2> QED  BY <2>1
<1>6. Drop => TakesWord
  BY DropIs DEF TakesWord, OnStack
<1> HIDE DEF op, i8, i16, found
<1>7. CASE op = \hCD
  <2>1. Call(i16)
    BY <1>1, <1>7, DecodedReplayer
  <2>2. /\ Push(pc + 3) /\ Goes(i16, ime, FALSE) /\ Takes(24) /\ UNCHANGED <<a, de, hl>>
    BY <1>4, <2>1 DEF Call, data
  <2>3. Ticks(i16, 24)
    BY <1>3, <2>2 DEF Goes, Takes, Ticks
  <2> QED  BY <1>2, <1>5, <1>7, <2>2, <2>3 DEF op, i16
<1>8. CASE op \in {\hCF, \hFF}
  <2>1. op \in Rsts
    BY <1>8 DEF Rsts
  <2>2. Rst(op - 199)
    BY <1>1, <2>1, DecodedFile
  <2>3. Push(pc + 1) /\ Goes(op - 199, ime, FALSE) /\ Takes(16) /\ UNCHANGED <<a, de, hl>>
    BY <1>4, <2>2 DEF Rst, data
  <2>5. Ticks(op - 199, 16)
    BY <1>3, <2>3 DEF Goes, Takes, Ticks
  <2>4. (op = \hCF => op - 199 = 8) /\ (op = \hFF => op - 199 = 56)
    OBVIOUS
  <2> QED  BY <1>2, <1>5, <1>8, <2>3, <2>5, <2>4 DEF op
<1>9. CASE op = \hC9
  <2>1. Ret
    BY <1>1, <1>9, DecodedFile
  <2>2. Drop /\ Goes(Top, ime, FALSE) /\ Takes(16) /\ UNCHANGED <<a, de, hl>>
    BY <2>1 DEF Ret, Return, data
  <2>3. Ticks(Top, 16)
    BY <1>3, <2>2 DEF Goes, Takes, Ticks
  <2> QED  BY <1>2, <1>6, <1>9, <2>2, <2>3 DEF op
<1>10. CASE op = \hC8
  <2>1. op \in RetConds /\ CondOf(op) = "Z"
    <3>1. 1 + ((200 \div 8) % 4) = 2
      OBVIOUS
    <3> QED  BY <1>10, <3>1 DEF RetConds, CondOf
  <2>2. RetCond("Z")
    BY <1>1, <2>1, DecodedFile
  <2>3. Taken("Z", f) <=> "Z" \in f
    BY DEF Taken
  <2>4. CASE "Z" \in f
    <3>1. Drop /\ Goes(Top, ime, FALSE) /\ Takes(20) /\ UNCHANGED <<a, de, hl>>
      BY <2>2, <2>3, <2>4 DEF RetCond, Return, data
    <3>2. Ticks(Top, 20)
      BY <1>3, <3>1 DEF Goes, Takes, Ticks
    <3> QED  BY <1>2, <1>6, <1>10, <2>4, <3>1, <3>2 DEF op
  <2>5. CASE "Z" \notin f
    <3>1. Passes(1, 8) /\ UNCHANGED <<a, de, hl, sp, ram>>
      BY <2>2, <2>3, <2>5 DEF RetCond, Untaken, KeepStack, data
    <3> QED  BY <1>2, <1>3, <1>10, <2>5, <3>1 DEF op
  <2> QED  BY <2>4, <2>5
<1>11. CASE op = \hE1
  <2>1. PopHl
    BY <1>1, <1>11, DecodedFile
  <2>2. Drop /\ Passes(1, 12) /\ hl' = Top /\ UNCHANGED <<a, de>>
    BY <2>1 DEF PopHl
  <2> QED  BY <1>2, <1>3, <1>6, <1>11, <2>2 DEF op
<1>12. CASE op = \hE5
  <2>1. PushReg(hl)
    BY <1>1, <1>12, DecodedFile
  <2>2. Push(hl) /\ Passes(1, 16) /\ UNCHANGED <<a, de, hl>>
    BY <2>1 DEF PushReg, data
  <2> QED  BY <1>2, <1>3, <1>5, <1>12, <2>2 DEF op
<1> QED  BY <1>7, <1>8, <1>9, <1>10, <1>11, <1>12 DEF op

-----------------------------------------------------------------------------
(***************************************************************************)
(* Where the CPU is in the code, and what it has done.                     *)
(***************************************************************************)
Played(writes, n) == [i \in 1 .. n |-> [reg |-> writes[i].reg, val |-> writes[i].val]]

\* After the delays and writes before e, and t cycles.
Own(e) == 20 * e.nth + 104 * (e.bank - 1) + e.clk
Paid(writes, e, t) ==
  /\ e.nth <= Len(writes) /\ written = Played(writes, e.nth)
  /\ delays \in Nat /\ clock \in Nat /\ de \in Nat
  /\ clock = Own(e) + 32 * delays + t
Point(writes, e, at, k, t) == pc = at /\ sp = VgmStack - k /\ Paid(writes, e, t)

Known(mem, x, val) == x \in DOMAIN mem /\ mem[x] = val

\* In the loop over the banks,
Looping(writes, e) ==
  \/ Point(writes, e, 1088, 2, 0) /\ e.bank = 1
  \/ Point(writes, e, 1089, 2, 4) /\ e.bank = 1
  \/ Point(writes, e, 1091, 2, 12) /\ a = e.bank
  \/ Point(writes, e, 1093, 2, 24) /\ a = e.bank /\ Known(ram, BankAddr, e.bank)
  \/ Point(writes, e, 1096, 2, 36) /\ a = e.bank /\ Known(ram, BankAddr, e.bank) /\ hl = 8192
  \/ Point(writes, e, 1097, 2, 44) /\ bank = e.bank /\ Known(ram, BankAddr, e.bank)
  \/ Point(writes, e, 1100, 2, -20) /\ Known(ram, BankAddr, e.bank - 1)
  \/ Point(writes, e, 1102, 2, -8) /\ a = e.bank - 1
  \/ Point(writes, e, 1103, 2, -4) /\ a = e.bank

\* in a bank, which was called from the loop: before a unit of its code,
InBank(e) ==
  /\ bank = e.bank /\ Known(ram, BankAddr, e.bank) /\ Holds(ram, VgmStack - 4, 1100)
Place(e, p) == 16384 + (p - Base(e.bank))
BeforeUnit(writes, e, p) == Point(writes, e, Place(e, p), 4, 68)

\* in the middle of a write,
Writing(writes, e, p, val) == Point(writes, e, Place(e, p) + 2, 4, 76) /\ a = val

\* and in the delay routine, while it reads its number, or counts down to zero.
Reading(writes, e, x, lo, hi) ==
  \/ Point(writes, e, 8, 6, 52) /\ Holds(ram, VgmStack - 6, x + 1)
  \/ Point(writes, e, 9, 4, 64) /\ hl = x + 1
  \/ Point(writes, e, 10, 4, 72) /\ hl = x + 2 /\ a = lo
  \/ Point(writes, e, 11, 4, 76) /\ hl = x + 2 /\ Low(de) = lo
  \/ Point(writes, e, 12, 4, 84) /\ hl = x + 3 /\ Low(de) = lo /\ a = hi
  \/ Point(writes, e, 13, 4, 88) /\ hl = x + 3 /\ de = lo + 256 * hi
Counting(writes, e, k, left) ==
  /\ de = left
  /\ \/ Point(writes, e, 14, 6, 104 + 64 * k)
     \/ Point(writes, e, 15, 6, 108 + 64 * k) /\ a = High(de)
     \/ Point(writes, e, 16, 6, 112 + 64 * k) /\ ("Z" \in f <=> de = 0)
     \/ Point(writes, e, 17, 6, 120 + 64 * k) /\ de # 0
     \/ Point(writes, e, 18, 6, 64 + 64 * k)
     \/ Point(writes, e, 19, 6, 72 + 64 * k)
     \/ Point(writes, e, 20, 6, 80 + 64 * k)
     \/ Point(writes, e, 21, 6, 88 + 64 * k)
NumberIs(n, lo, hi) == n = lo + 256 * hi
Counted(writes, e, x, n, k, left) ==
  k + left = n /\ Holds(ram, VgmStack - 6, x + 3) /\ Counting(writes, e, k, left)
Delayed(writes, e, x, lo, hi) ==
  \/ Reading(writes, e, x, lo, hi)
  \/ \E n, k, left \in Nat : NumberIs(n, lo, hi) /\ Counted(writes, e, x, n, k, left)

\* In the trap.
Trapped(writes) ==
  /\ pc \in {56, 57, 58} /\ written = Played(writes, Len(writes)) /\ clock \in Nat

InUnit(at, code, writes, p) ==
  /\ InBank(at[p])
  /\ \/ BeforeUnit(writes, at[p], p)
     \/ WriteAt(at, code, writes, p) /\ Writing(writes, at[p], p, code[p + 2])
     \/ DelayAt(at, code, p)
        /\ Delayed(writes, at[p], Place(at[p], p), code[p + 2], code[p + 3])
Machine(at, code, writes) ==
  \/ \E p \in DOMAIN at : p = Base(at[p].bank) /\ Looping(writes, at[p])
  \/ \E p \in DOMAIN at : InUnit(at, code, writes, p)
  \/ Trapped(writes)

Timely(writes) ==
  Len(written') > Len(written) =>
    LET due == Due(writes[Len(written')].at)
        own == 20 * Len(written') + 32 * delays + 104 * (bank - 1) + 68
    IN  clock' - own \in due - 32 .. due + 31

LEMMA PlayedIs ==
  ASSUME NEW writes \in Seq(Timed), NEW n \in Nat, n <= Len(writes)
  PROVE  /\ Len(Played(writes, n)) = n
         /\ n < Len(writes) =>
              Append(Played(writes, n), [reg |-> writes[n + 1].reg, val |-> writes[n + 1].val])
                = Played(writes, n + 1)
<1> DEFINE Event == [reg : {w.reg : w \in Timed}, val : {w.val : w \in Timed}]
           all == Played(writes, n)
<1>1. \A i \in 1 .. Len(writes) : [reg |-> writes[i].reg, val |-> writes[i].val] \in Event
  BY DEF Event
<1>2. all \in Seq(Event) /\ Len(all) = n
  BY <1>1 DEF Played
<1>3. ASSUME n < Len(writes)
      PROVE  Append(all, [reg |-> writes[n + 1].reg, val |-> writes[n + 1].val])
               = Played(writes, n + 1)
  BY <1>1, <1>2, <1>3 DEF Played
<1> QED  BY <1>2, <1>3

LEMMA EntryFields ==
  ASSUME NEW e \in Entry
  PROVE  e.bank \in Nat /\ e.bank >= 1 /\ e.nth \in Nat /\ e.clk \in Nat
BY DEF Entry

LEMMA PointIs ==
  ASSUME NEW writes, NEW e \in Entry, NEW x \in Nat, x <= 65532, NEW k \in Nat, 2 <= k, k <= 6, NEW t,
         Point(writes, e, x, k, t)
  PROVE  /\ OnClock /\ OnStack /\ pc = x /\ sp = VgmStack - k /\ sp \in Nat /\ 65408 < sp
         /\ Paid(writes, e, t) /\ de \in Nat
BY VgmSizes DEF Point, Paid, OnClock, OnStack

LEMMA OwnIs ==
  ASSUME NEW e \in Entry
  PROVE  /\ Own(e) \in Int
         /\ \A e2 \in Entry :
              /\ e2.nth = e.nth /\ e2.bank = e.bank /\ e2.clk \in Nat =>
                   Own(e2) - e2.clk = Own(e) - e.clk
              /\ e2.nth = e.nth + 1 /\ e2.bank = e.bank /\ e2.clk = e.clk => Own(e2) = Own(e) + 20
              /\ e2.nth = e.nth /\ e2.bank = e.bank + 1 /\ e2.clk = e.clk => Own(e2) = Own(e) + 104
BY EntryFields DEF Own

LEMMA PaidIsTimely ==
  ASSUME NEW writes \in Seq(Timed), NEW e \in Entry, NEW t, Paid(writes, e, t), written' = written
  PROVE  Timely(writes)
<1>1. Len(written) \in Nat
  BY PlayedIs, EntryFields DEF Paid
<1> QED  BY <1>1 DEF Timely

\* An instruction that does nothing else
Moves(to, time, m) == Ticks(to, time) /\ Quiet /\ sp' = VgmStack - m /\ de' \in Nat

LEMMA PointMoves ==
  ASSUME NEW writes \in Seq(Timed), NEW e \in Entry, NEW x, NEW k, NEW t \in Int,
         Point(writes, e, x, k, t), NEW y, NEW time \in Nat, NEW m, Moves(y, time, m)
  PROVE  Point(writes, e, y, m, t + time)' /\ Timely(writes)
<1>1. Own(e) \in Int /\ clock = Own(e) + 32 * delays + t /\ delays \in Nat /\ clock \in Nat
  BY OwnIs DEF Point, Paid
<1>2. clock + time \in Nat /\ clock + time = Own(e) + 32 * delays + (t + time)
  BY <1>1
<1>3. Paid(writes, e, t + time)'
  BY <1>1, <1>2 DEF Point, Paid, Moves, Ticks, Quiet
<1>4. Timely(writes)
  BY PaidIsTimely DEF Point, Moves, Quiet
<1> QED  BY <1>3, <1>4 DEF Point, Moves, Ticks

\* From one entry to another
SameTime(e, t, e2, t2) == e2.nth = e.nth /\ Own(e) + t = Own(e2) + t2

LEMMA PaidKept ==
  ASSUME NEW writes, NEW e \in Entry, NEW t \in Int, Paid(writes, e, t)',
         NEW e2 \in Entry, NEW t2 \in Int, SameTime(e, t, e2, t2)
  PROVE  Paid(writes, e2, t2)'
<1>1. Own(e) \in Int /\ Own(e2) \in Int /\ clock' = Own(e) + 32 * delays' + t /\ delays' \in Nat
  BY OwnIs DEF Paid
<1>2. clock' = Own(e2) + 32 * delays' + t2
  BY <1>1 DEF SameTime
<1> QED  BY <1>2 DEF Paid, SameTime

\* Memory.
Apart(x, y) == x \notin {y, y + 1}
BothApart(x, y) == Apart(x, y) /\ Apart(x + 1, y)

LEMMA KnownKept ==
  ASSUME NEW mem, NEW x, NEW val, Known(mem, x, val), NEW y, NEW new
  PROVE  /\ x # y => Known(With(mem, y, new), x, val)
         /\ Apart(x, y) => Known(Put2(mem, y, new), x, val)
         /\ Apart(x, y) => Known(Without(mem, {y, y + 1}), x, val)
BY DEF Known, With, Put2, Without, Apart

LEMMA HoldsKept ==
  ASSUME NEW mem, NEW x, NEW val, Holds(mem, x, val), NEW y, NEW new
  PROVE  /\ x # y /\ x + 1 # y => Holds(With(mem, y, new), x, val)
         /\ BothApart(x, y) => Holds(Put2(mem, y, new), x, val)
         /\ BothApart(x, y) => Holds(Without(mem, {y, y + 1}), x, val)
BY DEF Holds, With, Put2, Without, Apart, BothApart

LEMMA Written ==
  ASSUME NEW mem, NEW y, NEW new
  PROVE  /\ Known(With(mem, y, new), y, new)
         /\ y \in Nat => Holds(Put2(mem, y, new), y, new)
BY DEF Known, Holds, With, Put2

\* The instruction that selects the bank
LEMMA BankStep ==
  ASSUME NEW writes \in Seq(Timed), NEW e \in Entry, Point(writes, e, 1096, 2, 36),
         Ticks(1097, 8), written' = written, delays' = delays, sp' = sp, de' = de
  PROVE  Point(writes, e, 1097, 2, 44)' /\ Timely(writes)
<1>1. /\ Own(e) \in Int /\ clock = Own(e) + 32 * delays + 36 /\ delays \in Nat /\ clock \in Nat
      /\ de \in Nat
      /\ e.nth \in Nat /\ e.nth <= Len(writes) /\ written = Played(writes, e.nth)
  BY OwnIs, EntryFields DEF Point, Paid
<1>2. clock + 8 \in Nat /\ clock + 8 = Own(e) + 32 * delays + 44
  BY <1>1
<1>3. Paid(writes, e, 44)'
  BY <1>1, <1>2 DEF Point, Paid, Ticks
<1>4. Len(written) \in Nat
  BY <1>1, PlayedIs
<1>5. Timely(writes)
  BY <1>4 DEF Timely
<1> QED  BY <1>3, <1>5 DEF Point, Ticks

LEMMA KnownAt ==
  ASSUME NEW x, NEW val, Known(ram, x, val)
  PROVE  At(x) = val
BY DEF Known, At

\* In the loop over the banks
LEMMA LoopStep ==
  ASSUME Step, NEW writes \in Seq(Timed), NEW e \in Entry, e.bank <= 255, Looping(writes, e)
  PROVE  /\ Timely(writes)
         /\ \/ Looping(writes, e)'
            \/ InBank(e)' /\ Point(writes, e, 16384, 4, 68)'
<1>1. e.bank \in Nat /\ 1 <= e.bank /\ e.bank <= 255 /\ VgmStack \in Nat /\ 65414 < VgmStack
  BY EntryFields, VgmSizes
<1>2. ASSUME NEW x \in Nat, x <= 65532, NEW t, Point(writes, e, x, 2, t)
      PROVE  OnClock /\ OnStack /\ pc = x /\ sp = VgmStack - 2 /\ de \in Nat
  BY <1>2, PointIs
<1>4. CASE Point(writes, e, 1088, 2, 0) /\ e.bank = 1
  <2>1. OnClock /\ pc = 1088 /\ sp = VgmStack - 2 /\ de \in Nat
    BY <1>2, <1>4
  <2>2. Moves(1089, 4, 2)
    BY <2>1, JumpStep, LowerBytes DEF Moves
  <2>3. Point(writes, e, 1089, 2, 4)' /\ Timely(writes)
    BY <1>4, <2>2, PointMoves
  <2> QED  BY <1>4, <2>3 DEF Looping
<1>5. CASE Point(writes, e, 1089, 2, 4) /\ e.bank = 1
  <2>1. OnClock /\ pc = 1089 /\ sp = VgmStack - 2 /\ de \in Nat
    BY <1>2, <1>5
  <2>2. Moves(1091, 8, 2) /\ a' = 1
    BY <2>1, LoadStep, LowerBytes DEF Moves
  <2>3. Point(writes, e, 1091, 2, 12)' /\ Timely(writes)
    BY <1>5, <2>2, PointMoves
  <2> QED  BY <1>5, <2>2, <2>3 DEF Looping
<1>6. CASE Point(writes, e, 1091, 2, 12) /\ a = e.bank
  <2>1. OnClock /\ pc = 1091 /\ sp = VgmStack - 2 /\ de \in Nat
    BY <1>2, <1>6
  <2>2. Read(pc) = \hE0 /\ Read(pc + 1) = 128 /\ pc + 2 = 1093
    BY <2>1, LowerBytes
  <2>3. ~ IsSound(128) /\ 65280 + 128 = BankAddr /\ 128 \in Nat
    BY DEF IsSound, BankAddr
  <2>4. /\ Moves(1093, 12, 2) /\ a' = a /\ ram' = With(ram, BankAddr, a)
    BY <2>1, <2>2, <2>3, StoreStep DEF Moves, Quiet
  <2>5. Point(writes, e, 1093, 2, 24)' /\ Timely(writes)
    BY <1>6, <2>4, PointMoves
  <2>6. Known(ram, BankAddr, e.bank)'
    BY <1>6, <2>4, Written
  <2> QED  BY <1>6, <2>4, <2>5, <2>6 DEF Looping
<1>7. CASE Point(writes, e, 1093, 2, 24) /\ a = e.bank /\ Known(ram, BankAddr, e.bank)
  <2>1. OnClock /\ pc = 1093 /\ sp = VgmStack - 2 /\ de \in Nat
    BY <1>2, <1>7
  <2>2. Moves(1096, 12, 2) /\ a' = a /\ ram' = ram /\ hl' = 8192
    BY <2>1, LoadStep, LowerBytes DEF Moves
  <2>3. Point(writes, e, 1096, 2, 36)' /\ Timely(writes)
    BY <1>7, <2>2, PointMoves
  <2> QED  BY <1>7, <2>2, <2>3 DEF Looping
<1>8. CASE /\ Point(writes, e, 1096, 2, 36) /\ a = e.bank /\ Known(ram, BankAddr, e.bank)
           /\ hl = 8192
  <2>1. OnClock /\ pc = 1096 /\ sp = VgmStack - 2 /\ de \in Nat /\ hl \in 8192 .. 16383
    BY <1>2, <1>8
  <2>2. /\ Ticks(1097, 8) /\ written' = written /\ delays' = delays /\ sp' = sp /\ ram' = ram
        /\ de' = de /\ SelectBank(a)
    BY <2>1, StoreStep, LowerBytes
  <2>3. bank' = e.bank
    BY <1>1, <1>8, <2>2 DEF SelectBank
  <2>4. Point(writes, e, 1097, 2, 44)' /\ Timely(writes)
    BY <1>8, <2>2, BankStep
  <2> QED  BY <1>8, <2>2, <2>3, <2>4 DEF Looping
<1>9. CASE Point(writes, e, 1097, 2, 44) /\ bank = e.bank /\ Known(ram, BankAddr, e.bank)
  <2>1. OnClock /\ OnStack /\ pc = 1097 /\ sp = VgmStack - 2 /\ de \in Nat
    BY <1>2, <1>9
  <2>2. Ticks(16384, 24) /\ Quiet /\ PutsWord(1100) /\ de' = de
    BY <2>1, StackStep, LowerBytes
  <2>3. sp' = VgmStack - 4 /\ ram' = Put2(ram, VgmStack - 4, 1100) /\ bank' = e.bank
    BY <1>1, <1>9, <2>1, <2>2 DEF PutsWord, Quiet
  <2>4. Point(writes, e, 16384, 4, 68)' /\ Timely(writes)
    BY <1>9, <2>1, <2>2, <2>3, PointMoves DEF Moves
  <2>5. VgmStack - 4 \in Nat /\ BankAddr # VgmStack - 4 /\ BankAddr # VgmStack - 4 + 1
    BY <1>1 DEF BankAddr
  <2>6. Known(ram', BankAddr, e.bank) /\ Holds(ram', VgmStack - 4, 1100)
    <3> DEFINE s == VgmStack - 4
               back == 1100
               b == e.bank
    <3>1. s \in Nat /\ Apart(BankAddr, s)
      BY <2>5 DEF Apart
    <3>2. Known(ram, BankAddr, b) /\ ram' = Put2(ram, s, back)
      BY <1>9, <2>3
    <3> HIDE DEF s, back, b
    <3>3. Known(Put2(ram, s, back), BankAddr, b)
      BY <3>1, <3>2, KnownKept
    <3>4. Holds(Put2(ram, s, back), s, back)
      BY <3>1, Written
    <3>5. Known(ram', BankAddr, b) /\ Holds(ram', s, back)
      BY <3>2, <3>3, <3>4
    <3> QED  BY <3>5 DEF s, back, b
  <2> QED  BY <2>3, <2>4, <2>6 DEF InBank
<1>10. CASE Point(writes, e, 1100, 2, -20) /\ Known(ram, BankAddr, e.bank - 1)
  <2>1. OnClock /\ pc = 1100 /\ sp = VgmStack - 2 /\ de \in Nat
    BY <1>2, <1>10
  <2>2. Read(pc) = \hF0 /\ Read(pc + 1) = 128 /\ pc + 2 = 1102 /\ 65280 + 128 = BankAddr
    BY <2>1, LowerBytes DEF BankAddr
  <2>3. Moves(1102, 12, 2) /\ a' = At(BankAddr)
    BY <2>1, <2>2, LoadStep DEF Moves
  <2>4. a' = e.bank - 1
    BY <1>10, <2>3, KnownAt
  <2>5. Point(writes, e, 1102, 2, -8)' /\ Timely(writes)
    BY <1>10, <2>3, PointMoves
  <2> QED  BY <2>4, <2>5 DEF Looping
<1>11. CASE Point(writes, e, 1102, 2, -8) /\ a = e.bank - 1
  <2>1. OnClock /\ pc = 1102 /\ sp = VgmStack - 2 /\ de \in Nat
    BY <1>2, <1>11
  <2>2. Moves(1103, 4, 2) /\ a' = (a + 1) % 256
    BY <2>1, ArithmeticStep, LowerBytes DEF Moves
  <2>3. a' = e.bank
    BY <1>1, <1>11, <2>2
  <2>4. Point(writes, e, 1103, 2, -4)' /\ Timely(writes)
    BY <1>11, <2>2, PointMoves
  <2> QED  BY <2>3, <2>4 DEF Looping
<1>12. CASE Point(writes, e, 1103, 2, -4) /\ a = e.bank
  <2>1. OnClock /\ pc = 1103 /\ sp = VgmStack - 2 /\ de \in Nat
    BY <1>2, <1>12
  <2>2. Moves(1091, 16, 2) /\ a' = a
    BY <2>1, JumpStep, LowerBytes DEF Moves
  <2>3. Point(writes, e, 1091, 2, 12)' /\ Timely(writes)
    BY <1>12, <2>2, PointMoves
  <2> QED  BY <1>12, <2>2, <2>3 DEF Looping
<1> QED
  BY <1>4, <1>5, <1>6, <1>7, <1>8, <1>9, <1>10, <1>11, <1>12 DEF Looping

-----------------------------------------------------------------------------
(***************************************************************************)
(* The instructions of a bank.                                             *)
(***************************************************************************)
LEMMA BanksAre ==
  ASSUME NEW e \in Entry
  PROVE  /\ Base(e.bank) \in Nat /\ Base(e.bank + 1) = Base(e.bank) + BankSize
         /\ BankSize \in Nat /\ BankSize <= 16384
<1>1. e.bank \in Nat \ {0} /\ BankSize \in Nat /\ BankSize <= 16384
  BY EntryFields, VgmSizes
<1>2. Base(e.bank) \in Nat /\ Base(e.bank + 1) = Base(e.bank) + BankSize
  BY <1>1, BaseIs
<1> QED  BY <1>1, <1>2

LEMMA PlaceIs ==
  ASSUME NEW e \in Entry, NEW q \in Nat, Base(e.bank) <= q, q < Base(e.bank + 1)
  PROVE  /\ Place(e, q) \in Nat /\ 16384 <= Place(e, q) /\ Place(e, q) < 16384 + BankSize
         /\ Place(e, q) - 16384 = q - Base(e.bank) /\ Base(e.bank) \in Nat
BY BanksAre DEF Place

LEMMA CodeIs ==
  ASSUME NEW e \in Entry, bank = e.bank, NEW q \in Nat, Base(e.bank) <= q,
         q < Base(e.bank + 1), q < Len(trans.code)
  PROVE  Read(Place(e, q)) = trans.code[q + 1]
<1> DEFINE x == Place(e, q)
<1>1. /\ x \in Nat /\ 16384 <= x /\ x < 16384 + BankSize /\ BankSize \in Nat
      /\ x - 16384 = q - Base(e.bank) /\ Base(e.bank) \in Nat
  BY PlaceIs, VgmSizes
<1>2. (bank - 1) * BankSize = Base(e.bank)
  BY DEF Base
<1> HIDE DEF x
<1>3. (bank - 1) * BankSize + (x - 16384) = q
  BY <1>1, <1>2
<1>4. Upper(x) = trans.code[q + 1]
  BY <1>3 DEF Upper
<1>5. /\ ~ (x < 16384) /\ x \in 16384 .. 16384 + BankSize - 1
      /\ x \notin 16384 + BankSize .. 40959
  BY <1>1
<1>6. Read(x) = Upper(x)
  BY <1>5 DEF Read
<1> QED  BY <1>4, <1>6 DEF x

LEMMA BytesOfUnit ==
  ASSUME NEW e \in Entry, bank = e.bank, NEW p \in Nat, Base(e.bank) <= p, NEW n \in 1 .. 4,
         p + n <= Base(e.bank + 1), p + n <= Len(trans.code), Len(trans.code) \in Nat
  PROVE  LET x == Place(e, p)
         IN  /\ x \in Nat /\ 16384 <= x /\ x < 32768
             /\ Read(x) = trans.code[p + 1]
             /\ n >= 2 => Read(x + 1) = trans.code[p + 2]
             /\ n >= 3 => Read(x + 2) = trans.code[p + 3]
             /\ n >= 4 => Read(x + 3) = trans.code[p + 4]
<1> DEFINE x == Place(e, p)
           b == Base(e.bank)
           c == Base(e.bank + 1)
           len == Len(trans.code)
<1>1. b \in Nat /\ c \in Nat /\ BankSize \in Nat /\ BankSize <= 16384 /\ len \in Nat
  BY BanksAre
<1>2. b <= p /\ p + n <= c /\ p + n <= len
  OBVIOUS
<1>3. x = 16384 + (p - b)
  BY DEF Place
<1>4. ASSUME NEW q \in Nat, b <= q, q < c, q < len
      PROVE  Read(16384 + (q - b)) = trans.code[q + 1]
  <2>1. Read(Place(e, q)) = trans.code[q + 1]
    BY <1>4, CodeIs
  <2> QED  BY <2>1 DEF Place
<1>5. x \in Nat /\ 16384 <= x /\ x < 32768
  <2>1. p < Base(e.bank + 1)
    BY <1>1, <1>2
  <2> QED  BY <1>1, <2>1, PlaceIs
<1> HIDE DEF b, c, len, x
<1>6. Read(x) = trans.code[p + 1]
  BY <1>1, <1>2, <1>3, <1>4
<1>7. ASSUME n >= 2 PROVE Read(x + 1) = trans.code[p + 2]
  <2>1. p + 1 \in Nat /\ b <= p + 1 /\ p + 1 < c /\ p + 1 < len
    BY <1>1, <1>2, <1>7
  <2>2. Read(16384 + ((p + 1) - b)) = trans.code[(p + 1) + 1]
    BY <1>4, <2>1
  <2>3. 16384 + ((p + 1) - b) = x + 1 /\ (p + 1) + 1 = p + 2
    BY <1>1, <1>3
  <2> QED  BY <2>2, <2>3
<1>8. ASSUME n >= 3 PROVE Read(x + 2) = trans.code[p + 3]
  <2>1. p + 2 \in Nat /\ b <= p + 2 /\ p + 2 < c /\ p + 2 < len
    BY <1>1, <1>2, <1>8
  <2>2. Read(16384 + ((p + 2) - b)) = trans.code[(p + 2) + 1]
    BY <1>4, <2>1
  <2>3. 16384 + ((p + 2) - b) = x + 2 /\ (p + 2) + 1 = p + 3
    BY <1>1, <1>3
  <2> QED  BY <2>2, <2>3
<1>9. ASSUME n >= 4 PROVE Read(x + 3) = trans.code[p + 4]
  <2>1. p + 3 \in Nat /\ b <= p + 3 /\ p + 3 < c /\ p + 3 < len
    BY <1>1, <1>2, <1>9
  <2>2. Read(16384 + ((p + 3) - b)) = trans.code[(p + 3) + 1]
    BY <1>4, <2>1
  <2>3. 16384 + ((p + 3) - b) = x + 3 /\ (p + 3) + 1 = p + 4
    BY <1>1, <1>3
  <2> QED  BY <2>2, <2>3
<1> QED  BY <1>5, <1>6, <1>7, <1>8, <1>9 DEF x

\* What the code of a bank leaves alone
IoRam == 65280 .. 65407
KeepsBank ==
  /\ bank' = bank
  /\ \/ ram' = ram
     \/ \E new : ram' = Put2(ram, VgmStack - 6, new)
     \/ ram' = Without(ram, {VgmStack - 6, VgmStack - 6 + 1})
     \/ \E y \in IoRam : \E new : ram' = With(ram, y, new)

LEMMA InBankKept ==
  ASSUME NEW e \in Entry, InBank(e), KeepsBank
  PROVE  InBank(e)'
<1> DEFINE s == VgmStack - 4
           back == 1100
           low == VgmStack - 6
           b == e.bank
<1>1. Apart(BankAddr, low) /\ BothApart(s, low)
  BY VgmSizes DEF Apart, BothApart, BankAddr
<1>2. \A y \in IoRam : BankAddr # y /\ s # y /\ s + 1 # y
  BY VgmSizes DEF IoRam, BankAddr
<1>3. bank = b /\ Known(ram, BankAddr, b) /\ Holds(ram, s, back)
  BY DEF InBank
<1>4. /\ bank' = bank
      /\ \/ ram' = ram
         \/ \E new : ram' = Put2(ram, low, new)
         \/ ram' = Without(ram, {low, low + 1})
         \/ \E y \in IoRam : \E new : ram' = With(ram, y, new)
  BY DEF KeepsBank
<1> HIDE DEF s, back, low, b
<1>5. Known(ram', BankAddr, b) /\ Holds(ram', s, back)
  <2>1. CASE ram' = ram
    BY <1>3, <2>1
  <2>2. ASSUME NEW new, ram' = Put2(ram, low, new) PROVE <1>5!:
    <3>1. Known(Put2(ram, low, new), BankAddr, b)
      BY <1>1, <1>3, KnownKept
    <3>2. Holds(Put2(ram, low, new), s, back)
      BY <1>1, <1>3, HoldsKept
    <3> QED  BY <2>2, <3>1, <3>2
  <2>3. CASE ram' = Without(ram, {low, low + 1})
    BY <1>1, <1>3, <2>3, KnownKept, HoldsKept
  <2>4. ASSUME NEW y \in IoRam, NEW new, ram' = With(ram, y, new) PROVE <1>5!:
    <3>1. Known(With(ram, y, new), BankAddr, b)
      BY <1>2, <1>3, KnownKept
    <3>2. Holds(With(ram, y, new), s, back)
      BY <1>2, <1>3, HoldsKept
    <3> QED  BY <2>4, <3>1, <3>2
  <2> QED  BY <1>4, <2>1, <2>2, <2>3, <2>4
<1> QED  BY <1>3, <1>4, <1>5 DEF InBank, s, back, b

-----------------------------------------------------------------------------
(***************************************************************************)
(* The delay routine.                                                      *)
(***************************************************************************)
LEMMA DelayCalled ==
  ASSUME Step, NEW writes \in Seq(Timed), NEW e \in Entry, NEW x \in Nat, x < 32768,
         Read(x) = \hCF, Point(writes, e, x, 4, 68)
  PROVE  /\ Timely(writes) /\ KeepsBank
         /\ Point(writes, e, 8, 6, 52)' /\ Holds(ram', VgmStack - 6, x + 1)
<1>1. OnClock /\ OnStack /\ pc = x /\ sp = VgmStack - 4 /\ de \in Nat /\ VgmStack \in Nat
  BY PointIs, VgmSizes
<1>2. /\ Ticks(8, 16) /\ written' = written /\ delays' = delays + 1
      /\ bank' = bank /\ PutsWord(x + 1) /\ de' = de
  BY <1>1, StackStep
<1>3. sp' = VgmStack - 6 /\ ram' = Put2(ram, VgmStack - 6, x + 1)
  BY <1>1, <1>2 DEF PutsWord
<1>4. KeepsBank
  BY <1>2, <1>3 DEF KeepsBank
<1>5. Holds(ram', VgmStack - 6, x + 1)
  <2> DEFINE low == VgmStack - 6
             back == x + 1
  <2>1. low \in Nat /\ ram' = Put2(ram, low, back)
    BY <1>3, VgmSizes
  <2> HIDE DEF low, back
  <2>2. Holds(Put2(ram, low, back), low, back)
    BY <2>1, Written
  <2> QED  BY <2>1, <2>2 DEF low, back
<1>6. /\ Own(e) \in Int /\ clock = Own(e) + 32 * delays + 68 /\ delays \in Nat /\ clock \in Nat
      /\ e.nth <= Len(writes) /\ written = Played(writes, e.nth)
  BY OwnIs DEF Point, Paid
<1>7. clock + 16 \in Nat /\ clock + 16 = Own(e) + 32 * (delays + 1) + 52 /\ delays + 1 \in Nat
  BY <1>6
<1>8. Paid(writes, e, 52)'
  BY <1>1, <1>2, <1>6, <1>7 DEF Paid, Ticks
<1>9. Timely(writes)
  BY <1>2, PaidIsTimely DEF Point
<1> QED  BY <1>2, <1>3, <1>4, <1>5, <1>8, <1>9 DEF Point, Ticks

LEMMA DelayReads ==
  ASSUME Step, NEW writes \in Seq(Timed), NEW e \in Entry, NEW x \in Nat, x < 32768,
         NEW lo \in Byte, NEW hi \in Byte, Read(x + 1) = lo, Read(x + 2) = hi,
         NEW n \in Nat, NumberIs(n, lo, hi), Reading(writes, e, x, lo, hi)
  PROVE  /\ Timely(writes) /\ KeepsBank
         /\ \/ Reading(writes, e, x, lo, hi)'
            \/ Holds(ram', VgmStack - 6, x + 3) /\ Counting(writes, e, 0, n)'
<1>1. lo \in Nat /\ lo < 256 /\ hi \in Nat /\ hi < 256 /\ VgmStack \in Nat /\ 65414 < VgmStack
  BY VgmSizes DEF Byte
<1>2. Word(x + 1 + 1) = x + 2 /\ Word(x + 2 + 1) = x + 3
  BY DEF Word
<1>3. ASSUME NEW y \in Nat, y <= 65532, NEW t, NEW k \in Nat, 2 <= k, k <= 6,
             Point(writes, e, y, k, t)
      PROVE  OnClock /\ OnStack /\ pc = y /\ sp = VgmStack - k /\ de \in Nat
  BY <1>3, PointIs
<1>4. bank' = bank /\ ram' = ram => KeepsBank
  BY DEF KeepsBank
<1>5. CASE Point(writes, e, 8, 6, 52) /\ Holds(ram, VgmStack - 6, x + 1)
  <2>1. OnClock /\ OnStack /\ pc = 8 /\ sp = VgmStack - 6 /\ de \in Nat
    BY <1>3, <1>5
  <2>2. Ticks(9, 12) /\ Quiet /\ TakesWord /\ hl' = Top /\ de' = de
    BY <2>1, StackStep, LowerBytes
  <2>3. sp' = VgmStack - 4 /\ ram' = Without(ram, {VgmStack - 6, VgmStack - 6 + 1})
    BY <1>1, <2>1, <2>2 DEF TakesWord
  <2>4. Top = x + 1
    <3>1. sp \in Nat /\ sp + 2 <= 65535 /\ x + 1 \in Nat /\ Holds(ram, sp, x + 1)
      BY <1>5, <2>1 DEF OnStack
    <3> QED  BY <3>1, TopHolds
  <2>5. Moves(9, 12, 4)
    BY <2>1, <2>2, <2>3 DEF Moves
  <2>6. Point(writes, e, 9, 4, 64)' /\ Timely(writes)
    BY <1>5, <2>5, PointMoves
  <2>7. KeepsBank
    BY <2>2, <2>3 DEF KeepsBank, Quiet
  <2> QED  BY <2>2, <2>4, <2>6, <2>7 DEF Reading
<1>6. CASE Point(writes, e, 9, 4, 64) /\ hl = x + 1
  <2>1. OnClock /\ pc = 9 /\ sp = VgmStack - 4 /\ de \in Nat
    BY <1>3, <1>6
  <2>2. Moves(10, 8, 4) /\ a' = Read(hl) /\ hl' = Word(hl + 1) /\ ram' = ram
    BY <2>1, LoadStep, LowerBytes DEF Moves
  <2>3. a' = lo /\ hl' = x + 2
    BY <1>2, <1>6, <2>2
  <2>4. Point(writes, e, 10, 4, 72)' /\ Timely(writes)
    BY <1>6, <2>2, PointMoves
  <2> QED  BY <1>4, <2>2, <2>3, <2>4 DEF Reading, Moves, Quiet
<1>7. CASE Point(writes, e, 10, 4, 72) /\ hl = x + 2 /\ a = lo
  <2>1. OnClock /\ pc = 10 /\ sp = VgmStack - 4 /\ de \in Nat
    BY <1>3, <1>7
  <2>2. Ticks(11, 4) /\ Quiet /\ de' = 256 * High(de) + a /\ UNCHANGED <<hl, sp, ram>>
    BY <2>1, LoadStep, LowerBytes
  <2>3. de' \in Nat /\ Low(de') = lo
    BY <1>1, <1>7, <2>1, <2>2 DEF Low, High
  <2>4. Moves(11, 4, 4)
    BY <2>1, <2>2, <2>3 DEF Moves
  <2>5. Point(writes, e, 11, 4, 76)' /\ Timely(writes)
    BY <1>7, <2>4, PointMoves
  <2> QED  BY <1>4, <1>7, <2>2, <2>3, <2>5 DEF Reading, Quiet
<1>8. CASE Point(writes, e, 11, 4, 76) /\ hl = x + 2 /\ Low(de) = lo
  <2>1. OnClock /\ pc = 11 /\ sp = VgmStack - 4 /\ de \in Nat
    BY <1>3, <1>8
  <2>2. Moves(12, 8, 4) /\ a' = Read(hl) /\ hl' = Word(hl + 1) /\ UNCHANGED <<de, ram>>
    BY <2>1, LoadStep, LowerBytes DEF Moves
  <2>3. a' = hi /\ hl' = x + 3 /\ Low(de') = lo
    BY <1>2, <1>8, <2>2
  <2>4. Point(writes, e, 12, 4, 84)' /\ Timely(writes)
    BY <1>8, <2>2, PointMoves
  <2> QED  BY <1>4, <2>2, <2>3, <2>4 DEF Reading, Moves, Quiet
<1>9. CASE Point(writes, e, 12, 4, 84) /\ hl = x + 3 /\ Low(de) = lo /\ a = hi
  <2>1. OnClock /\ pc = 12 /\ sp = VgmStack - 4 /\ de \in Nat
    BY <1>3, <1>9
  <2>2. Ticks(13, 4) /\ Quiet /\ de' = 256 * a + Low(de) /\ UNCHANGED <<hl, sp, ram>>
    BY <2>1, LoadStep, LowerBytes
  <2>3. de' = lo + 256 * hi /\ de' \in Nat
    BY <1>1, <1>9, <2>2
  <2>4. Moves(13, 4, 4)
    BY <2>1, <2>2, <2>3 DEF Moves
  <2>5. Point(writes, e, 13, 4, 88)' /\ Timely(writes)
    BY <1>9, <2>4, PointMoves
  <2> QED  BY <1>4, <1>9, <2>2, <2>3, <2>5 DEF Reading, Quiet
<1>10. CASE Point(writes, e, 13, 4, 88) /\ hl = x + 3 /\ de = lo + 256 * hi
  <2>1. OnClock /\ OnStack /\ pc = 13 /\ sp = VgmStack - 4 /\ de \in Nat
    BY <1>3, <1>10
  <2>2. Ticks(14, 16) /\ Quiet /\ PutsWord(x + 3) /\ de' = de
    BY <1>10, <2>1, StackStep, LowerBytes
  <2>3. sp' = VgmStack - 6 /\ ram' = Put2(ram, VgmStack - 6, x + 3)
    BY <1>1, <2>1, <2>2 DEF PutsWord
  <2>4. Moves(14, 16, 6)
    BY <2>1, <2>2, <2>3 DEF Moves
  <2>5. Point(writes, e, 14, 6, 104)' /\ Timely(writes)
    BY <1>10, <2>4, PointMoves
  <2>6. Point(writes, e, 14, 6, 104 + 64 * 0)'
    BY <2>5
  <2>7. Counting(writes, e, 0, n)'
    BY <1>10, <2>2, <2>6 DEF Counting, NumberIs
  <2>8. Holds(ram', VgmStack - 6, x + 3)
    <3> DEFINE low == VgmStack - 6
               back == x + 3
    <3>1. low \in Nat /\ ram' = Put2(ram, low, back)
      BY <1>1, <2>3
    <3> HIDE DEF low, back
    <3>2. Holds(Put2(ram, low, back), low, back)
      BY <3>1, Written
    <3> QED  BY <3>1, <3>2 DEF low, back
  <2>9. KeepsBank
    BY <2>2, <2>3 DEF KeepsBank, Quiet
  <2> QED  BY <2>5, <2>7, <2>8, <2>9
<1> QED  BY <1>5, <1>6, <1>7, <1>8, <1>9, <1>10 DEF Reading

\* What the OR of the two bytes of a number says of the number
BitsUp(x) ==
  BitOf(x, 1) + 2 * BitOf(x, 2) + 4 * BitOf(x, 4) + 8 * BitOf(x, 8) + 16 * BitOf(x, 16)
    + 32 * BitOf(x, 32) + 64 * BitOf(x, 64) + 128 * BitOf(x, 128)

LEMMA BitsAddUp ==
  ASSUME NEW x \in Nat, x < 256
  PROVE  BitsUp(x) = x
BY DEF BitsUp, BitOf

LEMMA BitIs ==
  ASSUME NEW x \in Nat, NEW bit \in Bits
  PROVE  BitOf(x, bit) \in {0, 1}
<1>1. (x \div bit) \in Int
  BY DEF Bits
<1> QED  BY <1>1 DEF BitOf, Bits

LEMMA BothIs ==
  ASSUME NEW x \in Nat, NEW y \in Nat, NEW bit \in Bits
  PROVE  LET both == IF BitOf(x, bit) = 1 /\ BitOf(y, bit) = 1 THEN bit ELSE 0
         IN  both \in Nat /\ both <= bit * BitOf(x, bit) /\ both <= bit * BitOf(y, bit)
<1>1. BitOf(x, bit) \in {0, 1} /\ BitOf(y, bit) \in {0, 1} /\ bit \in Nat
  BY BitIs DEF Bits
<1> QED  BY <1>1

LEMMA AndIs ==
  ASSUME NEW x \in Nat, NEW y \in Nat, x < 256, y < 256
  PROVE  And(x, y) \in Nat /\ And(x, y) <= x /\ And(x, y) <= y
<1> DEFINE both(bit) == IF BitOf(x, bit) = 1 /\ BitOf(y, bit) = 1 THEN bit ELSE 0
<1>1. \A bit \in Bits : /\ both(bit) \in Nat
                        /\ both(bit) <= bit * BitOf(x, bit) /\ both(bit) <= bit * BitOf(y, bit)
  BY BothIs
<1>2. \A bit \in Bits : BitOf(x, bit) \in Nat /\ BitOf(y, bit) \in Nat
  BY BitIs
<1>3. And(x, y) = both(1) + both(2) + both(4) + both(8) + both(16) + both(32) + both(64) + both(128)
  BY DEF And
<1> HIDE DEF both
<1>4. /\ both(1) \in Nat /\ both(2) \in Nat /\ both(4) \in Nat /\ both(8) \in Nat
      /\ both(16) \in Nat /\ both(32) \in Nat /\ both(64) \in Nat /\ both(128) \in Nat
  BY <1>1 DEF Bits
<1>5. And(x, y) \in Nat
  BY <1>3, <1>4
<1>6. And(x, y) <= BitsUp(x)
  <2>1. /\ both(1) <= BitOf(x, 1) /\ both(2) <= 2 * BitOf(x, 2) /\ both(4) <= 4 * BitOf(x, 4)
        /\ both(8) <= 8 * BitOf(x, 8) /\ both(16) <= 16 * BitOf(x, 16)
        /\ both(32) <= 32 * BitOf(x, 32) /\ both(64) <= 64 * BitOf(x, 64)
        /\ both(128) <= 128 * BitOf(x, 128)
    BY <1>1, <1>2 DEF Bits
  <2>2. /\ BitOf(x, 1) \in Nat /\ BitOf(x, 2) \in Nat /\ BitOf(x, 4) \in Nat /\ BitOf(x, 8) \in Nat
        /\ BitOf(x, 16) \in Nat /\ BitOf(x, 32) \in Nat /\ BitOf(x, 64) \in Nat
        /\ BitOf(x, 128) \in Nat
    BY <1>2 DEF Bits
  <2> QED  BY <1>3, <1>4, <2>1, <2>2 DEF BitsUp
<1>7. And(x, y) <= BitsUp(y)
  <2>1. /\ both(1) <= BitOf(y, 1) /\ both(2) <= 2 * BitOf(y, 2) /\ both(4) <= 4 * BitOf(y, 4)
        /\ both(8) <= 8 * BitOf(y, 8) /\ both(16) <= 16 * BitOf(y, 16)
        /\ both(32) <= 32 * BitOf(y, 32) /\ both(64) <= 64 * BitOf(y, 64)
        /\ both(128) <= 128 * BitOf(y, 128)
    BY <1>1, <1>2 DEF Bits
  <2>2. /\ BitOf(y, 1) \in Nat /\ BitOf(y, 2) \in Nat /\ BitOf(y, 4) \in Nat /\ BitOf(y, 8) \in Nat
        /\ BitOf(y, 16) \in Nat /\ BitOf(y, 32) \in Nat /\ BitOf(y, 64) \in Nat
        /\ BitOf(y, 128) \in Nat
    BY <1>2 DEF Bits
  <2> QED  BY <1>3, <1>4, <2>1, <2>2 DEF BitsUp
<1> QED  BY <1>5, <1>6, <1>7, BitsAddUp

LEMMA OrIsZero ==
  ASSUME NEW n \in Nat, n < 65536
  PROVE  "Z" \in Zero(Or(High(n), Low(n))) <=> n = 0
<1> DEFINE x == High(n)
           y == Low(n)
<1>1. x \in Nat /\ y \in Nat /\ x < 256 /\ y < 256 /\ (x = 0 /\ y = 0 <=> n = 0)
  BY DEF High, Low
<1> HIDE DEF x, y
<1>2. And(x, y) \in Nat /\ And(x, y) <= x /\ And(x, y) <= y
  BY <1>1, AndIs
<1>3. Or(x, y) = 0 <=> x = 0 /\ y = 0
  BY <1>1, <1>2 DEF Or
<1>4. "Z" \in Zero(Or(x, y)) <=> Or(x, y) = 0
  BY DEF Zero, Flag
<1> QED  BY <1>1, <1>3, <1>4 DEF x, y

LEMMA DelayCounts ==
  ASSUME Step, NEW writes \in Seq(Timed), NEW e \in Entry, NEW x \in Nat, x < 32768,
         NEW n \in Nat, n < 65536, NEW k \in Nat, NEW left \in Nat,
         Counted(writes, e, x, n, k, left)
  PROVE  /\ Timely(writes) /\ KeepsBank
         /\ \/ \E k2, left2 \in Nat : Counted(writes, e, x, n, k2, left2)'
            \/ Point(writes, e, x + 3, 4, 132 + 64 * n)'
<1>1. /\ VgmStack \in Nat /\ 65414 < VgmStack /\ de = left /\ left <= n /\ k + left = n
      /\ Holds(ram, VgmStack - 6, x + 3) /\ Counting(writes, e, k, left)
  BY VgmSizes DEF Counted, Counting
<1>2. ASSUME NEW y \in Nat, y <= 65532, NEW t, Point(writes, e, y, 6, t)
      PROVE  OnClock /\ OnStack /\ pc = y /\ sp = VgmStack - 6 /\ de \in Nat
  BY <1>2, PointIs
<1>3. bank' = bank /\ ram' = ram => KeepsBank /\ Holds(ram', VgmStack - 6, x + 3)
  BY <1>1 DEF KeepsBank
<1>4. ASSUME NEW y \in Nat, NEW t \in Int, Point(writes, e, y, 6, t),
             NEW z \in Nat, NEW time \in Nat, NEW u, u = t + time, Moves(z, time, 6)
      PROVE  Point(writes, e, z, 6, u)' /\ Timely(writes)
  <2>1. Point(writes, e, z, 6, t + time)' /\ Timely(writes)
    BY <1>4, PointMoves
  <2> QED  BY <1>4, <2>1
<1>5. CASE Point(writes, e, 14, 6, 104 + 64 * k)
  <2>1. OnClock /\ pc = 14 /\ sp = VgmStack - 6 /\ de \in Nat
    BY <1>2, <1>5
  <2>2. Moves(15, 4, 6) /\ a' = High(de) /\ UNCHANGED <<de, ram>>
    BY <2>1, LoadStep, LowerBytes DEF Moves
  <2>3. Point(writes, e, 15, 6, 108 + 64 * k)' /\ Timely(writes)
    BY <1>4, <1>5, <2>2
  <2> QED  BY <1>1, <1>3, <2>2, <2>3, SMTT(60) DEF Counted, Counting, Moves, Quiet
<1>6. CASE Point(writes, e, 15, 6, 108 + 64 * k) /\ a = High(de)
  <2>1. OnClock /\ pc = 15 /\ sp = VgmStack - 6 /\ de \in Nat
    BY <1>2, <1>6
  <2>2. Moves(16, 4, 6) /\ f' = Zero(Or(a, Low(de))) /\ UNCHANGED <<de, ram>>
    BY <2>1, ArithmeticStep, LowerBytes DEF Moves
  <2>3. Point(writes, e, 16, 6, 112 + 64 * k)' /\ Timely(writes)
    BY <1>4, <1>6, <2>2
  <2>4. "Z" \in f' <=> de' = 0
    <3>1. de \in Nat /\ de < 65536
      BY <1>1, <2>1
    <3>2. "Z" \in Zero(Or(High(de), Low(de))) <=> de = 0
      BY <3>1, OrIsZero
    <3> QED  BY <1>6, <2>2, <3>2
  <2> QED  BY <1>1, <1>3, <2>2, <2>3, <2>4, SMTT(60) DEF Counted, Counting, Moves, Quiet
<1>7. CASE Point(writes, e, 16, 6, 112 + 64 * k) /\ ("Z" \in f <=> de = 0)
  <2>1. OnClock /\ OnStack /\ pc = 16 /\ sp = VgmStack - 6 /\ de \in Nat
    BY <1>2, <1>7
  <2>2. CASE de = 0
    <3>1. Ticks(Top, 20) /\ Quiet /\ TakesWord /\ de' = de
      BY <1>7, <2>1, <2>2, StackStep, LowerBytes
    <3>2. sp' = VgmStack - 4 /\ ram' = Without(ram, {VgmStack - 6, VgmStack - 6 + 1})
      BY <1>1, <2>1, <3>1 DEF TakesWord
    <3>3. Top = x + 3
      <4>1. sp \in Nat /\ sp + 2 <= 65535 /\ x + 3 \in Nat /\ Holds(ram, sp, x + 3)
        BY <1>1, <2>1 DEF OnStack
      <4> QED  BY <4>1, TopHolds
    <3>4. Moves(x + 3, 20, 4)
      BY <2>1, <3>1, <3>2, <3>3 DEF Moves
    <3>5. k = n
      BY <1>1, <2>2
    <3>6. Point(writes, e, x + 3, 4, 112 + 64 * k + 20)' /\ Timely(writes)
      BY <1>7, <3>4, PointMoves
    <3>7. 112 + 64 * k + 20 = 132 + 64 * n
      BY <3>5
    <3>8. KeepsBank
      BY <3>1, <3>2 DEF KeepsBank, Quiet
    <3> QED  BY <3>6, <3>7, <3>8
  <2>3. CASE de # 0
    <3>1. Moves(17, 8, 6) /\ UNCHANGED <<de, ram>>
      <4>1. Read(pc) = \hC8 /\ "Z" \notin f /\ pc + 1 = 17
        BY <1>7, <2>1, <2>3, LowerBytes
      <4>2. Ticks(pc + 1, 8) /\ Quiet /\ UNCHANGED <<de, sp, ram>>
        BY <2>1, <4>1, StackStep
      <4> QED  BY <2>1, <4>1, <4>2 DEF Moves
    <3>2. Point(writes, e, 17, 6, 120 + 64 * k)' /\ Timely(writes)
      BY <1>4, <1>7, <3>1
    <3>3. KeepsBank /\ Holds(ram', VgmStack - 6, x + 3)
      BY <1>3, <3>1 DEF Moves, Quiet
    <3>4. Counting(writes, e, k, left)'
      BY <1>1, <2>3, <3>1, <3>2 DEF Counting
    <3>5. Counted(writes, e, x, n, k, left)'
      BY <1>1, <3>3, <3>4 DEF Counted
    <3> QED  BY <3>2, <3>3, <3>5
  <2> QED  BY <2>2, <2>3
<1>8. CASE Point(writes, e, 17, 6, 120 + 64 * k) /\ de # 0
  <2>1. OnClock /\ pc = 17 /\ sp = VgmStack - 6 /\ de \in Nat
    BY <1>2, <1>8
  <2>2. Ticks(18, 8) /\ Quiet /\ de' = Word(de - 1) /\ UNCHANGED <<sp, ram>>
    BY <2>1, ArithmeticStep, LowerBytes
  <2>3. de' = left - 1 /\ left \in Nat \ {0} /\ de' \in Nat
    BY <1>1, <1>8, <2>1, <2>2 DEF Word
  <2>4. Moves(18, 8, 6)
    BY <2>1, <2>2, <2>3 DEF Moves
  <2>5. Point(writes, e, 18, 6, 64 + 64 * (k + 1))' /\ Timely(writes)
    <3>1. 64 + 64 * (k + 1) = 120 + 64 * k + 8
      OBVIOUS
    <3> QED  BY <1>4, <1>8, <2>4, <3>1
  <2>6. Counting(writes, e, k + 1, left - 1)'
    BY <2>3, <2>5 DEF Counting
  <2>7. k + 1 \in Nat /\ left - 1 \in Nat /\ (k + 1) + (left - 1) = n
    BY <1>1, <2>3
  <2>8. Counted(writes, e, x, n, k + 1, left - 1)'
    BY <1>3, <2>2, <2>6, <2>7 DEF Counted, Quiet
  <2> QED  BY <1>3, <2>2, <2>5, <2>7, <2>8 DEF Quiet
<1>9. CASE Point(writes, e, 18, 6, 64 + 64 * k)
  <2>1. OnClock /\ pc = 18 /\ sp = VgmStack - 6 /\ de \in Nat
    BY <1>2, <1>9
  <2>2. Moves(19, 8, 6) /\ UNCHANGED <<de, ram>>
    BY <2>1, ArithmeticStep, LowerBytes DEF Moves
  <2>3. Point(writes, e, 19, 6, 72 + 64 * k)' /\ Timely(writes)
    BY <1>4, <1>9, <2>2
  <2> QED  BY <1>1, <1>3, <2>2, <2>3, SMTT(60) DEF Counted, Counting, Moves, Quiet
<1>10. CASE Point(writes, e, 19, 6, 72 + 64 * k)
  <2>1. OnClock /\ pc = 19 /\ sp = VgmStack - 6 /\ de \in Nat
    BY <1>2, <1>10
  <2>2. Moves(20, 8, 6) /\ UNCHANGED <<de, ram>>
    BY <2>1, ArithmeticStep, LowerBytes DEF Moves
  <2>3. Point(writes, e, 20, 6, 80 + 64 * k)' /\ Timely(writes)
    BY <1>4, <1>10, <2>2
  <2> QED  BY <1>1, <1>3, <2>2, <2>3, SMTT(60) DEF Counted, Counting, Moves, Quiet
<1>11. CASE Point(writes, e, 20, 6, 80 + 64 * k)
  <2>1. OnClock /\ pc = 20 /\ sp = VgmStack - 6 /\ de \in Nat
    BY <1>2, <1>11
  <2>2. Moves(21, 8, 6) /\ UNCHANGED <<de, ram>>
    BY <2>1, ArithmeticStep, LowerBytes DEF Moves
  <2>3. Point(writes, e, 21, 6, 88 + 64 * k)' /\ Timely(writes)
    BY <1>4, <1>11, <2>2
  <2> QED  BY <1>1, <1>3, <2>2, <2>3, SMTT(60) DEF Counted, Counting, Moves, Quiet
<1>12. CASE Point(writes, e, 21, 6, 88 + 64 * k)
  <2>1. OnClock /\ pc = 21 /\ sp = VgmStack - 6 /\ de \in Nat
    BY <1>2, <1>12
  <2>2. Moves(14, 16, 6) /\ UNCHANGED <<de, ram>>
    BY <2>1, JumpStep, LowerBytes DEF Moves
  <2>3. Point(writes, e, 14, 6, 104 + 64 * k)' /\ Timely(writes)
    BY <1>4, <1>12, <2>2
  <2> QED  BY <1>1, <1>3, <2>2, <2>3, SMTT(60) DEF Counted, Counting, Moves, Quiet
<1> QED
  BY <1>1, <1>5, <1>6, <1>7, <1>8, <1>9, <1>10, <1>11, <1>12 DEF Counting

-----------------------------------------------------------------------------
(***************************************************************************)
(* The units of the code.                                                  *)
(***************************************************************************)
LEMMA ClosedIs ==
  ASSUME NEW t \in Translation, NEW writes, NEW at, ClosedAt(at, t, writes), NEW p \in DOMAIN at
  PROVE  /\ p \in Nat /\ p < Len(t.code) /\ Len(t.code) \in Nat /\ t.code \in Seq(Byte)
         /\ at[p] \in Entry /\ Base(at[p].bank) <= p /\ p < Base(at[p].bank + 1)
         /\ p = Len(t.code) - 1 => t.code[p + 1] = \hFF /\ at[p].nth = Len(writes)
         /\ p # Len(t.code) - 1 => Unit(at, t.code, writes, p)
<1>1. /\ Layout(at, t.code, writes, Len(t.code) - 1) /\ t.code[Len(t.code)] = \hFF
      /\ Len(t.code) \in Nat /\ t.code \in Seq(Byte)
  BY TranslationFields DEF ClosedAt
<1> DEFINE stop == Len(t.code) - 1
<1>2. /\ stop \in Nat /\ DOMAIN at \subseteq 0 .. stop /\ InPlace(at[p], p)
      /\ p # stop => Unit(at, t.code, writes, p)
      /\ at[stop].nth = Len(writes)
  BY <1>1 DEF Layout
<1>3. p \in Nat /\ p < Len(t.code) /\ (p = stop => p + 1 = Len(t.code))
  BY <1>1, <1>2
<1> QED  BY <1>1, <1>2, <1>3 DEF InPlace

LEMMA ByteIs ==
  ASSUME NEW code \in Seq(Byte), NEW i \in 1 .. Len(code)
  PROVE  code[i] \in Byte
OBVIOUS

LEMMA NextPlace ==
  ASSUME NEW e \in Entry, NEW e2 \in Entry, e2.bank = e.bank, NEW p \in Nat, NEW n \in Nat
  PROVE  Place(e2, p + n) = Place(e, p) + n
BY BanksAre DEF Place

LEMMA OwnOf ==
  ASSUME NEW e \in Entry, NEW e2 \in Entry
  PROVE  /\ Own(e) \in Int /\ Own(e2) \in Int
         /\ \A n \in Nat : e2.nth = e.nth /\ e2.bank = e.bank /\ e2.clk = e.clk + n =>
                             Own(e2) = Own(e) + n
         /\ e2.nth = e.nth + 1 /\ e2.bank = e.bank /\ e2.clk = e.clk => Own(e2) = Own(e) + 20
         /\ e2.nth = e.nth /\ e2.bank = e.bank + 1 /\ e2.clk = e.clk => Own(e2) = Own(e) + 104
BY EntryFields DEF Own

\* A call of the delay routine
LEMMA NumberOf ==
  ASSUME NEW lo \in Byte, NEW hi \in Byte, NEW n, NumberIs(n, lo, hi)
  PROVE  n \in Nat /\ n < 65536 /\ 64 * (n + 1) \in Nat
<1>1. lo \in Nat /\ lo < 256 /\ hi \in Nat /\ hi < 256
  BY DEF Byte
<1>2. lo + 256 * hi \in Nat /\ lo + 256 * hi < 65536
  BY <1>1
<1>3. n \in Nat /\ n < 65536
  BY <1>2 DEF NumberIs
<1> QED  BY <1>3

\* The delay of n more units
DelayedBy(e, e2, n) ==
  e2.bank = e.bank /\ e2.nth = e.nth /\ e2.clk = e.clk + 64 * (n + 1)

LEMMA OwnDelay ==
  ASSUME NEW e \in Entry, NEW e2 \in Entry, NEW n \in Nat, DelayedBy(e, e2, n)
  PROVE  SameTime(e, 132 + 64 * n, e2, 68)
<1> DEFINE m == 64 * (n + 1)
<1>1. m \in Nat /\ e2.bank = e.bank /\ e2.nth = e.nth /\ e2.clk = e.clk + m
  BY DEF DelayedBy
<1>2. Own(e) \in Int /\ Own(e2) = Own(e) + m
  <2> HIDE DEF m
  <2> QED  BY <1>1, OwnOf
<1>3. Own(e) + (132 + 64 * n) = Own(e2) + 68
  BY <1>2
<1> QED  BY <1>1, <1>3 DEF SameTime

LEMMA DelayStep ==
  ASSUME Step, NEW writes \in Seq(Timed), NEW e \in Entry, InBank(e),
         NEW x \in Nat, x < 32768, NEW lo \in Byte, NEW hi \in Byte,
         Read(x) = \hCF, Read(x + 1) = lo, Read(x + 2) = hi,
         NEW n \in Nat, n < 65536, NumberIs(n, lo, hi),
         NEW e2 \in Entry, DelayedBy(e, e2, n),
         Point(writes, e, x, 4, 68) \/ Delayed(writes, e, x, lo, hi)
  PROVE  /\ Timely(writes)
         /\ \/ InBank(e)' /\ Delayed(writes, e, x, lo, hi)'
            \/ InBank(e2)' /\ Point(writes, e2, x + 3, 4, 68)'
<1>1. CASE Point(writes, e, x, 4, 68)
  <2>1. /\ Timely(writes) /\ KeepsBank
        /\ Point(writes, e, 8, 6, 52)' /\ Holds(ram', VgmStack - 6, x + 1)
    BY <1>1, DelayCalled
  <2>2. Delayed(writes, e, x, lo, hi)'
    BY <2>1 DEF Delayed, Reading
  <2> QED  BY <2>1, <2>2, InBankKept
<1>2. CASE Reading(writes, e, x, lo, hi)
  <2>1. /\ Timely(writes) /\ KeepsBank
        /\ \/ Reading(writes, e, x, lo, hi)'
           \/ Holds(ram', VgmStack - 6, x + 3) /\ Counting(writes, e, 0, n)'
    BY <1>2, DelayReads
  <2>2. Delayed(writes, e, x, lo, hi)'
    <3>1. CASE Reading(writes, e, x, lo, hi)'
      BY <3>1 DEF Delayed
    <3>2. CASE Holds(ram', VgmStack - 6, x + 3) /\ Counting(writes, e, 0, n)'
      <4>1. Counted(writes, e, x, n, 0, n)'
        BY <3>2 DEF Counted
      <4> QED  BY <4>1 DEF Delayed
    <3> QED  BY <2>1, <3>1, <3>2
  <2> QED  BY <2>1, <2>2, InBankKept
<1>3. ASSUME NEW k \in Nat, NEW left \in Nat, Counted(writes, e, x, n, k, left)
      PROVE  /\ Timely(writes)
             /\ \/ InBank(e)' /\ Delayed(writes, e, x, lo, hi)'
                \/ InBank(e2)' /\ Point(writes, e2, x + 3, 4, 68)'
  <2>1. /\ Timely(writes) /\ KeepsBank
        /\ \/ \E k2, left2 \in Nat : Counted(writes, e, x, n, k2, left2)'
           \/ Point(writes, e, x + 3, 4, 132 + 64 * n)'
    BY <1>3, DelayCounts
  <2>2. InBank(e)'
    BY <2>1, InBankKept
  <2>3. CASE \E k2, left2 \in Nat : Counted(writes, e, x, n, k2, left2)'
    <3>1. Delayed(writes, e, x, lo, hi)'
      BY <2>3 DEF Delayed
    <3> QED  BY <2>1, <2>2, <3>1
  <2>4. CASE Point(writes, e, x + 3, 4, 132 + 64 * n)'
    <3> DEFINE t == 132 + 64 * n
    <3>1. t \in Int /\ SameTime(e, t, e2, 68)
      BY OwnDelay
    <3>2. Paid(writes, e, t)' /\ pc' = x + 3 /\ sp' = VgmStack - 4
      BY <2>4 DEF Point
    <3> HIDE DEF t
    <3>3. Paid(writes, e2, 68)'
      BY <3>1, <3>2, PaidKept
    <3>4. Point(writes, e2, x + 3, 4, 68)'
      BY <3>2, <3>3 DEF Point
    <3>5. InBank(e2)'
      BY <2>2 DEF InBank, DelayedBy
    <3> QED  BY <2>1, <3>4, <3>5
  <2> QED  BY <2>1, <2>3, <2>4
<1>4. ASSUME NEW n2 \in Nat, NEW k \in Nat, NEW left \in Nat, NumberIs(n2, lo, hi),
             Counted(writes, e, x, n2, k, left)
      PROVE  n2 = n
  BY <1>4 DEF NumberIs
<1> QED  BY <1>1, <1>2, <1>3, <1>4 DEF Delayed

LEMMA DelayUnitIs ==
  ASSUME NEW t \in Translation, NEW writes, NEW at, ClosedAt(at, t, writes), NEW p \in DOMAIN at,
         DelayAt(at, t.code, p)
  PROVE  /\ t.code[p + 1] = \hCF /\ t.code[p + 2] \in Byte /\ t.code[p + 3] \in Byte
         /\ p + 3 \in DOMAIN at /\ at[p + 3] \in Entry
         /\ p + 3 <= Base(at[p].bank + 1) /\ p + 3 <= Len(t.code)
         /\ \E n \in Nat : /\ n < 65536 /\ NumberIs(n, t.code[p + 2], t.code[p + 3])
                           /\ DelayedBy(at[p], at[p + 3], n)
<1> DEFINE code == t.code
           e == at[p]
           lo == code[p + 2]
           hi == code[p + 3]
           n == lo + 256 * hi
           q == p + 3
           e2 == at[q]
<1>1. /\ p \in Nat /\ p < Len(code) /\ Len(code) \in Nat /\ code \in Seq(Byte) /\ e \in Entry
  BY ClosedIs
<1>2. code[p + 1] = \hCF /\ q \in DOMAIN at
  BY DEF DelayAt
<1>11. e2 = [e EXCEPT !.clk = @ + 64 * (n + 1)]
  BY DEF DelayAt
<1>3. q \in Nat /\ q < Len(code) /\ e2 \in Entry /\ q < Base(e2.bank + 1)
  BY <1>2, ClosedIs
<1>4. p + 2 \in 1 .. Len(code) /\ p + 3 \in 1 .. Len(code)
  BY <1>1, <1>3
<1>5. lo \in Byte /\ hi \in Byte
  BY <1>1, <1>4, ByteIs
<1>6. NumberIs(n, lo, hi)
  BY DEF NumberIs
<1> HIDE DEF n, lo, hi
<1>10. n \in Nat /\ n < 65536
  BY <1>5, <1>6, NumberOf
<1>7. e2.bank = e.bank /\ e2.nth = e.nth /\ e2.clk = e.clk + 64 * (n + 1)
  <2> HIDE DEF e, e2
  <2> QED  BY <1>1, <1>11 DEF Entry
<1>8. DelayedBy(e, e2, n)
  BY <1>7 DEF DelayedBy
<1>9. q <= Base(e.bank + 1) /\ q <= Len(code)
  <2>1. Base(e.bank + 1) \in Int
    BY <1>1, BanksAre
  <2> QED  BY <1>1, <1>3, <1>7, <2>1
<1> QED  BY <1>2, <1>3, <1>5, <1>6, <1>8, <1>9, <1>10 DEF lo, hi

LEMMA DelayUnit ==
  ASSUME Step, trans \in Translation, NEW writes \in Seq(Timed), NEW at,
         NEW code, code = trans.code, ClosedAt(at, trans, writes), NEW p \in DOMAIN at,
         InBank(at[p]), DelayAt(at, code, p),
         \/ BeforeUnit(writes, at[p], p)
         \/ Delayed(writes, at[p], Place(at[p], p), code[p + 2], code[p + 3])
  PROVE  /\ Timely(writes)
         /\ \E q \in DOMAIN at : InUnit(at, code, writes, q)'
<1> DEFINE e == at[p]
           lo == code[p + 2]
           hi == code[p + 3]
           q == p + 3
           e2 == at[q]
           x == Place(e, p)
<1>1. /\ p \in Nat /\ Len(code) \in Nat /\ e \in Entry /\ Base(e.bank) <= p
  BY ClosedIs
<1>2. /\ code[p + 1] = \hCF /\ lo \in Byte /\ hi \in Byte /\ q \in DOMAIN at /\ e2 \in Entry
      /\ q <= Base(e.bank + 1) /\ q <= Len(code)
      /\ \E n \in Nat : n < 65536 /\ NumberIs(n, lo, hi) /\ DelayedBy(e, e2, n)
  BY DelayUnitIs
<1>3. PICK n \in Nat : n < 65536 /\ NumberIs(n, lo, hi) /\ DelayedBy(e, e2, n)
  BY <1>2
<1>4. bank = e.bank /\ 3 \in 1 .. 4
  BY DEF InBank
<1>5. /\ x \in Nat /\ x < 32768 /\ Read(x) = \hCF /\ Read(x + 1) = lo /\ Read(x + 2) = hi
  <2>1. p + 3 <= Base(e.bank + 1) /\ p + 3 <= Len(trans.code) /\ Len(trans.code) \in Nat
    BY <1>1, <1>2
  <2>2. /\ x \in Nat /\ x < 32768 /\ Read(x) = trans.code[p + 1]
        /\ Read(x + 1) = trans.code[p + 2] /\ Read(x + 2) = trans.code[p + 3]
    <3> HIDE DEF e
    <3> QED BY <1>1, <1>4, <2>1, BytesOfUnit
  <2> QED  BY <1>2, <2>2
<1>6. Point(writes, e, x, 4, 68) \/ Delayed(writes, e, x, lo, hi)
  BY DEF BeforeUnit
<1>7. Place(e2, q) = x + 3 /\ q \in Nat
  <2>1. e2.bank = e.bank
    BY <1>3 DEF DelayedBy
  <2>2. 3 \in Nat /\ q \in Nat
    BY <1>1
  <2>3. Place(e2, p + 3) = Place(e, p) + 3
    <3> HIDE DEF e, e2, q, x
    <3> QED  BY <1>1, <1>2, <2>1, <2>2, NextPlace
  <2> QED  BY <2>2, <2>3
<1>8. /\ Timely(writes)
      /\ \/ InBank(e)' /\ Delayed(writes, e, x, lo, hi)'
         \/ InBank(e2)' /\ Point(writes, e2, x + 3, 4, 68)'
  <2> InBank(e)
    OBVIOUS
  <2> HIDE DEF e, e2, x, lo, hi
  <2> QED BY <1>1, <1>2, <1>3, <1>5, <1>6, DelayStep
<1>9. CASE InBank(e)' /\ Delayed(writes, e, x, lo, hi)'
  <2>1. DelayAt(at, code, p)'
    BY DEF DelayAt
  <2>2. InUnit(at, code, writes, p)'
    BY <1>9, <2>1 DEF InUnit
  <2> QED  BY <1>8, <2>2
<1>10. CASE InBank(e2)' /\ Point(writes, e2, x + 3, 4, 68)'
  <2>1. InUnit(at, code, writes, q)'
    BY <1>7, <1>10 DEF InUnit, BeforeUnit
  <2> QED  BY <1>2, <1>8, <2>1
<1> QED  BY <1>8, <1>9, <1>10

\* A write
LEMMA ValueLoaded ==
  ASSUME Step, NEW writes \in Seq(Timed), NEW e \in Entry, InBank(e), NEW x \in Nat, x < 32768,
         NEW val, Read(x) = \h3E, Read(x + 1) = val, Point(writes, e, x, 4, 68)
  PROVE  /\ Timely(writes) /\ InBank(e)'
         /\ Point(writes, e, x + 2, 4, 76)' /\ a' = val
<1>1. OnClock /\ pc = x /\ sp = VgmStack - 4 /\ de \in Nat
  BY PointIs
<1>2. Moves(x + 2, 8, 4) /\ a' = val /\ ram' = ram
  BY <1>1, LoadStep DEF Moves
<1>3. Point(writes, e, x + 2, 4, 76)' /\ Timely(writes)
  BY <1>2, PointMoves
<1>4. KeepsBank
  BY <1>2 DEF KeepsBank, Moves, Quiet
<1> QED  BY <1>2, <1>3, <1>4, InBankKept

\* The write that is next, and due
DueNow(writes, e, write) ==
  /\ e.nth < Len(writes) /\ write = writes[e.nth + 1]
  /\ e.clk - Due(write.at) \in -32 .. 31

LEMMA DueIs ==
  ASSUME NEW writes \in Seq(Timed), NEW e \in Entry, NEW write, DueNow(writes, e, write)
  PROVE  /\ write \in Timed /\ write = writes[e.nth + 1]
         /\ e.nth \in Nat /\ e.nth + 1 \in Nat /\ Len(writes) \in Nat /\ e.nth < Len(writes)
<1>1. /\ e.nth < Len(writes) /\ write = writes[e.nth + 1] /\ e.nth \in Nat
      /\ e.nth + 1 \in 1 .. Len(writes)
  BY EntryFields DEF DueNow
<1>2. write \in Timed
  BY <1>1
<1> QED  BY <1>1, <1>2

LEMMA WriteFields ==
  ASSUME NEW write \in Timed
  PROVE  /\ write.reg \in Nat /\ write.reg <= 47 /\ write.at \in Nat /\ write.val \in Nat
         /\ 16 + write.reg \in Nat /\ IsSound(16 + write.reg)
         /\ 65280 + (16 + write.reg) \in IoRam
         /\ Sound(16 + write.reg, write.val) = [reg |-> write.reg, val |-> write.val]
<1>1. write.reg \in 0 .. 47 /\ write.at \in Nat /\ write.val \in Byte
  BY DEF Timed
<1>2. write.reg \in Nat /\ write.reg <= 47 /\ write.val \in Nat
  BY <1>1 DEF Byte
<1>3. IsSound(16 + write.reg) /\ 65280 + (16 + write.reg) \in IoRam /\ (16 + write.reg) - 16 = write.reg
  BY <1>2 DEF IsSound, IoRam
<1> QED  BY <1>1, <1>2, <1>3 DEF Sound

LEMMA LateBy ==
  ASSUME NEW n \in Nat, NEW b \in Nat, NEW c \in Nat, NEW d \in Nat
  PROVE  (20 * n + 104 * (b - 1) + c + 32 * d + 76) + 12
           - (20 * (n + 1) + 32 * d + 104 * (b - 1) + 68) = c
OBVIOUS

LEMMA LateIs ==
  ASSUME NEW writes, NEW e \in Entry, InBank(e), Paid(writes, e, 76), Ticks(pc + 2, 12)
  PROVE  clock' - (20 * (e.nth + 1) + 32 * delays + 104 * (bank - 1) + 68) = e.clk
<1> DEFINE n == e.nth
           b == e.bank
           c == e.clk
<1>1. n \in Nat /\ b \in Nat /\ c \in Nat /\ delays \in Nat
  BY EntryFields DEF Paid
<1>2. clock = 20 * n + 104 * (b - 1) + c + 32 * delays + 76
  BY <1>1 DEF Paid, Own
<1>3. clock' = clock + 12 /\ bank = b
  BY DEF Ticks, InBank
<1> HIDE DEF n, b, c
<1>4. (20 * n + 104 * (b - 1) + c + 32 * delays + 76) + 12
        - (20 * (n + 1) + 32 * delays + 104 * (b - 1) + 68) = c
  BY <1>1, LateBy
<1>5. clock' - (20 * (n + 1) + 32 * delays + 104 * (bank - 1) + 68) = c
  <2>1. clock' = (20 * n + 104 * (b - 1) + c + 32 * delays + 76) + 12
    BY <1>2, <1>3
  <2> QED  BY <1>1, <1>3, <1>4, <2>1
<1> QED  BY <1>5 DEF n, c

LEMMA TimeOf ==
  ASSUME NEW write \in Timed
  PROVE  write.at \in Nat
BY DEF Timed

LEMMA NextIsTimely ==
  ASSUME NEW writes \in Seq(Timed), NEW e \in Entry, NEW write, DueNow(writes, e, write),
         InBank(e), Paid(writes, e, 76), Ticks(pc + 2, 12),
         written' = Played(writes, e.nth + 1)
  PROVE  Timely(writes)
<1> DEFINE n == Len(written')
           due == Due(writes[n].at)
           own == 20 * n + 32 * delays + 104 * (bank - 1) + 68
           clk == e.clk
<1>1. write \in Timed /\ e.nth \in Nat /\ e.nth + 1 \in Nat /\ e.nth + 1 <= Len(writes)
  BY DueIs
<1>2. n = e.nth + 1
  BY <1>1, PlayedIs
<1>3. due \in Int
  <2>1. writes[n] = write
    BY <1>2, DueIs
  <2>2. write.at \in Nat
    BY <1>1, TimeOf
  <2> QED  BY <2>1, <2>2 DEF Due
<1>4. clk - due \in -32 .. 31 /\ clk \in Nat
  BY <1>2, EntryFields DEF DueNow
<1>5. clock' - own = clk
  BY <1>2, LateIs
<1> HIDE DEF clk, own, due, n
<1>6. clock' - own \in due - 32 .. due + 31
  BY <1>3, <1>4, <1>5
<1> QED  BY <1>6 DEF Timely, own, due, n

\* After the write
WrittenNext(e, e2) == e2.bank = e.bank /\ e2.nth = e.nth + 1 /\ e2.clk = e.clk

LEMMA PlayedNext ==
  ASSUME NEW writes \in Seq(Timed), NEW e \in Entry, NEW write, DueNow(writes, e, write)
  PROVE  Append(Played(writes, e.nth), [reg |-> write.reg, val |-> write.val])
           = Played(writes, e.nth + 1)
BY DueIs, PlayedIs

LEMMA PaidNext ==
  ASSUME NEW writes \in Seq(Timed), NEW e \in Entry, NEW write, DueNow(writes, e, write),
         NEW e2 \in Entry, WrittenNext(e, e2), Paid(writes, e, 76),
         NEW to, Ticks(to, 12), delays' = delays, de' = de,
         written' = Played(writes, e.nth + 1)
  PROVE  Paid(writes, e2, 68)'
<1>1. /\ Own(e) \in Int /\ Own(e2) = Own(e) + 20 /\ delays \in Nat /\ clock \in Nat
      /\ clock = Own(e) + 32 * delays + 76 /\ de \in Nat
  BY OwnOf DEF Paid, WrittenNext
<1>2. clock + 12 \in Nat /\ clock + 12 = Own(e2) + 32 * delays + 68
  BY <1>1
<1>3. e2.nth = e.nth + 1 /\ e2.nth <= Len(writes)
  BY DueIs DEF WrittenNext
<1> QED  BY <1>1, <1>2, <1>3 DEF Paid, Ticks

StoresTo(x, reg) == Read(x) = \hE0 /\ Read(x + 1) = 16 + reg

LEMMA SoundStored ==
  ASSUME Step, OnClock, NEW x \in Nat, pc = x, NEW write \in Timed, StoresTo(x, write.reg),
         a = write.val
  PROVE  /\ Ticks(x + 2, 12) /\ delays' = delays /\ bank' = bank /\ UNCHANGED <<de, sp>>
         /\ KeepsBank
         /\ written' = Append(written, [reg |-> write.reg, val |-> write.val])
<1> DEFINE ofs == 16 + write.reg
<1>1. ofs \in Nat /\ IsSound(ofs) /\ 65280 + ofs \in IoRam
      /\ Sound(ofs, write.val) = [reg |-> write.reg, val |-> write.val]
  BY WriteFields
<1>2. Read(pc) = \hE0 /\ Read(pc + 1) = ofs
  BY DEF StoresTo
<1> HIDE DEF ofs
<1>3. /\ Ticks(pc + 2, 12) /\ delays' = delays /\ bank' = bank /\ UNCHANGED <<de, sp>>
      /\ ram' = With(ram, 65280 + ofs, a)
      /\ written' = Append(written, Sound(ofs, a))
  BY <1>1, <1>2, StoreStep
<1>4. KeepsBank
  BY <1>1, <1>3 DEF KeepsBank
<1> QED  BY <1>1, <1>3, <1>4

LEMMA ValueWritten ==
  ASSUME Step, NEW writes \in Seq(Timed), NEW e \in Entry, InBank(e), NEW x \in Nat, x < 32768,
         NEW write, DueNow(writes, e, write), StoresTo(x + 2, write.reg),
         NEW e2 \in Entry, WrittenNext(e, e2),
         Point(writes, e, x + 2, 4, 76), a = write.val
  PROVE  Timely(writes) /\ InBank(e2)' /\ Point(writes, e2, x + 4, 4, 68)'
<1>1. /\ write \in Timed /\ write = writes[e.nth + 1]
      /\ e.nth \in Nat /\ e.nth + 1 \in Nat /\ Len(writes) \in Nat /\ e.nth < Len(writes)
  BY DueIs
<1>2. x + 2 \in Nat /\ x + 2 <= 65532 /\ x + 2 + 2 = x + 4
  OBVIOUS
<1>3. OnClock /\ pc = x + 2 /\ sp = VgmStack - 4 /\ de \in Nat /\ Paid(writes, e, 76)
  BY <1>2, PointIs
<1>4. /\ Ticks(x + 2 + 2, 12) /\ delays' = delays /\ bank' = bank /\ UNCHANGED <<de, sp>>
      /\ KeepsBank
      /\ written' = Append(written, [reg |-> write.reg, val |-> write.val])
  BY <1>1, <1>2, <1>3, SoundStored
<1>5. written' = Played(writes, e.nth + 1)
  <2>1. Append(Played(writes, e.nth), [reg |-> write.reg, val |-> write.val])
          = Played(writes, e.nth + 1)
    BY PlayedNext
  <2> QED  BY <1>3, <1>4, <2>1 DEF Paid
<1>6. Timely(writes)
  <2>1. Ticks(pc + 2, 12)
    BY <1>3, <1>4
  <2> QED  BY <1>3, <1>5, <2>1, NextIsTimely
<1>7. InBank(e2)'
  <2>1. InBank(e)'
    BY <1>4, InBankKept
  <2> QED  BY <2>1 DEF InBank, WrittenNext
<1>8. Paid(writes, e2, 68)'
  BY <1>3, <1>4, <1>5, PaidNext
<1> QED  BY <1>2, <1>3, <1>4, <1>6, <1>7, <1>8 DEF Point, Ticks

LEMMA WriteUnitIs ==
  ASSUME NEW t \in Translation, NEW writes \in Seq(Timed), NEW at, ClosedAt(at, t, writes),
         NEW p \in DOMAIN at, WriteAt(at, t.code, writes, p)
  PROVE  /\ t.code[p + 1] = \h3E /\ t.code[p + 2] = writes[at[p].nth + 1].val
         /\ t.code[p + 3] = \hE0 /\ t.code[p + 4] = 16 + writes[at[p].nth + 1].reg
         /\ p + 4 \in DOMAIN at /\ at[p + 4] \in Entry
         /\ p + 4 <= Base(at[p].bank + 1) /\ p + 4 <= Len(t.code)
         /\ DueNow(writes, at[p], writes[at[p].nth + 1])
         /\ WrittenNext(at[p], at[p + 4])
<1> DEFINE code == t.code
           e == at[p]
           q == p + 4
           e2 == at[q]
           write == writes[e.nth + 1]
<1>1. p \in Nat /\ p < Len(code) /\ Len(code) \in Nat /\ e \in Entry
  BY ClosedIs
<1>2. /\ code[p + 1] = \h3E /\ code[p + 2] = write.val
      /\ code[p + 3] = \hE0 /\ code[p + 4] = 16 + write.reg
      /\ q \in DOMAIN at /\ DueNow(writes, e, write)
  BY DEF WriteAt, DueNow
<1>3. e2 = [e EXCEPT !.nth = @ + 1]
  BY DEF WriteAt
<1>4. q \in Nat /\ q < Len(code) /\ e2 \in Entry /\ q < Base(e2.bank + 1)
  BY <1>2, ClosedIs
<1>5. WrittenNext(e, e2)
  <2> HIDE DEF e, e2
  <2> QED  BY <1>1, <1>3 DEF Entry, WrittenNext
<1>6. q <= Base(e.bank + 1) /\ q <= Len(code)
  <2>1. Base(e.bank + 1) \in Int
    BY <1>1, BanksAre
  <2> QED  BY <1>1, <1>4, <1>5, <2>1 DEF WrittenNext
<1> QED  BY <1>2, <1>4, <1>5, <1>6

LEMMA WriteUnit ==
  ASSUME Step, trans \in Translation, NEW writes \in Seq(Timed), NEW at,
         NEW code, code = trans.code, ClosedAt(at, trans, writes), NEW p \in DOMAIN at,
         InBank(at[p]), WriteAt(at, code, writes, p),
         BeforeUnit(writes, at[p], p) \/ Writing(writes, at[p], p, code[p + 2])
  PROVE  /\ Timely(writes)
         /\ \E q \in DOMAIN at : InUnit(at, code, writes, q)'
<1> DEFINE e == at[p]
           q == p + 4
           e2 == at[q]
           x == Place(e, p)
           write == writes[e.nth + 1]
           val == code[p + 2]
<1>1. p \in Nat /\ Len(code) \in Nat /\ e \in Entry /\ Base(e.bank) <= p
  BY ClosedIs
<1>2. /\ code[p + 1] = \h3E /\ val = write.val
      /\ code[p + 3] = \hE0 /\ code[p + 4] = 16 + write.reg
      /\ q \in DOMAIN at /\ e2 \in Entry /\ q <= Base(e.bank + 1) /\ q <= Len(code)
      /\ DueNow(writes, e, write) /\ WrittenNext(e, e2)
  BY WriteUnitIs
<1>3. bank = e.bank /\ 4 \in 1 .. 4
  BY DEF InBank
<1>4. x \in Nat /\ x < 32768 /\ Read(x) = \h3E /\ Read(x + 1) = val /\ StoresTo(x + 2, write.reg)
  <2>1. p + 4 <= Base(e.bank + 1) /\ p + 4 <= Len(trans.code) /\ Len(trans.code) \in Nat
    BY <1>1, <1>2
  <2>2. /\ x \in Nat /\ x < 32768 /\ Read(x) = trans.code[p + 1]
        /\ Read(x + 1) = trans.code[p + 2] /\ Read(x + 2) = trans.code[p + 3]
        /\ Read(x + 3) = trans.code[p + 4]
    <3> HIDE DEF e
    <3> QED  BY <1>1, <1>3, <2>1, BytesOfUnit, SMTT(60)
  <2>3. x + 2 + 1 = x + 3
    BY <2>2
  <2>4. StoresTo(x + 2, write.reg)
    <3> HIDE DEF x, write
    <3> QED  BY <1>2, <2>2, <2>3 DEF StoresTo
  <2> QED  BY <1>2, <2>2, <2>4
<1>5. Place(e2, q) = x + 4 /\ q \in Nat
  <2>1. e2.bank = e.bank
    BY <1>2 DEF WrittenNext
  <2>2. 4 \in Nat /\ q \in Nat
    BY <1>1
  <2>3. Place(e2, p + 4) = Place(e, p) + 4
    <3> HIDE DEF e, e2, q, x
    <3> QED  BY <1>1, <1>2, <2>1, <2>2, NextPlace
  <2> QED  BY <2>2, <2>3
<1>6. CASE BeforeUnit(writes, e, p)
  <2>1. /\ Timely(writes) /\ InBank(e)' /\ Point(writes, e, x + 2, 4, 76)' /\ a' = val
    <3>1. InBank(e) /\ Point(writes, e, x, 4, 68)
      BY <1>6 DEF BeforeUnit
    <3> HIDE DEF e, x, val
    <3> QED  BY <1>1, <1>4, <3>1, ValueLoaded
  <2>2. WriteAt(at, code, writes, p)'
    BY DEF WriteAt
  <2>3. Writing(writes, at[p], p, code[p + 2])'
    BY <2>1 DEF Writing
  <2>4. InUnit(at, code, writes, p)'
    BY <2>1, <2>2, <2>3 DEF InUnit
  <2> QED  BY <2>1, <2>4
<1>7. CASE Writing(writes, e, p, val)
  <2>1. Timely(writes) /\ InBank(e2)' /\ Point(writes, e2, x + 4, 4, 68)'
    <3>1. InBank(e) /\ Point(writes, e, x + 2, 4, 76) /\ a = write.val
      BY <1>2, <1>7 DEF Writing
    <3> HIDE DEF e, e2, x, val, write
    <3> QED  BY <1>1, <1>2, <1>4, <3>1, ValueWritten
  <2>2. InUnit(at, code, writes, q)'
    BY <1>5, <2>1 DEF InUnit, BeforeUnit
  <2> QED  BY <1>2, <2>1, <2>2
<1> QED  BY <1>6, <1>7

\* The end of a bank
NextBank(e, e2) == e2.bank = e.bank + 1 /\ e2.nth = e.nth /\ e2.clk = e.clk

LEMMA BankLeft ==
  ASSUME Step, NEW writes \in Seq(Timed), NEW e \in Entry, InBank(e), NEW x \in Nat, x < 32768,
         Read(x) = \hC9, Point(writes, e, x, 4, 68), NEW e2 \in Entry, NextBank(e, e2)
  PROVE  Timely(writes) /\ Looping(writes, e2)'
<1> DEFINE s == VgmStack - 4
           back == 1100
           b == e.bank
<1>1. /\ OnClock /\ OnStack /\ pc = x /\ sp = s /\ de \in Nat /\ s \in Nat /\ sp + 2 <= 65535
      /\ s + 2 = VgmStack - 2
  BY PointIs, VgmSizes DEF OnStack
<1>2. Ticks(Top, 16) /\ Quiet /\ TakesWord /\ de' = de
  BY <1>1, StackStep
<1>3. back \in Nat /\ Holds(ram, s, back) /\ Known(ram, BankAddr, b) /\ Apart(BankAddr, s)
  BY VgmSizes DEF InBank, Apart, BankAddr
<1>4. Top = back
  <2> HIDE DEF s, back
  <2> QED  BY <1>1, <1>3, TopHolds
<1>5. sp' = VgmStack - 2 /\ ram' = Without(ram, {s, s + 1})
  BY <1>1, <1>2 DEF TakesWord
<1>6. Moves(1100, 16, 2)
  BY <1>1, <1>2, <1>4, <1>5 DEF Moves
<1>7. Point(writes, e, 1100, 2, 84)' /\ Timely(writes)
  BY <1>6, PointMoves
<1>8. Known(ram', BankAddr, b)
  <2> HIDE DEF s, b
  <2>1. Known(Without(ram, {s, s + 1}), BankAddr, b)
    BY <1>3, KnownKept
  <2> QED  BY <1>5, <2>1
<1>9. SameTime(e, 84, e2, -20)
  BY OwnOf DEF SameTime, NextBank
<1>10. Point(writes, e2, 1100, 2, -20)'
  <2>1. Paid(writes, e, 84)' /\ pc' = 1100 /\ sp' = VgmStack - 2
    BY <1>7 DEF Point
  <2>2. Paid(writes, e2, -20)'
    BY <1>9, <2>1, PaidKept
  <2> QED  BY <2>1, <2>2 DEF Point
<1>11. b = e2.bank - 1
  BY EntryFields DEF NextBank
<1> QED  BY <1>7, <1>8, <1>10, <1>11 DEF Looping

\* The end of the code, and the trap
LEMMA CodeEnds ==
  ASSUME Step, NEW writes \in Seq(Timed), NEW e \in Entry, NEW x \in Nat, x < 32768,
         Read(x) = \hFF, Point(writes, e, x, 4, 68), e.nth = Len(writes)
  PROVE  Timely(writes) /\ Trapped(writes)'
<1>1. OnClock /\ OnStack /\ pc = x /\ Paid(writes, e, 68)
  BY PointIs
<1>2. Ticks(56, 16) /\ Quiet
  BY <1>1, StackStep
<1>3. Timely(writes)
  BY <1>1, <1>2, PaidIsTimely DEF Quiet
<1>4. clock + 16 \in Nat
  BY <1>1 DEF OnClock
<1> QED  BY <1>1, <1>2, <1>3, <1>4 DEF Trapped, Paid, Ticks, Quiet

LEMMA TrapStep ==
  ASSUME Step, NEW writes \in Seq(Timed), Trapped(writes)
  PROVE  Timely(writes) /\ Trapped(writes)'
<1>1. OnClock /\ pc \in {56, 57, 58} /\ written = Played(writes, Len(writes)) /\ clock \in Nat
  BY DEF Trapped, OnClock
<1>2. Quiet /\ \E to \in {56, 57, 58}, time \in Nat : Ticks(to, time)
  <2>1. CASE pc = 56
    <3>1. Ticks(57, 4) /\ Quiet
      BY <1>1, <2>1, JumpStep, LowerBytes
    <3> QED  BY <3>1
  <2>2. CASE pc = 57
    <3>1. Ticks(58, 4) /\ Quiet
      BY <1>1, <2>2, JumpStep, LowerBytes
    <3> QED  BY <3>1
  <2>3. CASE pc = 58
    <3>1. Ticks(56, 16) /\ Quiet
      BY <1>1, <2>3, JumpStep, LowerBytes
    <3> QED  BY <3>1
  <2> QED  BY <1>1, <2>1, <2>2, <2>3
<1>3. Len(writes) \in Nat /\ Len(written) \in Nat /\ written' = written
  BY <1>1, <1>2, PlayedIs DEF Quiet
<1>4. Timely(writes)
  BY <1>3 DEF Timely
<1> QED  BY <1>1, <1>2, <1>3, <1>4 DEF Trapped, Ticks

LEMMA BankEndUnit ==
  ASSUME Step, trans \in Translation, NEW writes \in Seq(Timed), NEW at,
         NEW code, code = trans.code, ClosedAt(at, trans, writes), NEW p \in DOMAIN at,
         InBank(at[p]), BankEndAt(at, code, p), BeforeUnit(writes, at[p], p)
  PROVE  /\ Timely(writes)
         /\ \E q \in DOMAIN at : q = Base(at[q].bank) /\ Looping(writes, at[q])'
<1> DEFINE e == at[p]
           q == Base(e.bank + 1)
           e2 == at[q]
           x == Place(e, p)
<1>1. /\ p \in Nat /\ p < Len(code) /\ Len(code) \in Nat /\ e \in Entry
      /\ Base(e.bank) <= p /\ p < Base(e.bank + 1)
  BY ClosedIs
<1>2. code[p + 1] = \hC9 /\ q \in DOMAIN at
  BY DEF BankEndAt
<1>3. e2 = [e EXCEPT !.bank = @ + 1]
  BY DEF BankEndAt
<1>4. e2 \in Entry
  BY <1>2, ClosedIs
<1>5. NextBank(e, e2)
  <2> HIDE DEF e, e2
  <2> QED  BY <1>1, <1>3 DEF Entry, NextBank
<1>6. bank = e.bank /\ 1 \in 1 .. 4
  BY DEF InBank
<1>7. x \in Nat /\ x < 32768 /\ Read(x) = \hC9
  <2>1. p + 1 <= Base(e.bank + 1) /\ p + 1 <= Len(trans.code) /\ Len(trans.code) \in Nat
    <3>1. Base(e.bank + 1) \in Int
      BY <1>1, BanksAre
    <3> QED  BY <1>1, <3>1
  <2>2. x \in Nat /\ x < 32768 /\ Read(x) = trans.code[p + 1]
    <3> HIDE DEF e
    <3> QED  BY <1>1, <1>6, <2>1, BytesOfUnit
  <2> QED  BY <1>2, <2>2
<1>8. Timely(writes) /\ Looping(writes, e2)'
  <2>1. InBank(e) /\ Point(writes, e, x, 4, 68)
    BY DEF BeforeUnit
  <2> HIDE DEF e, e2, x
  <2> QED  BY <1>1, <1>4, <1>5, <1>7, <2>1, BankLeft
<1>9. q = Base(e2.bank)
  BY <1>5 DEF NextBank
<1> QED  BY <1>2, <1>8, <1>9

LEMMA EndUnit ==
  ASSUME Step, trans \in Translation, NEW writes \in Seq(Timed), NEW at,
         ClosedAt(at, trans, writes), NEW p \in DOMAIN at, p = Len(trans.code) - 1,
         InBank(at[p]), BeforeUnit(writes, at[p], p)
  PROVE  Timely(writes) /\ Trapped(writes)'
<1> DEFINE e == at[p]
           x == Place(e, p)
<1>1. /\ p \in Nat /\ p < Len(trans.code) /\ Len(trans.code) \in Nat /\ e \in Entry
      /\ Base(e.bank) <= p /\ p < Base(e.bank + 1)
      /\ trans.code[p + 1] = \hFF /\ e.nth = Len(writes)
  BY ClosedIs
<1>2. bank = e.bank /\ 1 \in 1 .. 4
  BY DEF InBank
<1>3. x \in Nat /\ x < 32768 /\ Read(x) = \hFF
  <2>1. p + 1 <= Base(e.bank + 1) /\ p + 1 <= Len(trans.code) /\ Len(trans.code) \in Nat
    <3>1. Base(e.bank + 1) \in Int
      BY <1>1, BanksAre
    <3> QED  BY <1>1, <3>1
  <2>2. x \in Nat /\ x < 32768 /\ Read(x) = trans.code[p + 1]
    <3> HIDE DEF e
    <3> QED  BY <1>1, <1>2, <2>1, BytesOfUnit
  <2> QED  BY <1>1, <2>2
<1>4. Point(writes, e, x, 4, 68)
  BY DEF BeforeUnit
<1> HIDE DEF e, x
<1> QED  BY <1>1, <1>3, <1>4, CodeEnds

-----------------------------------------------------------------------------
(***************************************************************************)
(* Every step of the CPU.                                                  *)
(***************************************************************************)
\* The loop counts the banks of the code.
LEMMA BankCounted ==
  ASSUME trans \in Translation, FitsInBanks, NEW writes, NEW at, ClosedAt(at, trans, writes),
         NEW p \in DOMAIN at
  PROVE  at[p].bank <= 255
<1> DEFINE b == at[p].bank
           most == 255 * BankSize
<1>1. at[p] \in Entry /\ Base(b) <= p /\ p < Len(trans.code) /\ p \in Nat /\ Len(trans.code) \in Nat
  BY ClosedIs
<1>2. Len(trans.code) <= trans.codelen /\ trans.codelen \in Nat /\ trans.codelen <= most
  BY TranslationFields DEF ClosedAt, FitsInBanks
<1>3. b \in Nat \ {0} /\ most \in Nat /\ Base(b) \in Nat
  <2>1. b \in Nat \ {0}
    BY <1>1 DEF Entry
  <2>2. BankSize \in Nat
    BY VgmSizes
  <2>3. most \in Nat
    BY <2>2
  <2> HIDE DEF b
  <2> QED  BY <2>1, <2>3, BaseIs
<1>4. Base(b) < most
  <2> HIDE DEF b, most
  <2> QED  BY <1>1, <1>2, <1>3
<1>5. ASSUME b > 255 PROVE FALSE
  <2>1. b - 1 \in Nat \ {0} /\ (b - 1) + 1 = b
    BY <1>3, <1>5
  <2>2. b - 1 < 255
    <3> HIDE DEF b
    <3> QED  BY <1>4, <2>1, FewBanks
  <2> QED  BY <1>3, <1>5, <2>2
<1> QED  BY <1>3, <1>5

LEMMA MachineStep ==
  ASSUME Step, trans \in Translation, FitsInBanks, NEW writes \in Seq(Timed), NEW at,
         NEW code, code = trans.code, ClosedAt(at, trans, writes), Machine(at, code, writes)
  PROVE  Timely(writes) /\ Machine(at, code, writes)'
<1>1. ASSUME NEW p \in DOMAIN at, p = Base(at[p].bank), Looping(writes, at[p])
      PROVE  Timely(writes) /\ Machine(at, code, writes)'
  <2> DEFINE e == at[p]
  <2>1. e \in Entry /\ e.bank <= 255 /\ p \in Nat
    BY ClosedIs, BankCounted
  <2>2. /\ Timely(writes)
        /\ \/ Looping(writes, e)'
           \/ InBank(e)' /\ Point(writes, e, 16384, 4, 68)'
    <3>1. Looping(writes, e)
      BY <1>1
    <3> HIDE DEF e
    <3> QED  BY <2>1, <3>1, LoopStep
  <2>3. CASE Looping(writes, e)'
    BY <1>1, <2>2, <2>3 DEF Machine
  <2>4. CASE InBank(e)' /\ Point(writes, e, 16384, 4, 68)'
    <3>1. Place(e, p) = 16384
      BY <1>1, <2>1 DEF Place
    <3>2. InUnit(at, code, writes, p)'
      BY <2>4, <3>1 DEF InUnit, BeforeUnit
    <3> QED  BY <1>1, <2>2, <3>2 DEF Machine
  <2> QED  BY <2>2, <2>3, <2>4
<1>2. ASSUME NEW p \in DOMAIN at, InUnit(at, code, writes, p)
      PROVE  Timely(writes) /\ Machine(at, code, writes)'
  <2>1. InBank(at[p])
    BY <1>2 DEF InUnit
  <2>2. p = Len(code) - 1 => code[p + 1] = \hFF
    BY ClosedIs
  <2>3. p # Len(code) - 1 => Unit(at, code, writes, p)
    BY ClosedIs
  <2>4. CASE DelayAt(at, code, p) /\ (BeforeUnit(writes, at[p], p)
               \/ Delayed(writes, at[p], Place(at[p], p), code[p + 2], code[p + 3]))
    <3>1. Timely(writes) /\ \E q \in DOMAIN at : InUnit(at, code, writes, q)'
      BY <1>2, <2>1, <2>4, DelayUnit
    <3> QED  BY <3>1 DEF Machine
  <2>5. CASE WriteAt(at, code, writes, p) /\ (BeforeUnit(writes, at[p], p)
               \/ Writing(writes, at[p], p, code[p + 2]))
    <3>1. Timely(writes) /\ \E q \in DOMAIN at : InUnit(at, code, writes, q)'
      BY <1>2, <2>1, <2>5, WriteUnit
    <3> QED  BY <3>1 DEF Machine
  <2>6. CASE BankEndAt(at, code, p) /\ BeforeUnit(writes, at[p], p)
    <3>1. /\ Timely(writes)
          /\ \E q \in DOMAIN at : q = Base(at[q].bank) /\ Looping(writes, at[q])'
      BY <1>2, <2>1, <2>6, BankEndUnit
    <3> QED  BY <3>1 DEF Machine
  <2>7. CASE p = Len(code) - 1 /\ BeforeUnit(writes, at[p], p)
    <3>1. Timely(writes) /\ Trapped(writes)'
      BY <1>2, <2>1, <2>7, EndUnit
    <3> QED  BY <3>1 DEF Machine
  <2> QED  BY <1>2, <2>3, <2>4, <2>5, <2>6, <2>7 DEF InUnit, Unit
<1>3. CASE Trapped(writes)
  <2>1. Timely(writes) /\ Trapped(writes)'
    BY <1>3, TrapStep
  <2> QED  BY <2>1 DEF Machine
<1> QED  BY <1>1, <1>2, <1>3 DEF Machine

-----------------------------------------------------------------------------
(***************************************************************************)
(* The recording is translated, and its code played.                       *)
(***************************************************************************)
InTranslation ==
  /\ parsed <= Len(song) /\ Translated(trans, SubSeq(song, 1, parsed))
  /\ pc = 0 /\ written = <<>> /\ ~halted
InPlay ==
  /\ parsed = Len(song) + 1 /\ trans \in Translation
  /\ \E at, code, writes :
       /\ code = trans.code /\ writes = ScoreOf(song).writes /\ ClosedAt(at, trans, writes)
       /\ FitsInBanks => Machine(at, code, writes)
VgmInv == song \in Seq(Command) /\ parsed \in Nat /\ (InTranslation \/ InPlay)

LEMMA ParsedNext ==
  ASSUME NEW s \in Seq(Command), NEW n \in Nat, n <= Len(s)
  PROVE  /\ SubSeq(s, 1, n) \in Seq(Command)
         /\ n < Len(s) => SubSeq(s, 1, n + 1) = Append(SubSeq(s, 1, n), s[n + 1])
                          /\ s[n + 1] \in Command
         /\ n = Len(s) => SubSeq(s, 1, n) = s
         /\ SubSeq(s, 1, 0) = <<>>
<1> DEFINE q == SubSeq(s, 1, n)
<1>1. q \in Seq(Command) /\ Len(q) = n /\ \A i \in 1 .. n : q[i] = s[i]
  OBVIOUS
<1>2. SubSeq(s, 1, 0) = <<>>
  OBVIOUS
<1>3. ASSUME n = Len(s) PROVE q = s
  <2> HIDE DEF q
  <2> QED  BY <1>1, <1>3
<1>4. ASSUME n < Len(s) PROVE SubSeq(s, 1, n + 1) = Append(q, s[n + 1]) /\ s[n + 1] \in Command
  <2> DEFINE r == SubSeq(s, 1, n + 1)
  <2>1. r \in Seq(Command) /\ Len(r) = n + 1 /\ \A i \in 1 .. n + 1 : r[i] = s[i]
    BY <1>4
  <2>2. s[n + 1] \in Command
    BY <1>4
  <2> HIDE DEF q, r
  <2> DEFINE x == s[n + 1]
  <2>3. r[n + 1] = x /\ x \in Command
    BY <2>1, <2>2
  <2> HIDE DEF x
  <2>4. /\ Append(q, x) \in Seq(Command) /\ Len(Append(q, x)) = n + 1
        /\ Append(q, x)[n + 1] = x /\ \A i \in 1 .. n : Append(q, x)[i] = q[i]
    BY <1>1, <2>3
  <2>5. \A i \in 1 .. n + 1 : r[i] = Append(q, x)[i]
    BY <1>1, <2>1, <2>3, <2>4
  <2>6. r = Append(q, x)
    <3> DEFINE y == Append(q, x)
    <3>1. y \in Seq(Command) /\ Len(y) = n + 1 /\ \A i \in 1 .. n + 1 : r[i] = y[i]
      BY <2>4, <2>5
    <3> HIDE DEF y
    <3>2. r = y
      BY <2>1, <3>1
    <3> QED  BY <3>2 DEF y
  <2> QED  BY <2>2, <2>6 DEF r, x
<1> QED  BY <1>1, <1>2, <1>3, <1>4

LEMMA PlayedNothing ==
  ASSUME NEW writes
  PROVE  Played(writes, 0) = <<>>
BY DEF Played

LEMMA PlayStarts ==
  ASSUME Play, NEW writes \in Seq(Timed), NEW at, NEW t, NEW code, ClosedAt(at, t, writes)
  PROVE  Machine(at, code, writes)'
<1> DEFINE e == at[0]
<1>1. 0 \in DOMAIN at /\ e = [bank |-> 1, nth |-> 0, clk |-> 0]
  BY DEF ClosedAt, Layout
<1>2. e.bank = 1 /\ e.nth = 0 /\ e.clk = 0
  BY <1>1
<1>3. 0 = Base(e.bank)
  BY <1>2, BaseIs
<1>4. Own(e) = 0
  BY <1>2 DEF Own
<1> HIDE DEF e
<1>5. /\ pc' = 1088 /\ sp' = Word(VgmStack - 2)
      /\ de' = 0 /\ clock' = 0 /\ written' = <<>> /\ delays' = 0
  BY DEF Play, Started, VgmInitAddr
<1>6. sp' = VgmStack - 2
  BY <1>5, VgmSizes DEF Word
<1>7. Len(writes) \in Nat
  OBVIOUS
<1>8. Paid(writes, e, 0)'
  BY <1>2, <1>4, <1>5, <1>7, PlayedNothing DEF Paid
<1>9. Looping(writes, e)'
  BY <1>2, <1>5, <1>6, <1>8 DEF Looping, Point
<1> QED  BY <1>1, <1>3, <1>9 DEF Machine, e

LEMMA ScoreOfSong ==
  ASSUME NEW s \in Seq(Command)
  PROVE  ScoreOf(s).writes \in Seq(Timed) /\ Len(ScoreOf(s).writes) \in Nat
<1>1. CASE s = <<>>
  <2>1. ScoreOf(s) = [writes |-> <<>>, samples |-> 0]
    BY <1>1, ScoreOfNothing
  <2> QED  BY <2>1
<1>2. CASE s # <<>>
  <2>1. \E cmd : cmd \in Command
    BY <1>2
  <2>2. ScoreOf(s) \in Score
    BY <2>1, ScoreIs
  <2> QED  BY <2>2, ScoreFields
<1> QED  BY <1>1, <1>2

LEMMA TranslateKept ==
  ASSUME InTranslation, song \in Seq(Command), parsed \in Nat, Translate
  PROVE  VgmInv' /\ written' = written
<1> DEFINE old == SubSeq(song, 1, parsed)
           cmd == song[parsed + 1]
<1>1. /\ parsed < Len(song) /\ parsed' = parsed + 1 /\ song' = song /\ pc' = 0
      /\ written' = written /\ written' = <<>> /\ ~halted'
      /\ trans' = IF cmd.op = \hB3 THEN OnWrite(trans, cmd)
                  ELSE [trans EXCEPT !.wait = @ + Samples(cmd)]
  BY DEF Translate, InTranslation, cpuVars, machineVars
<1>2. /\ old \in Seq(Command) /\ cmd \in Command
      /\ SubSeq(song, 1, parsed + 1) = Append(old, cmd)
  BY <1>1, ParsedNext
<1>3. Translated(trans, old)
  BY DEF InTranslation
<1> HIDE DEF old, cmd
<1>4. Translated(trans', Append(old, cmd))
  <2>1. CASE cmd.op = \hB3
    <3>1. trans' = OnWrite(trans, cmd)
      BY <1>1, <2>1
    <3> QED  BY <1>2, <1>3, <2>1, <3>1, WriteTranslated
  <2>2. CASE cmd.op # \hB3
    <3>1. trans' = [trans EXCEPT !.wait = @ + Samples(cmd)]
      BY <1>1, <2>2
    <3> QED  BY <1>2, <1>3, <2>2, <3>1, WaitTranslated
  <2> QED  BY <2>1, <2>2
<1>5. Translated(trans', SubSeq(song', 1, parsed'))
  BY <1>1, <1>2, <1>4
<1>6. Len(song) \in Nat /\ parsed' \in Nat /\ parsed' <= Len(song')
  BY <1>1
<1>7. InTranslation'
  BY <1>1, <1>5, <1>6 DEF InTranslation
<1> QED  BY <1>1, <1>6, <1>7 DEF VgmInv

LEMMA EndKept ==
  ASSUME InTranslation, song \in Seq(Command), parsed \in Nat, EndTranslation
  PROVE  VgmInv' /\ written' = written
<1>1. /\ parsed = Len(song) /\ parsed' = parsed + 1 /\ song' = song /\ Play
      /\ trans' = Emit(trans, \hFF, 1) /\ written' = <<>> /\ written = <<>>
  BY DEF EndTranslation, Play, InTranslation
<1>2. SubSeq(song, 1, parsed) = song
  BY <1>1, ParsedNext
<1>3. PICK writes : writes = ScoreOf(song).writes
  OBVIOUS
<1>4. writes \in Seq(Timed) /\ Len(writes) \in Nat
  BY <1>3, ScoreOfSong
<1>5. Opened(trans, writes)
  BY <1>2, <1>3 DEF InTranslation, Translated
<1>6. Closed(trans', writes)
  BY <1>1, <1>4, <1>5, EndTranslated
<1>7. PICK at, code : ClosedAt(at, trans', writes) /\ code = trans'.code
  BY <1>6 DEF Closed
<1>8. Machine(at, code, writes)'
  BY <1>1, <1>4, <1>7, PlayStarts
<1>9. writes = ScoreOf(song').writes /\ trans' \in Translation
  BY <1>1, <1>3, <1>6 DEF Closed
<1>10. InPlay'
  BY <1>1, <1>7, <1>8, <1>9 DEF InPlay
<1>11. parsed' \in Nat
  BY <1>1
<1> QED  BY <1>1, <1>10, <1>11 DEF VgmInv

LEMMA StepKept ==
  ASSUME InPlay, song \in Seq(Command), parsed \in Nat, Step
  PROVE  VgmInv' /\ (FitsInBanks => Timely(ScoreOf(song).writes))
<1>1. PICK at, code, writes :
        /\ code = trans.code /\ writes = ScoreOf(song).writes /\ ClosedAt(at, trans, writes)
        /\ FitsInBanks => Machine(at, code, writes)
  BY DEF InPlay
<1>2. writes \in Seq(Timed) /\ trans \in Translation
  BY <1>1, ScoreOfSong DEF InPlay
<1>3. FitsInBanks => Timely(writes) /\ Machine(at, code, writes)'
  BY <1>1, <1>2, MachineStep
<1>4. song' = song /\ parsed' = parsed /\ trans' = trans
  BY DEF Step
<1>5. FitsInBanks' <=> FitsInBanks
  BY <1>4 DEF FitsInBanks
<1>6. ClosedAt(at, trans', writes)
  BY <1>1, <1>4
<1>7. InPlay'
  BY <1>1, <1>2, <1>3, <1>4, <1>5, <1>6 DEF InPlay
<1> QED  BY <1>1, <1>3, <1>4, <1>7 DEF VgmInv

LEMMA AgainKept ==
  ASSUME InPlay, song \in Seq(Command), parsed \in Nat, Again
  PROVE  VgmInv' /\ written' = <<>>
<1>1. PICK at, code, writes :
        /\ code = trans.code /\ writes = ScoreOf(song).writes /\ ClosedAt(at, trans, writes)
  BY DEF InPlay
<1>2. writes \in Seq(Timed) /\ trans \in Translation /\ parsed = Len(song) + 1
  BY <1>1, ScoreOfSong DEF InPlay
<1>3. song' = song /\ parsed' = parsed /\ trans' = trans /\ Play /\ written' = <<>>
  BY DEF Again, Play
<1>4. Machine(at, code, writes)'
  BY <1>1, <1>2, <1>3, PlayStarts
<1>5. InPlay'
  BY <1>1, <1>2, <1>3, <1>4 DEF InPlay
<1> QED  BY <1>3, <1>5 DEF VgmInv

\* What the machine has done.
Plays(writes, e) == e \in Entry /\ e.nth <= Len(writes) /\ written = Played(writes, e.nth)

LEMMA PointPlays ==
  ASSUME NEW writes, NEW e \in Entry, NEW x, NEW k, NEW t, Point(writes, e, x, k, t)
  PROVE  Plays(writes, e) /\ pc = x
BY DEF Point, Paid, Plays

LEMMA LoopingPlays ==
  ASSUME NEW writes, NEW e \in Entry, Looping(writes, e)
  PROVE  Plays(writes, e) /\ pc # 56
<1>1. \E x, k, t : Point(writes, e, x, k, t) /\ x # 56
  BY DEF Looping
<1> QED  BY <1>1, PointPlays

LEMMA DelayedPlays ==
  ASSUME NEW writes, NEW e \in Entry, NEW x, NEW lo, NEW hi, Delayed(writes, e, x, lo, hi)
  PROVE  Plays(writes, e) /\ pc # 56
<1>1. CASE Reading(writes, e, x, lo, hi)
  <2>1. \E y, k, t : Point(writes, e, y, k, t) /\ y # 56
    BY <1>1 DEF Reading
  <2> QED  BY <2>1, PointPlays
<1>2. ASSUME NEW k, NEW left, Counting(writes, e, k, left)
      PROVE  Plays(writes, e) /\ pc # 56
  <2>1. \E y, m, t : Point(writes, e, y, m, t) /\ y # 56
    BY <1>2 DEF Counting
  <2> QED  BY <2>1, PointPlays
<1> QED  BY <1>1, <1>2 DEF Delayed, Counted

LEMMA MachinePlays ==
  ASSUME NEW writes \in Seq(Timed), NEW at, trans \in Translation, ClosedAt(at, trans, writes),
         NEW code, Machine(at, code, writes)
  PROVE  \E n \in Nat : /\ n <= Len(writes) /\ written = Played(writes, n)
                        /\ pc = 56 => n = Len(writes)
<1>1. ASSUME NEW p \in DOMAIN at
      PROVE  at[p] \in Entry /\ p \in Nat /\ Base(at[p].bank) <= p /\ p < Base(at[p].bank + 1)
  BY ClosedIs
<1>2. ASSUME NEW e, Plays(writes, e), pc # 56
      PROVE  \E n \in Nat : /\ n <= Len(writes) /\ written = Played(writes, n)
                            /\ pc = 56 => n = Len(writes)
  BY <1>2, EntryFields DEF Plays
<1>3. ASSUME NEW p \in DOMAIN at, Looping(writes, at[p])
      PROVE  Plays(writes, at[p]) /\ pc # 56
  BY <1>1, <1>3, LoopingPlays
<1>4. ASSUME NEW p \in DOMAIN at, InUnit(at, code, writes, p)
      PROVE  Plays(writes, at[p]) /\ pc # 56
  <2> DEFINE e == at[p]
             x == Place(e, p)
  <2>1. e \in Entry /\ x \in Nat /\ 16384 <= x
    BY <1>1, PlaceIs
  <2>2. CASE BeforeUnit(writes, e, p)
    <3>1. Point(writes, e, x, 4, 68)
      BY <2>2 DEF BeforeUnit
    <3> HIDE DEF e, x
    <3>2. Plays(writes, e) /\ pc = x
      BY <2>1, <3>1, PointPlays
    <3> QED  BY <2>1, <3>2 DEF e
  <2>3. CASE Writing(writes, e, p, code[p + 2])
    <3>1. Point(writes, e, x + 2, 4, 76)
      BY <2>3 DEF Writing
    <3> HIDE DEF e, x
    <3>2. Plays(writes, e) /\ pc = x + 2
      BY <2>1, <3>1, PointPlays
    <3> QED  BY <2>1, <3>2 DEF e
  <2>4. CASE Delayed(writes, e, x, code[p + 2], code[p + 3])
    <3> HIDE DEF e, x
    <3> QED  BY <2>1, <2>4, DelayedPlays DEF e
  <2> QED  BY <1>4, <2>2, <2>3, <2>4 DEF InUnit
<1>5. CASE Trapped(writes)
  BY <1>5 DEF Trapped
<1> QED  BY <1>2, <1>3, <1>4, <1>5 DEF Machine

LEMMA PlayedInOrder ==
  ASSUME NEW writes \in Seq(Timed), NEW n \in Nat, n <= Len(writes), NEW done,
         done = Played(writes, n)
  PROVE  /\ Len(done) = n
         /\ \A i \in DOMAIN done : done[i] = [reg |-> writes[i].reg, val |-> writes[i].val]
<1>1. Len(done) = n
  BY PlayedIs
<1>2. \A i \in DOMAIN done : done[i] = [reg |-> writes[i].reg, val |-> writes[i].val]
  BY DEF Played
<1> QED  BY <1>1, <1>2

\* Nothing that the invariant is about changes.
LEMMA PointSame ==
  ASSUME UNCHANGED vgmVars, NEW writes, NEW e, NEW x, NEW k, NEW t, Point(writes, e, x, k, t)
  PROVE  Point(writes, e, x, k, t)'
BY DEF vgmVars, cpuVars, machineVars, data, Point, Paid

LEMMA MachineSame ==
  ASSUME UNCHANGED vgmVars, NEW at, NEW code, NEW writes, Machine(at, code, writes)
  PROVE  Machine(at, code, writes)'
<1>1. /\ a' = a /\ f' = f /\ de' = de /\ hl' = hl /\ ram' = ram /\ bank' = bank
      /\ pc' = pc /\ written' = written /\ clock' = clock
  BY DEF vgmVars, cpuVars, machineVars, data
<1>2. \A e, x, k, t : Point(writes, e, x, k, t) => Point(writes, e, x, k, t)'
  BY PointSame
<1>3. \A e : Looping(writes, e) => Looping(writes, e)'
  BY <1>1, <1>2 DEF Looping
<1>4. \A e, x, lo, hi : Reading(writes, e, x, lo, hi) => Reading(writes, e, x, lo, hi)'
  BY <1>1, <1>2 DEF Reading
<1>5. \A e, k, left : Counting(writes, e, k, left) => Counting(writes, e, k, left)'
  BY <1>1, <1>2 DEF Counting
<1>6. \A e, x, lo, hi : Delayed(writes, e, x, lo, hi) => Delayed(writes, e, x, lo, hi)'
  BY <1>1, <1>4, <1>5 DEF Delayed, Counted
<1>7. ASSUME NEW p, InUnit(at, code, writes, p)
      PROVE  InUnit(at, code, writes, p)'
  <2>1. InBank(at[p])'
    BY <1>1, <1>7 DEF InUnit, InBank
  <2>2. BeforeUnit(writes, at[p], p) => BeforeUnit(writes, at[p], p)'
    BY <1>2 DEF BeforeUnit
  <2>3. \A val : Writing(writes, at[p], p, val) => Writing(writes, at[p], p, val)'
    BY <1>1, <1>2 DEF Writing
  <2>4. WriteAt(at, code, writes, p) => WriteAt(at, code, writes, p)'
    BY DEF WriteAt
  <2>5. DelayAt(at, code, p) => DelayAt(at, code, p)'
    BY DEF DelayAt
  <2> QED  BY <1>6, <1>7, <2>1, <2>2, <2>3, <2>4, <2>5 DEF InUnit
<1>8. Trapped(writes) => Trapped(writes)'
  BY <1>1 DEF Trapped
<1> QED  BY <1>3, <1>7, <1>8 DEF Machine

LEMMA VgmSame ==
  ASSUME VgmInv, UNCHANGED vgmVars
  PROVE  VgmInv' /\ written' = written
<1>1. /\ song' = song /\ parsed' = parsed /\ trans' = trans /\ pc' = pc /\ written' = written
      /\ halted' = halted
  BY DEF vgmVars, cpuVars, machineVars
<1>2. InTranslation => InTranslation'
  BY <1>1 DEF InTranslation
<1>3. InPlay => InPlay'
  <2> SUFFICES ASSUME InPlay PROVE InPlay'
    OBVIOUS
  <2>1. PICK at, code, writes :
          /\ code = trans.code /\ writes = ScoreOf(song).writes /\ ClosedAt(at, trans, writes)
          /\ FitsInBanks => Machine(at, code, writes)
    BY DEF InPlay
  <2>2. FitsInBanks' => Machine(at, code, writes)'
    BY <1>1, <2>1, MachineSame DEF FitsInBanks
  <2>3. ClosedAt(at, trans', writes) /\ writes = ScoreOf(song').writes /\ code = trans'.code
    BY <1>1, <2>1
  <2> QED  BY <1>1, <2>2, <2>3 DEF InPlay
<1> QED  BY <1>1, <1>2, <1>3 DEF VgmInv

LEMMA VgmStarts ==
  ASSUME VgmInit
  PROVE  VgmInv
<1>1. /\ song \in Recordings /\ parsed = 0
      /\ trans = [code |-> <<>>, codelen |-> BankSize, wait |-> 0, clocks |-> 0]
      /\ pc = 0 /\ written = <<>> /\ halted = FALSE
  BY DEF VgmInit
<1>2. song \in Seq(Command) /\ parsed \in Nat /\ Len(song) \in Nat
  BY <1>1, VgmAssumption
<1>3. Translated(trans, <<>>)
  BY <1>1, NothingTranslated
<1>4. SubSeq(song, 1, 0) = <<>>
  BY <1>2, ParsedNext
<1>5. parsed <= Len(song) /\ pc = 0 /\ written = <<>> /\ ~halted
  BY <1>1, <1>2
<1>6. Translated(trans, SubSeq(song, 1, parsed))
  BY <1>1, <1>3, <1>4
<1>7. InTranslation
  BY <1>5, <1>6 DEF InTranslation
<1> QED  BY <1>2, <1>7 DEF VgmInv

\* A step keeps the invariant, and a write comes when it is due.
LEMMA VgmStep ==
  ASSUME VgmInv, [VgmNext]_vgmVars
  PROVE  /\ VgmInv'
         /\ \/ written' \in {written, <<>>}
            \/ FitsInBanks => Timely(ScoreOf(song).writes)
<1>1. song \in Seq(Command) /\ parsed \in Nat /\ Len(song) \in Nat /\ (InTranslation \/ InPlay)
  BY DEF VgmInv
<1>2. InTranslation => parsed <= Len(song) /\ ~halted
  BY DEF InTranslation
<1>3. InPlay => parsed = Len(song) + 1
  BY DEF InPlay
<1>4. CASE Translate
  <2>1. InTranslation
    BY <1>1, <1>3, <1>4 DEF Translate
  <2> QED  BY <1>1, <1>4, <2>1, TranslateKept
<1>5. CASE EndTranslation
  <2>1. InTranslation
    BY <1>1, <1>3, <1>5 DEF EndTranslation
  <2> QED  BY <1>1, <1>5, <2>1, EndKept
<1>6. CASE Step
  <2>1. InPlay
    BY <1>1, <1>2, <1>6 DEF Step
  <2> QED  BY <1>1, <1>6, <2>1, StepKept
<1>7. CASE Again
  <2>1. InPlay
    BY <1>1, <1>2, <1>7 DEF Again
  <2> QED  BY <1>1, <1>7, <2>1, AgainKept
<1>8. CASE UNCHANGED vgmVars
  BY <1>8, VgmSame
<1> QED  BY <1>4, <1>5, <1>6, <1>7, <1>8 DEF VgmNext

\* The writes so far, when the code fits in the banks.
LEMMA WritesSoFar ==
  ASSUME VgmInv, FitsInBanks
  PROVE  \E n \in Nat : /\ n <= Len(ScoreOf(song).writes)
                        /\ written = Played(ScoreOf(song).writes, n)
                        /\ pc = 56 => n = Len(ScoreOf(song).writes)
<1>1. song \in Seq(Command) /\ (InTranslation \/ InPlay)
  BY DEF VgmInv
<1>2. CASE InTranslation
  <2>1. Len(ScoreOf(song).writes) \in Nat
    BY <1>1, ScoreOfSong
  <2> QED  BY <1>2, <2>1, PlayedNothing DEF InTranslation
<1>3. CASE InPlay
  <2>1. PICK at, code, writes :
          /\ writes = ScoreOf(song).writes /\ ClosedAt(at, trans, writes)
          /\ Machine(at, code, writes)
    BY <1>3 DEF InPlay
  <2>2. writes \in Seq(Timed) /\ trans \in Translation
    BY <1>1, <1>3, <2>1, ScoreOfSong DEF InPlay
  <2> QED  BY <2>1, <2>2, MachinePlays
<1> QED  BY <1>1, <1>2, <1>3

\* gbs.c:994-1144 (vgm_open) and the code that it makes: the CPU does the writes of a
\* recording of any length, all of them and in their order, in banks of any size.
THEOREM VgmPlaysInOrder == VgmSpec => []WritesInOrder
<1>1. VgmInit => VgmInv
  BY VgmStarts
<1>2. VgmInv /\ [VgmNext]_vgmVars => VgmInv'
  BY VgmStep
<1>3. VgmInv => WritesInOrder
  <2> SUFFICES ASSUME VgmInv, FitsInBanks PROVE WritesInOrder
    BY DEF WritesInOrder
  <2> DEFINE writes == ScoreOf(song).writes
  <2>1. PICK n \in Nat : /\ n <= Len(writes) /\ written = Played(writes, n)
                         /\ pc = 56 => n = Len(writes)
    BY WritesSoFar
  <2>2. writes \in Seq(Timed)
    BY ScoreOfSong DEF VgmInv
  <2>3. /\ Len(written) = n
        /\ \A i \in DOMAIN written :
             written[i] = [reg |-> writes[i].reg, val |-> writes[i].val]
    <3> HIDE DEF writes
    <3> QED  BY <2>1, <2>2, PlayedInOrder
  <2> HIDE DEF writes
  <2>4. /\ Len(written) <= Len(writes)
        /\ pc = 56 => Len(written) = Len(writes)
    BY <2>1, <2>3
  <2> QED  BY <2>3, <2>4 DEF WritesInOrder, Trap, writes
<1> QED  BY <1>1, <1>2, <1>3, PTL DEF VgmSpec

\* gbs.c:994-1144 (vgm_open) and the code that it makes: however many banks and delays it
\* takes, every write comes within 32 cycles of its time.
THEOREM VgmPlaysOnTime == VgmSpec => WritesOnTime
<1>1. VgmInit => VgmInv
  BY VgmStarts
<1>2. VgmInv /\ [VgmNext]_vgmVars => VgmInv'
  BY VgmStep
<1> DEFINE OnTime ==
      Len(written') > Len(written) /\ FitsInBanks =>
        LET due == (ScoreOf(song).writes[Len(written')].at * 41943) \div 441
            own == 20 * Len(written') + 32 * delays + 104 * (bank - 1) + 68
        IN  clock' - own \in due - 32 .. due + 31
<1>3. VgmInv /\ [VgmNext]_vgmVars => OnTime
  <2> SUFFICES ASSUME VgmInv, [VgmNext]_vgmVars, Len(written') > Len(written), FitsInBanks
               PROVE  Timely(ScoreOf(song).writes)
    BY DEF Timely, Due
  <2>1. Len(written) \in Nat
    <3>1. PICK n \in Nat : /\ n <= Len(ScoreOf(song).writes)
                           /\ written = Played(ScoreOf(song).writes, n)
      BY WritesSoFar
    <3>2. ScoreOf(song).writes \in Seq(Timed)
      BY ScoreOfSong DEF VgmInv
    <3> QED  BY <3>1, <3>2, PlayedIs
  <2>2. written' \notin {written, <<>>}
    BY <2>1
  <2> QED  BY <2>2, VgmStep
<1>4. VgmInv /\ [VgmNext]_vgmVars => [OnTime]_vgmVars
  BY <1>3
<1> QED  BY <1>1, <1>2, <1>4, PTL DEF VgmSpec, WritesOnTime

-----------------------------------------------------------------------------
(***************************************************************************)
(* Arithmetic.                                                             *)
(***************************************************************************)
LEMMA ByteBounds ==
  ASSUME NEW x
  PROVE  x \in Byte <=> x \in Nat /\ x < 256
BY DEF Byte

LEMMA CarryIs ==
  ASSUME NEW flags
  PROVE  /\ Carry(flags) \in {0, 1} /\ Carry(flags) \in Nat /\ Carry(flags) <= 1
         /\ "C" \in flags => Carry(flags) = 1
         /\ "C" \notin flags => Carry(flags) = 0
BY DEF Carry

LEMMA AddIsSum ==
  ASSUME NEW x \in Byte, NEW y \in Byte
  PROVE  ExactSum(AddOf(x, y), x, y, 0)
<1> DEFINE new == (x + y) % 256
           r == AddOf(x, y)
<1>1. x \in Nat /\ x < 256 /\ y \in Nat /\ y < 256
  BY ByteBounds
<1>2. /\ r.val = new
      /\ ("C" \in r.flags <=> x > new) /\ ("H" \in r.flags <=> x % 16 > new % 16)
      /\ ("Z" \in r.flags <=> new = 0)
  BY DEF AddOf, To, Zero, Flag
<1>3. new + 256 * (IF x > new THEN 1 ELSE 0) = x + y
  BY <1>1
<1>4. x % 16 > new % 16 <=> (x % 16) + (y % 16) >= 16
  BY <1>1
<1>5. Carry(r.flags) = IF x > new THEN 1 ELSE 0
  BY <1>2 DEF Carry
<1> HIDE DEF new, r
<1>6. r.val + 256 * Carry(r.flags) = x + y + 0
  BY <1>1, <1>2, <1>3, <1>5
<1>7. (x % 16) + (y % 16) + 0 = (x % 16) + (y % 16)
  BY <1>1
<1> QED  BY <1>2, <1>4, <1>6, <1>7 DEF ExactSum, r

LEMMA AdcIsSum ==
  ASSUME NEW x \in Byte, NEW y \in Byte, NEW flags
  PROVE  ExactSum(AdcOf(x, y, flags), x, y, Carry(flags))
<1> DEFINE c == Carry(flags)
           new == x + y + c
           r == AdcOf(x, y, flags)
<1>1. x \in Nat /\ x < 256 /\ y \in Nat /\ y < 256
  BY ByteBounds
<1>2. c \in Nat /\ c <= 1
  BY CarryIs
<1>3. /\ r.val = new % 256
      /\ ("C" \in r.flags <=> new > 255) /\ ("H" \in r.flags <=> (x % 16) + (y % 16) + c > 15)
      /\ ("Z" \in r.flags <=> new % 256 = 0)
  BY DEF AdcOf, To, Zero, Flag
<1>4. Carry(r.flags) = IF new > 255 THEN 1 ELSE 0
  BY <1>3 DEF Carry
<1> HIDE DEF c, r
<1>5. (new % 256) + 256 * (IF new > 255 THEN 1 ELSE 0) = new
  BY <1>1, <1>2
<1>6. (x % 16) + (y % 16) + c > 15 <=> (x % 16) + (y % 16) + c >= 16
  BY <1>1, <1>2
<1> HIDE DEF new
<1>7. r.val + 256 * Carry(r.flags) = new
  BY <1>3, <1>4, <1>5
<1> QED  BY <1>3, <1>6, <1>7 DEF ExactSum, new, c, r

LEMMA SubIsDifference ==
  ASSUME NEW x \in Byte, NEW y \in Byte
  PROVE  ExactDifference(SubOf(x, y), x, y, 0) /\ Compares(SubOf(x, y).flags, x, y)
<1> DEFINE new == (x - y) % 256
           r == SubOf(x, y)
<1>1. x \in Nat /\ x < 256 /\ y \in Nat /\ y < 256
  BY ByteBounds
<1>2. /\ r.val = new
      /\ ("C" \in r.flags <=> x < new) /\ ("H" \in r.flags <=> x % 16 < new % 16)
      /\ ("Z" \in r.flags <=> new = 0)
  BY DEF SubOf, To, Zero, Flag
<1>3. new - 256 * (IF x < new THEN 1 ELSE 0) = x - y
  BY <1>1
<1>4. x % 16 < new % 16 <=> x % 16 < y % 16
  BY <1>1
<1>5. (x < new <=> x < y) /\ (new = 0 <=> x = y) /\ (x < y <=> ~ (x >= y))
  BY <1>1
<1>6. Carry(r.flags) = IF x < new THEN 1 ELSE 0
  BY <1>2 DEF Carry
<1> HIDE DEF new, r
<1>7. r.val - 256 * Carry(r.flags) = x - y - 0
  BY <1>1, <1>2, <1>3, <1>6
<1>8. (y % 16) + 0 = y % 16
  BY <1>1
<1>9. ExactDifference(r, x, y, 0)
  BY <1>2, <1>4, <1>7, <1>8 DEF ExactDifference
<1>10. Compares(r.flags, x, y)
  BY <1>2, <1>5 DEF Compares, Taken
<1> QED  BY <1>9, <1>10 DEF r

LEMMA SbcIsDifference ==
  ASSUME NEW x \in Byte, NEW y \in Byte, NEW flags
  PROVE  ExactDifference(SbcOf(x, y, flags), x, y, Carry(flags))
<1> DEFINE c == Carry(flags)
           new == x + 256 - y - c
           r == SbcOf(x, y, flags)
<1>1. x \in Nat /\ x < 256 /\ y \in Nat /\ y < 256
  BY ByteBounds
<1>2. c \in Nat /\ c <= 1
  BY CarryIs
<1>3. /\ r.val = new % 256
      /\ ("C" \in r.flags <=> new < 256) /\ ("H" \in r.flags <=> (x % 16) - (y % 16) - c < 0)
      /\ ("Z" \in r.flags <=> new % 256 = 0)
  BY DEF SbcOf, To, Zero, Flag
<1>4. Carry(r.flags) = IF new < 256 THEN 1 ELSE 0
  BY <1>3 DEF Carry
<1> HIDE DEF c, r
<1>5. (new % 256) - 256 * (IF new < 256 THEN 1 ELSE 0) = x - y - c
  BY <1>1, <1>2
<1>6. (x % 16) - (y % 16) - c < 0 <=> x % 16 < (y % 16) + c
  BY <1>1, <1>2
<1> HIDE DEF new
<1>7. r.val - 256 * Carry(r.flags) = x - y - c
  BY <1>3, <1>4, <1>5
<1> QED  BY <1>3, <1>6, <1>7 DEF ExactDifference, c, r

LEMMA WordsAddUp ==
  ASSUME NEW x \in Byte, NEW y \in Byte, NEW flags
  PROVE  LET s == 256 * y + x
             res == AddSpOf(s, y)
             h == AddHlOf(256 * x + y, s, flags)
         IN  /\ "C" \in res.flags <=> x + y >= 256
             /\ "H" \in res.flags <=> (x % 16) + (y % 16) >= 16
             /\ h.val + 65536 * Carry(h.flags) = 256 * x + y + s
             /\ "H" \in h.flags <=> ((256 * x + y) % 4096) + (s % 4096) >= 4096
<1> DEFINE s == 256 * y + x
           u == 256 * x + y
           imm == IF y > 127 THEN y - 256 ELSE y
           low == (s + imm) % 65536
           new == (u + s) % 65536
           res == AddSpOf(s, y)
           h == AddHlOf(u, s, flags)
<1>1. x \in Nat /\ x < 256 /\ y \in Nat /\ y < 256
  BY ByteBounds
<1>2. ("C" \in res.flags <=> s % 256 > low % 256) /\ ("H" \in res.flags <=> s % 16 > low % 16)
  BY DEF AddSpOf, To, Flag
<1>3. /\ h.val = new /\ ("C" \in h.flags <=> u > new)
      /\ ("H" \in h.flags <=> u % 4096 > new % 4096)
  BY DEF AddHlOf, To, Flag
<1>4. Carry(h.flags) = IF u > new THEN 1 ELSE 0
  BY <1>3 DEF Carry
<1> HIDE DEF res, h
<1>5. s % 256 > low % 256 <=> x + y >= 256
  BY <1>1
<1>6. s % 16 > low % 16 <=> (x % 16) + (y % 16) >= 16
  BY <1>1
<1>7. s \in Nat /\ s < 65536 /\ u \in Nat /\ u < 65536
  BY <1>1
<1> HIDE DEF s, u
<1>8. new + 65536 * (IF u > new THEN 1 ELSE 0) = u + s
  BY <1>7
<1>9. u % 4096 > new % 4096 <=> (u % 4096) + (s % 4096) >= 4096
  BY <1>7
<1> HIDE DEF new
<1>10. h.val + 65536 * Carry(h.flags) = u + s
  BY <1>3, <1>4, <1>8
<1> QED  BY <1>2, <1>3, <1>5, <1>6, <1>9, <1>10 DEF s, u, res, h

\* Two digits
Digits(i, j) == 16 * i + j
LEMMA DigitsAre ==
  ASSUME NEW i \in Nat, i <= 9, NEW j \in Nat, j <= 9
  PROVE  Digits(i, j) \in Bcd /\ Decimal(Digits(i, j)) = 10 * i + j
<1>1. i \in 0 .. 9 /\ j \in 0 .. 9
  OBVIOUS
<1>2. (16 * i + j) \div 16 = i /\ (16 * i + j) % 16 = j
  OBVIOUS
<1> QED  BY <1>1, <1>2 DEF Digits, Bcd, Decimal

LEMMA BcdIs ==
  ASSUME NEW x \in Bcd
  PROVE  \E i, j \in Nat : i <= 9 /\ j <= 9 /\ x = Digits(i, j)
<1>1. PICK i \in 0 .. 9, j \in 0 .. 9 : x = 16 * i + j
  BY DEF Bcd
<1>2. i \in Nat /\ i <= 9 /\ j \in Nat /\ j <= 9
  OBVIOUS
<1> QED  BY <1>1, <1>2 DEF Digits

\* DAA, with the flags of a sum and of a difference
LEMMA DaaIs ==
  ASSUME NEW v, NEW flags
  PROVE  LET r == DaaOf(v, flags)
             up == IF "H" \in flags \/ v % 16 > 9 THEN v + 6 ELSE v
             sum == IF "C" \in flags \/ up > 159 THEN up + 96 ELSE up
             down == IF "H" \in flags THEN (v - 6) % 256 ELSE v
             dif == IF "C" \in flags THEN down - 96 ELSE down
         IN  /\ "N" \notin flags => /\ r.val = sum % 256
                                    /\ "C" \in r.flags <=> "C" \in flags \/ sum > 255
             /\ "N" \in flags => /\ r.val = dif % 256
                                 /\ "C" \in r.flags <=> "C" \in flags \/ dif > 255
BY DEF DaaOf, To, Flag, Zero

LEMMA SumOfDigits ==
  ASSUME NEW i \in Nat, i <= 9, NEW j \in Nat, j <= 9, NEW k \in Nat, k <= 9,
         NEW l \in Nat, l <= 9, NEW c \in Nat, c <= 1
  PROVE  LET new == 16 * i + j + (16 * k + l) + c
             d == j + l + c
             t == IF d > 9 THEN i + k + 1 ELSE i + k
             v == new % 256
             up == IF d > 15 \/ v % 16 > 9 THEN v + 6 ELSE v
             sum == IF new > 255 \/ up > 159 THEN up + 96 ELSE up
         IN  /\ sum % 256 = 16 * (IF t > 9 THEN t - 10 ELSE t) + (IF d > 9 THEN d - 10 ELSE d)
             /\ (new > 255 \/ sum > 255) <=> t > 9
<1> DEFINE d == j + l + c
           e == IF d > 9 THEN d - 10 ELSE d
           t == IF d > 9 THEN i + k + 1 ELSE i + k
           new == 16 * i + j + (16 * k + l) + c
           v == new % 256
           up == IF d > 15 \/ v % 16 > 9 THEN v + 6 ELSE v
           sum == IF new > 255 \/ up > 159 THEN up + 96 ELSE up
<1>1. d \in Nat /\ d <= 19 /\ e \in Nat /\ e <= 9 /\ t \in Nat /\ t <= 19
  OBVIOUS
<1>2. new = 16 * (i + k) + d /\ i + k \in Nat /\ i + k <= 18
  OBVIOUS
<1>3. v % 16 > 9 <=> d > 9 /\ d <= 15
  <2>1. v % 16 = new % 16
    BY <1>2, <1>1
  <2>2. new % 16 = IF d > 15 THEN d - 16 ELSE d
    BY <1>1, <1>2
  <2> QED  BY <1>1, <2>1, <2>2
<1>4. up = 16 * t + e - (IF new > 255 THEN 256 ELSE 0)
  <2>1. v = IF new > 255 THEN new - 256 ELSE new
    BY <1>1, <1>2
  <2> HIDE DEF v, new
  <2> QED  BY <1>1, <1>2, <1>3, <2>1
<1>5. new > 255 => t > 9
  BY <1>1, <1>2
<1>6. new > 255 => 16 * t + e >= 256
  BY <1>1, <1>2
<1> HIDE DEF d, e, t, new, v, up
<1>7. (new > 255 \/ up > 159) <=> t > 9
  BY <1>1, <1>4, <1>5, <1>6
<1>8. sum = IF t > 9 THEN up + 96 ELSE up
  BY <1>7
<1> HIDE DEF sum
<1>9. (new > 255 \/ sum > 255) <=> t > 9
  BY <1>1, <1>4, <1>5, <1>8
<1>10. sum % 256 = 16 * (IF t > 9 THEN t - 10 ELSE t) + e
  <2>1. CASE t > 9
    <3>1. 16 * t + e - 160 \in Nat /\ 16 * t + e - 160 < 256
      BY <1>1, <2>1
    <3>2. sum = 16 * t + e - 160 \/ sum = 16 * t + e - 160 + 256
      BY <1>1, <1>4, <1>8, <2>1
    <3>3. sum % 256 = 16 * t + e - 160
      BY <3>1, <3>2
    <3> QED  BY <1>1, <2>1, <3>3
  <2>2. CASE ~ (t > 9)
    <3>1. sum = 16 * t + e
      BY <1>1, <1>4, <1>5, <1>8, <2>2
    <3>2. sum \in Nat /\ sum < 256
      BY <1>1, <2>2, <3>1
    <3> QED  BY <2>2, <3>1, <3>2
  <2> QED  BY <2>1, <2>2
<1> QED  BY <1>9, <1>10 DEF d, e, t, new, v, up, sum

LEMMA DifferenceOfDigits ==
  ASSUME NEW i \in Nat, i <= 9, NEW j \in Nat, j <= 9, NEW k \in Nat, k <= 9,
         NEW l \in Nat, l <= 9, NEW c \in Nat, c <= 1
  PROVE  LET new == 16 * i + j + 256 - (16 * k + l) - c
             d == j - l - c
             t == IF d < 0 THEN i - k - 1 ELSE i - k
             v == new % 256
             down == IF d < 0 THEN (v - 6) % 256 ELSE v
             dif == IF new < 256 THEN down - 96 ELSE down
         IN  /\ dif % 256 = 16 * (IF t < 0 THEN t + 10 ELSE t) + (IF d < 0 THEN d + 10 ELSE d)
             /\ (new < 256 \/ dif > 255) <=> t < 0
<1> DEFINE d == j - l - c
           e == IF d < 0 THEN d + 10 ELSE d
           t == IF d < 0 THEN i - k - 1 ELSE i - k
           new == 16 * i + j + 256 - (16 * k + l) - c
           v == new % 256
           down == IF d < 0 THEN (v - 6) % 256 ELSE v
           dif == IF new < 256 THEN down - 96 ELSE down
           low == 16 * t + e
<1>1. /\ d \in Int /\ d >= -10 /\ d <= 9 /\ e \in Nat /\ e <= 9
      /\ t \in Int /\ t >= -10 /\ t <= 9
  OBVIOUS
<1>2. new = 256 + low + (IF d < 0 THEN 6 ELSE 0)
  OBVIOUS
<1> HIDE DEF d, e, t, new
<1>3. new < 256 <=> t < 0
  BY <1>1, <1>2
<1>4. v = IF t < 0 THEN new ELSE new - 256
  BY <1>1, <1>2, <1>3
<1> HIDE DEF v
<1>5. down = IF t < 0 THEN low + 256 ELSE low
  <2>1. CASE t < 0
    <3>1. low + 256 \in Nat /\ low + 256 < 256
      BY <1>1, <2>1
    <3> QED  BY <1>1, <1>2, <1>4, <2>1, <3>1
  <2>2. CASE ~ (t < 0)
    <3>1. low \in Nat /\ low < 256
      BY <1>1, <2>2
    <3> QED  BY <1>1, <1>2, <1>4, <2>2, <3>1
  <2> QED  BY <2>1, <2>2
<1> HIDE DEF down
<1>6. dif = IF t < 0 THEN low + 160 ELSE low
  BY <1>1, <1>3, <1>5
<1> HIDE DEF dif
<1>7. dif \in Nat /\ dif <= 255
  BY <1>1, <1>6
<1>8. (new < 256 \/ dif > 255) <=> t < 0
  BY <1>3, <1>7
<1>9. dif % 256 = 16 * (IF t < 0 THEN t + 10 ELSE t) + e
  BY <1>1, <1>6, <1>7
<1> QED  BY <1>8, <1>9 DEF d, e, t, new, v, down, dif

LEMMA BcdAdds ==
  ASSUME NEW x \in Bcd, NEW y \in Bcd, NEW flags
  PROVE  LET sum == Adjusted(AdcOf(x, y, flags))
         IN  /\ sum.val \in Bcd
             /\ Decimal(sum.val) + 100 * Carry(sum.flags)
                  = Decimal(x) + Decimal(y) + Carry(flags)
<1>1. PICK i, j \in Nat : i <= 9 /\ j <= 9 /\ x = Digits(i, j)
  BY BcdIs
<1>2. PICK k, l \in Nat : k <= 9 /\ l <= 9 /\ y = Digits(k, l)
  BY BcdIs
<1> DEFINE c == Carry(flags)
           new == 16 * i + j + (16 * k + l) + c
           d == j + l + c
           t == IF d > 9 THEN i + k + 1 ELSE i + k
           v == new % 256
           up == IF d > 15 \/ v % 16 > 9 THEN v + 6 ELSE v
           sum == IF new > 255 \/ up > 159 THEN up + 96 ELSE up
           added == AdcOf(x, y, flags)
           r == Adjusted(added)
           hi == IF t > 9 THEN t - 10 ELSE t
           lo == IF d > 9 THEN d - 10 ELSE d
<1>3. c \in Nat /\ c <= 1
  BY CarryIs
<1>4. /\ x % 16 = j /\ y % 16 = l /\ x + y + c = new
      /\ Decimal(x) = 10 * i + j /\ Decimal(y) = 10 * k + l
  <2>1. Decimal(x) = 10 * i + j /\ Decimal(y) = 10 * k + l
    BY <1>1, <1>2, DigitsAre
  <2>2. x % 16 = j /\ y % 16 = l /\ x + y + c = new
    BY <1>1, <1>2, <1>3 DEF Digits
  <2> QED  BY <2>1, <2>2
<1>5. /\ added.val = v /\ ("C" \in added.flags <=> new > 255)
      /\ ("H" \in added.flags <=> d > 15) /\ "N" \notin added.flags
  <2> HIDE DEF c
  <2>1. /\ added.val = (x + y + c) % 256 /\ ("C" \in added.flags <=> x + y + c > 255)
        /\ ("H" \in added.flags <=> (x % 16) + (y % 16) + c > 15) /\ "N" \notin added.flags
    BY DEF AdcOf, To, Flag, Zero, c
  <2> HIDE DEF added, new
  <2> QED  BY <1>4, <2>1
<1> HIDE DEF added
<1>6. r.val = sum % 256 /\ ("C" \in r.flags <=> new > 255 \/ sum > 255)
  <2> HIDE DEF new, d, c
  <2> QED  BY <1>5, DaaIs DEF Adjusted
<1>7. sum % 256 = 16 * hi + lo /\ ((new > 255 \/ sum > 255) <=> t > 9)
  <2> HIDE DEF c
  <2> QED  BY <1>1, <1>2, <1>3, SumOfDigits
<1> HIDE DEF sum, new, v, up, c
<1>8. hi \in Nat /\ hi <= 9 /\ lo \in Nat /\ lo <= 9
  BY <1>1, <1>2, <1>3
<1>9. r.val \in Bcd /\ Decimal(r.val) = 10 * hi + lo
  <2> HIDE DEF hi, lo, r
  <2>1. r.val = Digits(hi, lo)
    BY <1>6, <1>7 DEF Digits
  <2> QED  BY <1>8, <2>1, DigitsAre
<1>10. Carry(r.flags) = IF t > 9 THEN 1 ELSE 0
  BY <1>6, <1>7 DEF Carry
<1>11. 10 * hi + lo + 100 * (IF t > 9 THEN 1 ELSE 0) = 10 * i + j + (10 * k + l) + c
  BY <1>1, <1>2, <1>3
<1> HIDE DEF hi, lo, r, t
<1>12. Decimal(r.val) + 100 * Carry(r.flags) = Decimal(x) + Decimal(y) + c
  BY <1>4, <1>9, <1>10, <1>11
<1> QED  BY <1>9, <1>12 DEF r, added, c

LEMMA BcdSubtracts ==
  ASSUME NEW x \in Bcd, NEW y \in Bcd, NEW flags
  PROVE  LET dif == Adjusted(SbcOf(x, y, flags))
         IN  /\ dif.val \in Bcd
             /\ Decimal(dif.val) - 100 * Carry(dif.flags)
                  = Decimal(x) - Decimal(y) - Carry(flags)
<1>1. PICK i, j \in Nat : i <= 9 /\ j <= 9 /\ x = Digits(i, j)
  BY BcdIs
<1>2. PICK k, l \in Nat : k <= 9 /\ l <= 9 /\ y = Digits(k, l)
  BY BcdIs
<1> DEFINE c == Carry(flags)
           new == 16 * i + j + 256 - (16 * k + l) - c
           d == j - l - c
           t == IF d < 0 THEN i - k - 1 ELSE i - k
           v == new % 256
           down == IF d < 0 THEN (v - 6) % 256 ELSE v
           dif == IF new < 256 THEN down - 96 ELSE down
           taken == SbcOf(x, y, flags)
           r == Adjusted(taken)
           hi == IF t < 0 THEN t + 10 ELSE t
           lo == IF d < 0 THEN d + 10 ELSE d
<1>3. c \in Nat /\ c <= 1
  BY CarryIs
<1>4. /\ x % 16 = j /\ y % 16 = l /\ x + 256 - y - c = new
      /\ Decimal(x) = 10 * i + j /\ Decimal(y) = 10 * k + l
  <2>1. Decimal(x) = 10 * i + j /\ Decimal(y) = 10 * k + l
    BY <1>1, <1>2, DigitsAre
  <2>2. x % 16 = j /\ y % 16 = l /\ x + 256 - y - c = new
    BY <1>1, <1>2, <1>3 DEF Digits
  <2> QED  BY <2>1, <2>2
<1>5. /\ taken.val = v /\ ("C" \in taken.flags <=> new < 256)
      /\ ("H" \in taken.flags <=> d < 0) /\ "N" \in taken.flags
  <2> HIDE DEF c
  <2>1. /\ taken.val = (x + 256 - y - c) % 256 /\ ("C" \in taken.flags <=> x + 256 - y - c < 256)
        /\ ("H" \in taken.flags <=> (x % 16) - (y % 16) - c < 0) /\ "N" \in taken.flags
    BY DEF SbcOf, To, Flag, Zero, c
  <2> HIDE DEF taken, new
  <2> QED  BY <1>4, <2>1
<1> HIDE DEF taken
<1>6. r.val = dif % 256 /\ ("C" \in r.flags <=> new < 256 \/ dif > 255)
  <2> HIDE DEF new, d, c
  <2> QED  BY <1>5, DaaIs DEF Adjusted
<1>7. dif % 256 = 16 * hi + lo /\ ((new < 256 \/ dif > 255) <=> t < 0)
  <2> HIDE DEF c
  <2> QED  BY <1>1, <1>2, <1>3, DifferenceOfDigits
<1> HIDE DEF dif, new, v, down, c
<1>8. hi \in Nat /\ hi <= 9 /\ lo \in Nat /\ lo <= 9
  BY <1>1, <1>2, <1>3
<1>9. r.val \in Bcd /\ Decimal(r.val) = 10 * hi + lo
  <2> HIDE DEF hi, lo, r
  <2>1. r.val = Digits(hi, lo)
    BY <1>6, <1>7 DEF Digits
  <2> QED  BY <1>8, <2>1, DigitsAre
<1>10. Carry(r.flags) = IF t < 0 THEN 1 ELSE 0
  BY <1>6, <1>7 DEF Carry
<1>11. 10 * hi + lo - 100 * (IF t < 0 THEN 1 ELSE 0) = 10 * i + j - (10 * k + l) - c
  BY <1>1, <1>2, <1>3
<1> HIDE DEF hi, lo, r, t, d
<1>12. Decimal(r.val) - 100 * Carry(r.flags) = Decimal(x) - Decimal(y) - c
  <2>1. /\ Decimal(r.val) = 10 * hi + lo
        /\ Decimal(x) = 10 * i + j /\ Decimal(y) = 10 * k + l
    BY <1>4, <1>9
  <2> QED  BY <1>1, <1>2, <1>3, <1>8, <1>10, <1>11, <2>1
<1> QED  BY <1>9, <1>12 DEF r, taken, c

LEMMA ByteIsExact ==
  ASSUME a \in Byte
  PROVE  SumIsExact /\ DifferenceIsExact /\ BcdIsExact
<1>1. SumIsExact
  <2> SUFFICES ASSUME NEW y \in Byte
               PROVE  /\ ExactSum(AddOf(a, y), a, y, 0)
                      /\ ExactSum(AdcOf(a, y, f), a, y, Carry(f))
                      /\ WordSum(a, y)
    BY DEF SumIsExact
  <2>1. WordSum(a, y)
    BY WordsAddUp DEF WordSum
  <2> QED  BY <2>1, AddIsSum, AdcIsSum
<1>2. DifferenceIsExact
  BY SubIsDifference, SbcIsDifference DEF DifferenceIsExact
<1>3. BcdIsExact
  BY BcdAdds, BcdSubtracts DEF BcdIsExact
<1> QED  BY <1>1, <1>2, <1>3

\* The accumulator stays a byte.
BothOf(x, y, bit) == IF BitOf(x, bit) = 1 /\ BitOf(y, bit) = 1 THEN bit ELSE 0
EitherOf(x, y, bit) == bit * BitOf(x, bit) + bit * BitOf(y, bit)
LEMMA OneBit ==
  ASSUME NEW x \in Nat, NEW y \in Nat, NEW bit \in Bits
  PROVE  /\ BothOf(x, y, bit) \in Nat /\ EitherOf(x, y, bit) \in Nat
         /\ EitherOf(x, y, bit) - 2 * BothOf(x, y, bit) >= 0
         /\ EitherOf(x, y, bit) - BothOf(x, y, bit) <= bit
         /\ EitherOf(x, y, bit) - 2 * BothOf(x, y, bit) <= bit
<1>1. bit \in Nat
  BY DEF Bits
<1>2. BitOf(x, bit) \in {0, 1} /\ BitOf(y, bit) \in {0, 1}
  BY BitIs
<1> DEFINE p == BitOf(x, bit)
           q == BitOf(y, bit)
<1> HIDE DEF p, q
<1>3. p \in {0, 1} /\ q \in {0, 1}
  BY <1>2 DEF p, q
<1>4. bit * 0 = 0 /\ bit * 1 = bit
  BY <1>1
<1>5. BothOf(x, y, bit) = (IF p = 1 /\ q = 1 THEN bit ELSE 0) /\ EitherOf(x, y, bit) = bit * p + bit * q
  BY DEF BothOf, EitherOf, p, q
<1>6. CASE p = 1 /\ q = 1
  BY <1>1, <1>4, <1>5, <1>6
<1>7. CASE p = 1 /\ q = 0
  BY <1>1, <1>4, <1>5, <1>7
<1>8. CASE p = 0 /\ q = 1
  BY <1>1, <1>4, <1>5, <1>8
<1>9. CASE p = 0 /\ q = 0
  BY <1>1, <1>4, <1>5, <1>9
<1> QED  BY <1>3, <1>6, <1>7, <1>8, <1>9

LEMMA BitsFill ==
  ASSUME NEW x \in Nat, x < 256, NEW y \in Nat, y < 256
  PROVE  Or(x, y) \in Byte /\ Xor(x, y) \in Byte
<1> DEFINE both(bit) == BothOf(x, y, bit)
           either(bit) == EitherOf(x, y, bit)
           one(bit) == either(bit) - 2 * both(bit)
<1>1. \A bit \in Bits :
        /\ both(bit) \in Nat /\ either(bit) \in Nat
        /\ one(bit) >= 0 /\ one(bit) <= bit /\ either(bit) - both(bit) <= bit
  BY OneBit
<1>2. And(x, y) = both(1) + both(2) + both(4) + both(8) + both(16) + both(32) + both(64) + both(128)
  BY DEF And, BothOf
<1>3. x + y = either(1) + either(2) + either(4) + either(8) + either(16) + either(32)
                + either(64) + either(128)
  <2>1. x = BitsUp(x) /\ y = BitsUp(y)
    BY BitsAddUp
  <2>2. \A bit \in Bits : BitOf(x, bit) \in Nat /\ BitOf(y, bit) \in Nat
    BY BitIs
  <2> QED  BY <2>1, <2>2 DEF BitsUp, Bits, EitherOf
<1> HIDE DEF both, either
<1>4. /\ 1 \in Bits /\ 2 \in Bits /\ 4 \in Bits /\ 8 \in Bits
      /\ 16 \in Bits /\ 32 \in Bits /\ 64 \in Bits /\ 128 \in Bits
  BY DEF Bits
<1> DEFINE b(bit) == either(bit) - both(bit)
<1>5. x + y - And(x, y) \in Nat /\ x + y - And(x, y) <= 255
  <2>1. \A bit \in Bits : b(bit) \in Nat /\ b(bit) <= bit
    BY <1>1
  <2>2. x + y - And(x, y) = b(1) + b(2) + b(4) + b(8) + b(16) + b(32) + b(64) + b(128)
    <3>1. /\ both(1) \in Int /\ both(2) \in Int /\ both(4) \in Int /\ both(8) \in Int
          /\ both(16) \in Int /\ both(32) \in Int /\ both(64) \in Int /\ both(128) \in Int
      BY <1>1, <1>4
    <3>2. /\ either(1) \in Int /\ either(2) \in Int /\ either(4) \in Int /\ either(8) \in Int
          /\ either(16) \in Int /\ either(32) \in Int /\ either(64) \in Int /\ either(128) \in Int
      BY <1>1, <1>4
    <3> QED  BY <1>2, <1>3, <3>1, <3>2
  <2> HIDE DEF b
  <2> QED  BY <1>4, <2>1, <2>2
<1>6. x + y - 2 * And(x, y) \in Nat /\ x + y - 2 * And(x, y) <= 255
  <2>1. x + y - 2 * And(x, y) = one(1) + one(2) + one(4) + one(8) + one(16) + one(32)
                                  + one(64) + one(128)
    <3>1. /\ both(1) \in Int /\ both(2) \in Int /\ both(4) \in Int /\ both(8) \in Int
          /\ both(16) \in Int /\ both(32) \in Int /\ both(64) \in Int /\ both(128) \in Int
      BY <1>1, <1>4
    <3>2. /\ either(1) \in Int /\ either(2) \in Int /\ either(4) \in Int /\ either(8) \in Int
          /\ either(16) \in Int /\ either(32) \in Int /\ either(64) \in Int /\ either(128) \in Int
      BY <1>1, <1>4
    <3>3. And(x, y) \in Int
      BY <1>2, <3>1
    <3> DEFINE m == And(x, y)
    <3> HIDE DEF m
    <3>4. x + y - 2 * m = x + y - m - m
      BY <3>3 DEF m
    <3>5. x + y - m - m
            = either(1) - both(1) - both(1) + (either(2) - both(2) - both(2))
              + (either(4) - both(4) - both(4)) + (either(8) - both(8) - both(8))
              + (either(16) - both(16) - both(16)) + (either(32) - both(32) - both(32))
              + (either(64) - both(64) - both(64)) + (either(128) - both(128) - both(128))
      BY <1>2, <1>3, <3>1, <3>2 DEF m
    <3>6. \A bit \in Bits : either(bit) - both(bit) - both(bit) = one(bit)
      BY <1>1
    <3> HIDE DEF one
    <3> QED  BY <1>4, <3>4, <3>5, <3>6 DEF m
  <2>2. \A bit \in Bits : one(bit) \in Nat /\ one(bit) <= bit
    BY <1>1
  <2> HIDE DEF one
  <2> QED  BY <1>4, <2>1, <2>2
<1> QED  BY <1>5, <1>6, ByteBounds DEF Or, Xor

LEMMA BitChanged ==
  ASSUME NEW x \in Nat, x < 256, NEW bit \in Bits
  PROVE  x - bit * BitOf(x, bit) \in Byte /\ x + bit * (1 - BitOf(x, bit)) \in Byte
<1> DEFINE part(b) == b * BitOf(x, b)
           rest(b) == b * (1 - BitOf(x, b))
<1>1. \A b \in Bits : part(b) \in Nat /\ rest(b) \in Nat /\ part(b) + rest(b) = b
  BY BitIs DEF Bits
<1>2. x = part(1) + part(2) + part(4) + part(8) + part(16) + part(32) + part(64) + part(128)
  <2>1. x = BitsUp(x)
    BY BitsAddUp
  <2>2. \A b \in Bits : BitOf(x, b) \in Nat
    BY BitIs
  <2> QED  BY <2>1, <2>2 DEF BitsUp, Bits
<1> HIDE DEF part, rest
<1>3. \A b \in Bits : x - part(b) \in Nat /\ x + rest(b) \in Nat /\ x + rest(b) <= 255
  BY <1>1, <1>2 DEF Bits
<1>4. x - part(bit) \in Byte /\ x + rest(bit) \in Byte
  <2>1. part(bit) \in Nat
    BY <1>1
  <2> QED  BY <1>3, <2>1, ByteBounds
<1> QED  BY <1>4 DEF part, rest

LEMMA ShiftedBytes ==
  ASSUME NEW x \in Nat, x < 256, NEW flags
  PROVE  /\ RlcOf(x, flags).val \in Byte /\ RrcOf(x, flags).val \in Byte
         /\ RlOf(x, flags).val \in Byte /\ RrOf(x, flags).val \in Byte
         /\ SlaOf(x, flags).val \in Byte /\ SraOf(x, flags).val \in Byte
         /\ SwapOf(x, flags).val \in Byte /\ SrlOf(x, flags).val \in Byte
<1> DEFINE c == Carry(flags)
<1>1. c \in Nat /\ c <= 1
  BY CarryIs
<1>2. /\ RlcOf(x, flags).val = ((2 * x) % 256) + x \div 128
      /\ RrcOf(x, flags).val = x \div 2 + 128 * (x % 2)
      /\ RlOf(x, flags).val = ((2 * x) % 256) + c
      /\ RrOf(x, flags).val = x \div 2 + 128 * c
      /\ SlaOf(x, flags).val = (2 * x) % 256
      /\ SraOf(x, flags).val = x \div 2 + (x - (x % 128))
      /\ SwapOf(x, flags).val = x \div 16 + 16 * (x % 16)
      /\ SrlOf(x, flags).val = x \div 2
  BY DEF RlcOf, RrcOf, RlOf, RrOf, SlaOf, SraOf, SwapOf, SrlOf, To
<1> HIDE DEF c
<1>3. ((2 * x) % 256) + x \div 128 \in Byte /\ x \div 2 + 128 * (x % 2) \in Byte
  BY DEF Byte
<1>4. ((2 * x) % 256) + c \in Byte /\ x \div 2 + 128 * c \in Byte
  BY <1>1 DEF Byte
<1>5. (2 * x) % 256 \in Byte /\ x \div 2 + (x - (x % 128)) \in Byte
  BY DEF Byte
<1>6. x \div 16 + 16 * (x % 16) \in Byte /\ x \div 2 \in Byte
  BY DEF Byte
<1> QED  BY <1>2, <1>3, <1>4, <1>5, <1>6

LEMMA CountedBytes ==
  ASSUME NEW x \in Nat, x < 256, NEW y \in Nat, y < 256, NEW flags
  PROVE  /\ AddOf(x, y).val \in Byte /\ AdcOf(x, y, flags).val \in Byte
         /\ SubOf(x, y).val \in Byte /\ SbcOf(x, y, flags).val \in Byte
         /\ IncOf(x, flags).val \in Byte /\ DecOf(x, flags).val \in Byte
         /\ DaaOf(x, flags).val \in Byte
<1> DEFINE c == Carry(flags)
<1>1. \A n \in Int : n % 256 \in Byte
  BY DEF Byte
<1>2. c \in Nat
  BY CarryIs
<1>3. /\ AddOf(x, y).val = (x + y) % 256 /\ AdcOf(x, y, flags).val = (x + y + c) % 256
      /\ SubOf(x, y).val = (x - y) % 256 /\ SbcOf(x, y, flags).val = (x + 256 - y - c) % 256
      /\ IncOf(x, flags).val = (x + 1) % 256 /\ DecOf(x, flags).val = (x - 1) % 256
  BY DEF AddOf, AdcOf, SubOf, SbcOf, IncOf, DecOf, To
<1> HIDE DEF c
<1>4. /\ x + y \in Int /\ x + y + c \in Int /\ x - y \in Int /\ x + 256 - y - c \in Int
      /\ x + 1 \in Int /\ x - 1 \in Int
  BY <1>2
<1>5. /\ (x + y) % 256 \in Byte /\ (x + y + c) % 256 \in Byte /\ (x - y) % 256 \in Byte
      /\ (x + 256 - y - c) % 256 \in Byte /\ (x + 1) % 256 \in Byte /\ (x - 1) % 256 \in Byte
  BY <1>1, <1>4
<1>6. \E n \in Int : DaaOf(x, flags).val = n % 256
  BY DEF DaaOf, To
<1>7. DaaOf(x, flags).val \in Byte
  BY <1>1, <1>6
<1> QED  BY <1>3, <1>5, <1>7

LEMMA ArithmeticKeepsBytes ==
  ASSUME a \in Byte, Arithmetic
  PROVE  a' \in Byte
<1>1. a \in Nat /\ a < 256
  BY ByteBounds
<1>2. ASSUME NEW y \in Operands,
             \/ Add(y) \/ Adc(y) \/ Sub(y) \/ Sbc(y) \/ Cp(y)
             \/ AndWith(y) \/ OrWith(y) \/ XorWith(y) \/ Load(y) \/ PopAf(y)
      PROVE  a' \in Byte
  <2>1. y \in Byte /\ y \in Nat /\ y < 256
    BY OperandAssumption, ByteBounds
  <2>2. CASE Add(y) \/ Adc(y) \/ Sub(y) \/ Sbc(y)
    BY <1>1, <2>1, <2>2, CountedBytes DEF Add, Adc, Sub, Sbc, Put
  <2>3. CASE AndWith(y) \/ OrWith(y) \/ XorWith(y)
    <3>1. And(a, y) \in Byte
      BY <1>1, <2>1, AndIs, ByteBounds
    <3> QED  BY <1>1, <2>1, <2>3, <3>1, BitsFill DEF AndWith, OrWith, XorWith, Put, To
  <2>4. CASE Cp(y) \/ Load(y) \/ PopAf(y)
    BY <2>1, <2>4 DEF Cp, Load, PopAf
  <2> QED  BY <1>2, <2>2, <2>3, <2>4
<1>3. ASSUME NEW bit \in Bits, Bit(bit) \/ Res(bit) \/ Set(bit)
      PROVE  a' \in Byte
  BY <1>1, <1>3, BitChanged DEF Bit, Res, Set
<1>4. CASE Rotate \/ Rlca \/ Rrca \/ Rla \/ Rra
  BY <1>1, <1>4, ShiftedBytes DEF Rotate, Rlca, Rrca, Rla, Rra, Put, Accumulator, To
<1>5. CASE Inc \/ Dec \/ Daa
  BY <1>1, <1>5, CountedBytes DEF Inc, Dec, Daa, Put
<1>6. CASE Cpl \/ Ccf \/ Scf
  <2>1. 255 - a \in Byte
    BY <1>1 DEF Byte
  <2> QED  BY <1>6, <2>1 DEF Cpl, Ccf, Scf
<1> QED  BY <1>2, <1>3, <1>4, <1>5, <1>6 DEF Arithmetic

\* gbcpu.c, op_add to op_daa: whatever arithmetic a program has done before, with any
\* operands, its sums, differences and decimal numbers are exact.
THEOREM ArithmeticExact == MCSpec => []ArithmeticIsExact
<1> DEFINE Inv == program = "alu" => a \in Byte
<1>1. MCInit => Inv
  BY DEF MCInit, AluInit, Byte
<1>2. Inv /\ [MCNext]_allVars => Inv'
  <2> SUFFICES ASSUME Inv, [MCNext]_allVars, program' = "alu" PROVE a' \in Byte
    OBVIOUS
  <2>1. CASE MCNext
    <3>1. program = "alu" /\ Arithmetic
      BY <2>1 DEF MCNext
    <3> QED  BY <3>1, ArithmeticKeepsBytes
  <2>2. CASE UNCHANGED allVars
    BY <2>2 DEF allVars, cpuVars, data
  <2> QED  BY <2>1, <2>2
<1>3. Inv => ArithmeticIsExact
  BY ByteIsExact DEF ArithmeticIsExact
<1> QED  BY <1>1, <1>2, <1>3, PTL DEF MCSpec
==============================================================================
