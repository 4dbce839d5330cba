---------------------------------- MODULE Alu ----------------------------------
(***************************************************************************)
(* Arithmetic of gbcpu.c on the accumulator and the flags, at its real     *)
(* width.  The code finds carries out by comparing a result with the value *)
(* before; what they mean is stated here with sums.                        *)
(*                                                                         *)
(* An instruction that names another register than A does the same to that *)
(* one; its operand, register, memory or immediate, is any value.          *)
(***************************************************************************)
EXTENDS Integers

CONSTANT Operands   \* what instructions find in their operand

Byte == 0 .. 255
Bits == {1, 2, 4, 8, 16, 32, 64, 128}

ASSUME OperandAssumption == Operands \subseteq Byte

VARIABLES
  a,   \* regs.rn.a
  f    \* regs.rn.f, as the set of its flags: "Z", "N", "H", "C"

aluVars == <<a, f>>

-----------------------------------------------------------------------------
Flag(name, when) == IF when THEN {name} ELSE {}
Zero(val) == Flag("Z", val = 0)
Carry(flags) == IF "C" \in flags THEN 1 ELSE 0

\* A result: the new value and the new flags.
To(val, flags) == [val |-> val, flags |-> flags]

\* op_add, op_sub (and op_cp) compare the new value with the old.
AddOf(x, y) ==
  LET new == (x + y) % 256
  IN  To(new, Flag("C", x > new) \cup Flag("H", x % 16 > new % 16) \cup Zero(new))
SubOf(x, y) ==
  LET new == (x - y) % 256
  IN  To(new, {"N"} \cup Flag("C", x < new) \cup Flag("H", x % 16 < new % 16) \cup Zero(new))

\* Slip: the carry does not count for the half carry.
AdcOf_HalfAlone(x, y, flags) ==
  LET new == x + y + Carry(flags)
  IN  To(new % 256, Flag("C", new > 255) \cup Flag("H", (x % 16) + (y % 16) > 15)
                    \cup Zero(new % 256))

\* op_adc, op_sbc
AdcOf(x, y, flags) ==
  LET new == x + y + Carry(flags)
  IN  To(new % 256, Flag("C", new > 255)
                    \cup Flag("H", (x % 16) + (y % 16) + Carry(flags) > 15) \cup Zero(new % 256))
SbcOf(x, y, flags) ==
  LET new == x + 256 - y - Carry(flags)
  IN  To(new % 256, {"N"} \cup Flag("C", new < 256)
                    \cup Flag("H", (x % 16) - (y % 16) - Carry(flags) < 0) \cup Zero(new % 256))

\* op_inc, op_dec: the carry stays.
IncOf(x, flags) ==
  LET new == (x + 1) % 256
  IN  To(new, (flags \ {"N", "Z", "H"}) \cup Zero(new) \cup Flag("H", x % 16 > new % 16))
DecOf(x, flags) ==
  LET new == (x - 1) % 256
  IN  To(new, ((flags \cup {"N"}) \ {"Z", "H"}) \cup Zero(new)
              \cup Flag("H", x % 16 < new % 16))

\* op_daa
DaaOf(x, flags) ==
  LET low == IF "N" \in flags THEN (IF "H" \in flags THEN (x - 6) % 256 ELSE x)
             ELSE IF "H" \in flags \/ x % 16 > 9 THEN x + 6 ELSE x
      adjusted == IF "N" \in flags THEN (IF "C" \in flags THEN low - 96 ELSE low)
                  ELSE IF "C" \in flags \/ low > 159 THEN low + 96 ELSE low
  IN  To(adjusted % 256, (flags \ {"H", "Z"}) \cup Flag("C", adjusted > 255)
                         \cup Zero(adjusted % 256))

\* The rotations and shifts of the CB opcodes, in the order of cbops.
RlcOf(x, flags) == LET new == ((2 * x) % 256) + x \div 128
                   IN  To(new, Flag("C", x > 127) \cup Zero(new))
RrcOf(x, flags) == LET new == x \div 2 + 128 * (x % 2)
                   IN  To(new, Flag("C", x % 2 = 1) \cup Zero(new))
RlOf(x, flags) == LET new == ((2 * x) % 256) + Carry(flags)
                  IN  To(new, Flag("C", x > 127) \cup Zero(new))
RrOf(x, flags) == LET new == x \div 2 + 128 * Carry(flags)
                  IN  To(new, Flag("C", x % 2 = 1) \cup Zero(new))
SlaOf(x, flags) == LET new == (2 * x) % 256
                   IN  To(new, Flag("C", x > 127) \cup Zero(new))
SraOf(x, flags) == LET new == x \div 2 + (x - (x % 128))
                   IN  To(new, Flag("C", x % 2 = 1) \cup Zero(new))
SwapOf(x, flags) == LET new == x \div 16 + 16 * (x % 16) IN To(new, Zero(new))
SrlOf(x, flags) == LET new == x \div 2
                   IN  To(new, Flag("C", x % 2 = 1) \cup Zero(new))

\* RLCA, RRCA, RLA, RRA never set the zero flag.
Accumulator(result) == To(result.val, result.flags \ {"Z"})

\* op_add_sp_imm, op_ld_hlsp: "flags are based on LOW-BYTE".
AddSpOf(sp, imm) ==
  LET new == (sp + (IF imm > 127 THEN imm - 256 ELSE imm)) % 65536
  IN  To(new, Flag("C", sp % 256 > new % 256) \cup Flag("H", sp % 16 > new % 16))

\* op_add_hl
AddHlOf(hl, reg, flags) ==
  LET new == (hl + reg) % 65536
  IN  To(new, (flags \ {"N", "C", "H"}) \cup Flag("C", hl > new)
              \cup Flag("H", hl % 4096 > new % 4096))

\* Conditions of jumps, calls and returns.
Taken(cond, flags) ==
  CASE cond = "NZ" -> "Z" \notin flags [] cond = "Z" -> "Z" \in flags
    [] cond = "NC" -> "C" \notin flags [] cond = "C" -> "C" \in flags

\* A byte bit by bit: where one has both bits, the sum has a carry.
BitOf(x, bit) == (x \div bit) % 2
And(x, y) ==
  LET both(bit) == IF BitOf(x, bit) = 1 /\ BitOf(y, bit) = 1 THEN bit ELSE 0
  IN  both(1) + both(2) + both(4) + both(8) + both(16) + both(32) + both(64) + both(128)
Or(x, y) == x + y - And(x, y)
Xor(x, y) == x + y - 2 * And(x, y)

-----------------------------------------------------------------------------
Put(result) == a' = result.val /\ f' = result.flags

\* Instructions with an operand,
Add(y) == Put(AddOf(a, y))
Adc(y) == Put(AdcOf(a, y, f))
Sub(y) == Put(SubOf(a, y))
Sbc(y) == Put(SbcOf(a, y, f))
Cp(y) == a' = a /\ f' = SubOf(a, y).flags
AndWith(y) == Put(To(And(a, y), {"H"} \cup Zero(And(a, y))))
OrWith(y) == Put(To(Or(a, y), Zero(Or(a, y))))
XorWith(y) == Put(To(Xor(a, y), Zero(Xor(a, y))))
Load(y) == a' = y /\ UNCHANGED f
PopAf(y) == \E flags \in SUBSET {"Z", "N", "H", "C"} : a' = y /\ f' = flags

\* with a bit,
Bit(bit) == a' = a /\ f' = (f \ {"N", "Z"}) \cup {"H"} \cup Zero(BitOf(a, bit))
Res(bit) == a' = a - bit * BitOf(a, bit) /\ UNCHANGED f
Set(bit) == a' = a + bit * (1 - BitOf(a, bit)) /\ UNCHANGED f

\* and with none.
Rotate ==
  \/ Put(RlcOf(a, f)) \/ Put(RrcOf(a, f)) \/ Put(RlOf(a, f)) \/ Put(RrOf(a, f))
  \/ Put(SlaOf(a, f)) \/ Put(SraOf(a, f)) \/ Put(SwapOf(a, f)) \/ Put(SrlOf(a, f))
Rlca == Put(Accumulator(RlcOf(a, f)))
Rrca == Put(Accumulator(RrcOf(a, f)))
Rla == Put(Accumulator(RlOf(a, f)))
Rra == Put(Accumulator(RrOf(a, f)))
Inc == Put(IncOf(a, f))
Dec == Put(DecOf(a, f))
Daa == Put(DaaOf(a, f))
Cpl == a' = 255 - a /\ f' = f \cup {"N", "H"}
Ccf == a' = a /\ f' = (IF "C" \in f THEN f \ {"C"} ELSE f \cup {"C"}) \ {"N", "H"}
Scf == a' = a /\ f' = (f \cup {"C"}) \ {"N", "H"}

AluInit == a = 0 /\ f = {}

\* Any arithmetic.
Arithmetic ==
  \/ \E y \in Operands : \/ Add(y) \/ Adc(y) \/ Sub(y) \/ Sbc(y) \/ Cp(y)
                         \/ AndWith(y) \/ OrWith(y) \/ XorWith(y) \/ Load(y) \/ PopAf(y)
  \/ \E bit \in Bits : Bit(bit) \/ Res(bit) \/ Set(bit)
  \/ Rotate \/ Rlca \/ Rrca \/ Rla \/ Rra
  \/ Inc \/ Dec \/ Daa \/ Cpl \/ Ccf \/ Scf

-----------------------------------------------------------------------------
\* "fix slight bug in ADC/SBC" (HISTORY): with every operand and either carry,
\* a sum and its carry are the sum, and the half carry is that of the lower
\* digits, so that bytes can be chained to longer numbers.  The same of words:
\* the flags of HL are those of the upper byte, and the flags of SP plus a signed
\* offset those of the sum of the lower bytes, with the offset as unsigned.
ExactSum(result, x, y, c) ==
  /\ result.val + 256 * Carry(result.flags) = x + y + c
  /\ "H" \in result.flags <=> (x % 16) + (y % 16) + c >= 16
  /\ "Z" \in result.flags <=> result.val = 0
WordSum(x, y) ==
  LET sp == 256 * y + x
      res == AddSpOf(sp, y)
      hl == AddHlOf(256 * x + y, sp, f)
  IN  /\ "C" \in res.flags <=> x + y >= 256
      /\ "H" \in res.flags <=> (x % 16) + (y % 16) >= 16
      /\ hl.val + 65536 * Carry(hl.flags) = 256 * x + y + sp
      /\ "H" \in hl.flags <=> ((256 * x + y) % 4096) + (sp % 4096) >= 4096
SumIsExact ==
  \A y \in Byte : /\ ExactSum(AddOf(a, y), a, y, 0)
                  /\ ExactSum(AdcOf(a, y, f), a, y, Carry(f))
                  /\ WordSum(a, y)

\* The same of differences and their borrows.  So after CP a jump decides as the
\* comparison of the two numbers does.
ExactDifference(result, x, y, c) ==
  /\ result.val - 256 * Carry(result.flags) = x - y - c
  /\ "H" \in result.flags <=> x % 16 < (y % 16) + c
  /\ "Z" \in result.flags <=> result.val = 0
Compares(flags, x, y) ==
  /\ Taken("C", flags) <=> x < y
  /\ Taken("NC", flags) <=> x >= y
  /\ Taken("Z", flags) <=> x = y
  /\ Taken("NZ", flags) <=> x # y
DifferenceIsExact ==
  \A y \in Byte : /\ ExactDifference(SubOf(a, y), a, y, 0)
                  /\ ExactDifference(SbcOf(a, y, f), a, y, Carry(f))
                  /\ Compares(SubOf(a, y).flags, a, y)

\* DAA after an addition of two decimal numbers gives the decimal sum and its
\* carry, and after a subtraction the decimal difference and its borrow: the
\* flags that the one instruction leaves are those the other one needs.
Bcd == {16 * i + j : i, j \in 0 .. 9}
Decimal(x) == 10 * (x \div 16) + (x % 16)
Adjusted(result) == DaaOf(result.val, result.flags)
BcdIsExact ==
  a \in Bcd => \A y \in Bcd :
    LET sum == Adjusted(AdcOf(a, y, f))
        dif == Adjusted(SbcOf(a, y, f))
    IN  /\ {sum.val, dif.val} \subseteq Bcd
        /\ Decimal(sum.val) + 100 * Carry(sum.flags) = Decimal(a) + Decimal(y) + Carry(f)
        /\ Decimal(dif.val) - 100 * Carry(dif.flags) = Decimal(a) - Decimal(y) - Carry(f)
=============================================================================
