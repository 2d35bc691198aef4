----------------------------- MODULE ConstLiteral -----------------------------
(***************************************************************************)
(* Constants of a design: process_value reads what UHDM says of one, and   *)
(* synlig_const2ast makes bits of its digits.  A decimal number is halved  *)
(* digit by digit until nothing is left of it, a number of another base is *)
(* expanded digit by digit; the bits are then cut or extended to the size. *)
(*                                                                         *)
(* Bits are listed from the least significant one; digits, as in the code, *)
(* from the most significant one.                                          *)
(***************************************************************************)
EXTENDS Integers, Sequences, FiniteSetsExt

CONSTANTS
    IntBits,    \* width of int, 32 in the code
    LongBits,   \* width Surelog gives integers that have none, 64
    Literals,   \* digit strings: [format, base, digits, size, signed, case, unbased]
    Numbers     \* integers: [format, value, size, signed]

X == 240    \* 0xf0: x
Z == 241    \* 0xf1: z or ?

ASSUME WidthsAssumption == /\ IntBits \in Nat \ {0}
                           /\ LongBits \in Nat
                           /\ IntBits < LongBits

\* What Surelog gives: at least one digit, each a figure of base 16, x or z.
ASSUME LiteralsAssumption ==
    \A c \in Literals :
        /\ c.format = "string"
        /\ c.base \in {2, 8, 10, 16}
        /\ c.digits \in Seq(0 .. 15 \cup {X, Z}) \ {<<>>}
        /\ c.size \in Nat
        /\ c.signed \in BOOLEAN /\ c.unbased \in BOOLEAN
        /\ c.case \in {"exact", "casex", "casez"}
        \* An unbased literal is '0, '1, 'x or 'z: one digit.
        /\ c.unbased /\ c.base = 2 => Len(c.digits) = 1

ASSUME NumbersAssumption ==
    \A c \in Numbers :
        /\ c.format # "string"
        /\ c.value \in Int
        /\ c.size \in Nat
        /\ c.signed \in BOOLEAN

VARIABLES
    constant,   \* what UHDM holds: a literal or a number
    base,       \* base of the digits, as strtobin takes it
    digits,     \* digits that are still to be converted
    data,       \* bits so far
    node,       \* the constant node that is built
    pc          \* "value", "halve", "expand", "resize", "done" or "error"

vars == <<constant, base, digits, data, node, pc>>

------------------------------------------------------------------------------
\* A size of 0 stands for none: vpiSize is 0 or -1.
Unsized == 0
IsNumber(c) == c.format # "string"

NoNode == [bits |-> <<>>, signed |-> FALSE, unsized |-> FALSE]

\* b^n
Power(b, n) == LET p[k \in Nat] == IF k = 0 THEN 1 ELSE b * p[k - 1] IN p[n]

BitOf(n, i) == IF (n \div Power(2, i)) % 2 = 1 THEN "1" ELSE "0"

\* mkconst_int: the number is held in an unsigned int.
MkConstInt(value, signed, width) ==
    [bits |-> [i \in 1 .. width |-> BitOf(value % Power(2, IntBits), i - 1)],
     signed |-> signed, unsized |-> FALSE]

\* std::to_string
ToDigits(n) ==
    LET enough(l) == n < Power(10, l) /\ (l = 1 \/ n >= Power(10, l - 1))
        len == CHOOSE l \in 1 .. n + 1 : enough(l)
    IN  [k \in 1 .. len |-> (n \div Power(10, len - k)) % 10]

Init ==
    /\ constant \in Literals \cup Numbers
    /\ base = 0
    /\ digits = <<>>
    /\ data = <<>>
    /\ node = NoNode
    /\ pc = "value"

------------------------------------------------------------------------------
(***************************************************************************)
(* process_value                                                           *)
(***************************************************************************)
\* Mutant: every integer is cut to an int.
Oversized_Cut(c) == c.value > Power(2, LongBits - 1) - 1

\* A number an int does not hold is read again as a decimal string.
Oversized(c) == c.value > Power(2, IntBits - 1) - 1

\* 64 is the size of an integer without one.
IntWidth(c) == IF c.size \in {Unsized, LongBits} THEN IntBits ELSE c.size
IntSigned(c) == c.signed \/ c.size = LongBits

ReadInt ==
    /\ pc = "value"
    /\ IsNumber(constant) /\ ~Oversized(constant)
    /\ node' = [MkConstInt(constant.value, IntSigned(constant), IntWidth(constant))
                    EXCEPT !.unsized = constant.size = Unsized]
    /\ pc' = "done"
    /\ UNCHANGED <<constant, base, digits, data>>

\* A single digit x or z is all there is of a decimal: it is read as binary.
ReadString ==
    LET ds == IF IsNumber(constant) THEN ToDigits(constant.value) ELSE constant.digits
        b == IF IsNumber(constant) THEN 10 ELSE constant.base
    IN  /\ pc = "value"
        /\ IsNumber(constant) => Oversized(constant)
        /\ digits' = ds
        /\ base' = IF b = 10 /\ Len(ds) = 1 /\ ds[1] >= X THEN 2 ELSE b
        /\ pc' = IF base' = 10 THEN "halve" ELSE "expand"
        /\ UNCHANGED <<constant, data, node>>

------------------------------------------------------------------------------
(***************************************************************************)
(* strtobin                                                                *)
(***************************************************************************)
\* Mutant: the carry into a digit is counted as one, not as ten.
Halved_Carry(ds) ==
    [k \in DOMAIN ds |-> (ds[k] + IF k > 1 /\ ds[k - 1] % 2 = 1 THEN 1 ELSE 0) \div 2]

\* decimal_div_by_two: the carry of a digit is its own parity, as ten is even.
Halved(ds) ==
    [k \in DOMAIN ds |-> (ds[k] + IF k > 1 /\ ds[k - 1] % 2 = 1 THEN 10 ELSE 0) \div 2]

StripZeros(ds) ==
    LET first == {k \in DOMAIN ds : ds[k] # 0}
    IN  IF first = {} THEN <<>> ELSE SubSeq(ds, Min(first), Len(ds))

Halve ==
    /\ pc = "halve"
    /\ digits # <<>>
    /\ IF \E k \in DOMAIN digits : digits[k] >= 10
       THEN /\ pc' = "error"
            /\ UNCHANGED <<digits, data>>
       ELSE /\ data' = Append(data, BitOf(digits[Len(digits)], 0))
            /\ digits' = StripZeros(Halved(digits))
            /\ UNCHANGED pc
    /\ UNCHANGED <<constant, base, node>>

Halve_End ==
    /\ pc = "halve"
    /\ digits = <<>>
    /\ pc' = "resize"
    /\ UNCHANGED <<constant, base, digits, data, node>>

\* ilog2(base - 1)
BitsPerDigit == CHOOSE k \in 1 .. 4 : Power(2, k) = base

CaseType == IF IsNumber(constant) THEN "exact" ELSE constant.case

\* Mutant: casez takes x as "don't care" as well.
DigitBit_Casez(d, i) ==
    CASE d = X -> IF CaseType \in {"casex", "casez"} THEN "a" ELSE "x"
      [] d = Z -> IF CaseType \in {"casex", "casez"} THEN "a" ELSE "z"
      [] OTHER -> BitOf(d, i)

\* "a" matches anything in a case item.
DigitBit(d, i) ==
    CASE d = X -> IF CaseType = "casex" THEN "a" ELSE "x"
      [] d = Z -> IF CaseType \in {"casex", "casez"} THEN "a" ELSE "z"
      [] OTHER -> BitOf(d, i)

\* The last digit is expanded first.
Expand ==
    /\ pc = "expand"
    /\ digits # <<>>
    /\ LET d == digits[Len(digits)] IN
       IF d >= base /\ d < X
       THEN /\ pc' = "error"
            /\ UNCHANGED <<digits, data>>
       ELSE /\ data' = data \o [i \in 1 .. BitsPerDigit |-> DigitBit(d, i - 1)]
            /\ digits' = SubSeq(digits, 1, Len(digits) - 1)
            /\ UNCHANGED pc
    /\ UNCHANGED <<constant, base, node>>

Expand_End ==
    /\ pc = "expand"
    /\ digits = <<>>
    /\ pc' = "resize"
    /\ UNCHANGED <<constant, base, digits, data, node>>

Msb == IF data = <<>> THEN "0" ELSE data[Len(data)]
Filler == IF Msb \in {"0", "1"} THEN "0" ELSE Msb

Resized(len) == [i \in 1 .. len |-> IF i \in DOMAIN data THEN data[i] ELSE Filler]

Larger(a, b) == IF a > b THEN a ELSE b

\* '0, '1, 'x and 'z get one bit, which the context repeats; the other literals
\* without a size at least those of an int.
Unbased(c) == ~IsNumber(c) /\ c.size = Unsized /\ c.unbased /\ c.base = 2 /\ ~c.signed
BitsWithoutSize == IF Unbased(constant) THEN Resized(1) ELSE Resized(Larger(Len(data), IntBits))

\* A signed constant without size stays positive: const2ast appends a 0.
Positive(bits) == IF bits[Len(bits)] = "1" THEN Append(bits, "0") ELSE bits

Resize ==
    LET signed == IsNumber(constant) \/ constant.signed
        unsized == constant.size = Unsized
    IN  /\ pc = "resize"
        /\ node' = [bits |-> CASE ~unsized           -> Resized(constant.size)
                               [] unsized /\ signed  -> Positive(BitsWithoutSize)
                               [] unsized /\ ~signed -> BitsWithoutSize,
                    signed |-> signed, unsized |-> unsized]
        /\ pc' = "done"
        /\ UNCHANGED <<constant, base, digits, data>>

Done == pc \in {"done", "error"} /\ UNCHANGED vars

Next == ReadInt \/ ReadString \/ Halve \/ Halve_End \/ Expand \/ Expand_End \/ Resize \/ Done

Spec == Init /\ [][Next]_vars

------------------------------------------------------------------------------
(***************************************************************************)
(* Properties                                                              *)
(***************************************************************************)
\* The number a sequence of digits, or of bits 0 and 1, stands for.
Numerals(ds) ==
    LET n[k \in 0 .. Len(ds)] == IF k = 0 THEN 0 ELSE 10 * n[k - 1] + ds[k] IN n
NumberOf(ds) == Numerals(ds)[Len(ds)]

Sums(bits) ==
    LET v[k \in 0 .. Len(bits)] ==
            IF k = 0 THEN 0 ELSE v[k - 1] + IF bits[k] = "1" THEN Power(2, k - 1) ELSE 0
    IN  v
ValueOf(bits) == Sums(bits)[Len(bits)]
SignedValueOf(bits) ==
    ValueOf(bits) - IF bits[Len(bits)] = "1" THEN Power(2, Len(bits)) ELSE 0

Written == IF IsNumber(constant) THEN ToDigits(constant.value) ELSE constant.digits

\* The loop over decimal_div_by_two loses nothing: at every step the bits that
\* were pushed and the digits that are left make up the number as written.
HalvingKeepsNumber ==
    pc = "halve" /\ (\A k \in DOMAIN Written : Written[k] < 10) =>
        NumberOf(digits) * Power(2, Len(data)) + ValueOf(data) = NumberOf(Written)

\* Bit i of a literal, as IEEE 1800 5.7.1 defines it from the digits: the
\* leftmost x or z extends, anything else is extended with zeros.
DigitWidth == CASE constant.base = 2 -> 1 [] constant.base = 8 -> 3 [] OTHER -> 4
DigitOf(i) ==
    LET ds == constant.digits
    IN  ds[IF constant.base = 10 THEN 1 ELSE Larger(1, Len(ds) - (i \div DigitWidth))]
Wild(d) == constant.case = "casex" \/ (constant.case = "casez" /\ d = Z)
BitAsWritten(i) ==
    LET d == DigitOf(i)
        within == i < DigitWidth * Len(constant.digits)
    IN  CASE d >= X                       -> IF Wild(d) THEN "a" ELSE IF d = X THEN "x" ELSE "z"
          [] d < X /\ constant.base = 10  -> BitOf(NumberOf(constant.digits), i)
          [] d < X /\ constant.base # 10  -> IF within THEN BitOf(d, i % DigitWidth) ELSE "0"

\* A literal that is accepted has the bits its digits stand for, cut or extended
\* to its size; without a size it has at least the width of int, or one bit that
\* the context repeats when it has no base either.
BitsAsWritten ==
    pc = "done" /\ ~IsNumber(constant) =>
        /\ \A i \in DOMAIN node.bits : node.bits[i] = BitAsWritten(i - 1)
        /\ CASE constant.size # Unsized -> Len(node.bits) = constant.size
             [] Unbased(constant)        -> Len(node.bits) = 1 /\ node.unsized
             [] OTHER                    -> Len(node.bits) >= IntBits

Fits(v, len) == -Power(2, len - 1) <= v /\ v < Power(2, len - 1)
HasRoom(c) == c.size = Unsized \/ Fits(c.value, c.size)

\* Two negative integers the code does not keep: one with more bits than an int
\* has, which mkconst_int fills with zeros, and one below the least int, as only
\* the greatest is compared with before the 64 bits are cut to those of int.
ZeroExtended(c) == c.value < 0 /\ IntWidth(c) > IntBits
BelowInt(c) == c.value < -Power(2, IntBits - 1)

\* An integer that is not zero-extended is cut to the bits of its constant as
\* the language cuts it; if its size has room for it and it is not below the
\* least int, the change from the 64 bits of Surelog to those of int loses
\* nothing of its value and sign.
NumberKept ==
    pc = "done" /\ IsNumber(constant) /\ ~ZeroExtended(constant) =>
        /\ ValueOf(node.bits) = constant.value % Power(2, Len(node.bits))
        /\ HasRoom(constant) /\ ~BelowInt(constant) => SignedValueOf(node.bits) = constant.value
==============================================================================
