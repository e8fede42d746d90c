------------------------------- MODULE RiscAlu -------------------------------
(* What the three execution units of the RISC processor compute: exec.cc    *)
(* (integers), mmxu.cc (four packed lanes) and floating.cc.                 *)
(*                                                                          *)
(* A word is the natural number of its bit pattern. It has four lanes of    *)
(* LaneBits bits; in the code a lane is a byte and a word 32 bits. A        *)
(* floating point word is a sign bit, ExpBits bits of exponent (8 in the    *)
(* code) and the rest fraction (23).                                        *)
EXTENDS Integers, FiniteSetsExt

CONSTANTS LaneBits, ExpBits

WordBits == 4 * LaneBits
FracBits == WordBits - 1 - ExpBits
ASSUME WidthsAssumption == /\ LaneBits \in Nat \ {0}
                           /\ ExpBits \in Nat \ {0}
                           /\ FracBits \in Nat \ {0}

Word == 0 .. 2^WordBits - 1

\* What a 32-bit variable keeps of an integer, and what a signed one means.
Wrap(x) == x % 2^WordBits
Signed(w) == IF w < 2^(WordBits - 1) THEN w ELSE w - 2^WordBits
Complement(w) == Wrap(-1 - w)

\* The bits of a word, and the operations on them.
Bits(w) == {k \in 0 .. WordBits - 1 : (w \div 2^k) % 2 = 1}
OfBits(S) == MapThenSumSet(LAMBDA k : 2^k, S)
And(v, w) == OfBits(Bits(v) \cap Bits(w))
Or(v, w) == OfBits(Bits(v) \cup Bits(w))
Xor(v, w) == OfBits((Bits(v) \cup Bits(w)) \ (Bits(v) \cap Bits(w)))

\* Shifts of an unsigned variable. The count is taken modulo the width: that
\* is what the shift instruction does with a count C++ leaves undefined, a
\* negative one or one of the width or more.
ShiftRight(w, count) == w \div 2^(count % WordBits)
ShiftLeft(w, count) == Wrap(w * 2^(count % WordBits))

-----------------------------------------------------------------------------
\* Integer unit

\* Division of C++: toward zero.
Magnitude(x) == IF x < 0 THEN -x ELSE x
Quotient(x, y) ==
  LET q == Magnitude(x) \div Magnitude(y)
  IN  IF (x < 0) = (y < 0) THEN q ELSE -q
Remainder(x, y) == x - y * Quotient(x, y)

\* dout_tmp of exec::entry as the signed int that leaves the unit; "last" is
\* the value dout_tmp had, which a division by zero leaves there. The carry
\* input add1_tmp of operations 1 and 2 is the constant 0.
ExecResult(op, a, b, last) ==
  LET x == Signed(a)
      y == Signed(b)
  IN  CASE op = 0 -> last
        [] op \in {1, 3} -> Wrap(x + y)
        [] op \in {2, 4} -> Wrap(x - y)
        [] op = 5 -> Wrap(x * y)
        [] op = 6 -> IF y = 0 THEN last ELSE Wrap(Quotient(x, y))
        [] op = 7 -> Complement(And(a, b))
        [] op = 8 -> And(a, b)
        [] op = 9 -> Or(a, b)
        [] op = 10 -> Xor(a, b)
        [] op = 11 -> Complement(a)
        [] op = 14 -> Wrap(Remainder(x, y))

\* The one quotient that is not an int. It has no value in C++, nor has a
\* division by zero; the processor's instruction traps on both.
Overflows(a, b) == Signed(a) = -(2^(WordBits - 1)) /\ Signed(b) = -1

\* Only the modulo divides without a look at its divisor.
ExecTrapsToo(op, a, b) == op \in {6, 14} /\ (b = 0 \/ Overflows(a, b))
ExecTraps(op, a, b) == \/ op = 14 /\ b = 0
                       \/ op \in {6, 14} /\ Overflows(a, b)

-----------------------------------------------------------------------------
\* Packed unit

LaneMod == 2^LaneBits
Lane(w, k) == (w \div LaneMod^k) % LaneMod

\* The lanes put together with |: lanes 1 to 3 are masked to their place and
\* lane 0 is or-ed in as it is.
Packed(c) ==
  Or(Wrap(c[0]), (c[1] % LaneMod) * LaneMod + (c[2] % LaneMod) * LaneMod^2
                   + (c[3] % LaneMod) * LaneMod^3)

Saturated(x) == IF x >= LaneMod THEN LaneMod - 1 ELSE x
Floored(x) == IF x < 0 THEN 0 ELSE x

\* dout_tmp of mmxu::entry. The products of PMADD saturate one by one, their
\* sums again, and take the two halves of the word.
MmxResult(op, a, b) ==
  LET x == [k \in 0 .. 3 |-> Lane(a, k)]
      y == [k \in 0 .. 3 |-> Lane(b, k)]
      Product(k) == Saturated(x[k] * y[k])
  IN  CASE op = 3 -> Packed([k \in 0 .. 3 |-> x[k] + y[k]])
        [] op = 4 -> Packed([k \in 0 .. 3 |-> Saturated(x[k] + y[k])])
        [] op = 5 -> Packed([k \in 0 .. 3 |-> x[k] - y[k]])
        [] op = 6 -> Packed([k \in 0 .. 3 |-> Floored(x[k] - y[k])])
        [] op = 7 -> Saturated(Product(3) + Product(2)) * LaneMod^2
                       + Saturated(Product(1) + Product(0))
        [] op = 8 -> Packed([k \in 0 .. 3 |-> IF k < 2 THEN x[2 * k] ELSE y[2 * k - 4]])
        [] op = 9 -> Packed([k \in 0 .. 3 |-> IF x[k] = y[k] THEN LaneMod - 1 ELSE 0])

-----------------------------------------------------------------------------
\* Floating point unit

SignOf(w) == w \div 2^(WordBits - 1)
Exponent(w) == (w \div 2^FracBits) % 2^ExpBits
Fraction(w) == w % 2^FracBits

\* The operands aligned: when a's exponent is not the greater one a's fraction
\* is shifted by the difference, which is then zero or negative.
Aligned(a, b) ==
  LET diff == Exponent(a) - Exponent(b)
  IN  IF diff > 0
      THEN [ma |-> Fraction(a), mb |-> ShiftRight(Fraction(b), diff), exp |-> Exponent(a)]
      ELSE [ma |-> ShiftRight(Fraction(a), diff), mb |-> Fraction(b), exp |-> Exponent(b)]

FloatTraps(op, a, b) == op = 6 /\ Aligned(a, b).mb = 0

\* dout_tmp of floating::entry: what the fractions give, shifted left by, and
\* the exponent increased by, the number their overflow bits spell.
FloatResult(op, a, b) ==
  LET m == Aligned(a, b)
      significant == CASE op = 3 -> Wrap(m.ma + m.mb)
                       [] op = 4 -> Wrap(m.ma - m.mb)
                       [] op = 5 -> Wrap(m.ma * m.mb)
                       [] op = 6 -> m.ma \div m.mb
      overflow == significant \div 2^FracBits
      exp == (IF op = 5 THEN 2 * m.exp ELSE m.exp) + overflow
  IN  (ShiftLeft(significant, overflow) % 2^FracBits)
        + (exp % 2^ExpBits) * 2^FracBits + SignOf(a) * 2^(WordBits - 1)

-----------------------------------------------------------------------------
\* From words each unit makes a word, by each of the operations that decode asks it for.
UnitsComputeWords ==
  /\ 2^WordBits \in Nat \ {0}
  /\ \A a, b \in Word :
        /\ \A op \in (1 .. 11) \cup {14} : ~ExecTraps(op, a, b) => ExecResult(op, a, b, 0) \in Word
        /\ \A op \in 3 .. 6 : ~FloatTraps(op, a, b) => FloatResult(op, a, b) \in Word
        /\ \A op \in 3 .. 9 : MmxResult(op, a, b) \in Word
=============================================================================
