---------------------------- MODULE Uint24Proofs ----------------------------
(***************************************************************************)
(* What the arithmetic of Uint24 guarantees, whatever the width of a byte: *)
(* nothing leaves the range, sums and differences undo each other, and the *)
(* two byte orders are each other's inverse.                               *)
(***************************************************************************)
EXTENDS Uint24, TLAPS

\* Quotient and remainder are the numbers a division is made up of.
LEMMA DivMod ==
    ASSUME NEW d \in Nat, d > 0, NEW q \in Int, NEW r \in 0..(d - 1)
    PROVE  (q * d + r) \div d = q /\ (q * d + r) % d = r
  BY SMT

LEMMA SmallRemainder ==
    ASSUME NEW d \in Nat, d > 0, NEW v \in 0..(d - 1)
    PROVE  v % d = v
<1>1. (0 * d + v) % d = v  BY DivMod
<1> QED  BY <1>1, SMT

LEMMA DivisionInRange ==
    ASSUME NEW d \in Nat, d > 0, NEW v \in Int
    PROVE  v = (v \div d) * d + (v % d) /\ v \div d \in Int /\ v % d \in 0..(d - 1)
  BY SMT

LEMMA QuotientInRange ==
    ASSUME NEW c \in Nat, NEW d \in Nat, d > 0, NEW v \in Nat, v < c * d
    PROVE  v \div d \in 0..(c - 1)
<1> DEFINE q == v \div d
           r == v % d
<1>1. v = q * d + r /\ q \in Int /\ r \in 0..(d - 1)  BY DivisionInRange
<1>2. q >= 0  BY SMT
<1> HIDE DEF q, r
<1>3. ASSUME q >= c PROVE FALSE
  <2>1. q * d >= c * d  BY <1>1, <1>3, SMT
  <2> QED  BY <1>1, <2>1, SMT
<1>4. q \in 0..(c - 1)  BY <1>1, <1>2, <1>3, SMT
<1> QED  BY <1>4 DEF q

\* Three digits in two groupings, and written out.
LEMMA RemainderBounded ==
    ASSUME NEW d \in Nat \ {0}, NEW v \in Nat
    PROVE  v % d \in Nat /\ v % d < d /\ v % d <= v /\ v \div d \in Nat
<1> DEFINE q == v \div d
           r == v % d
<1>1. v = q * d + r /\ q \in Int /\ r \in 0..(d - 1)  BY DivisionInRange
<1> HIDE DEF q, r
<1>2. q >= 0
  <2>1. SUFFICES ASSUME q <= -1 PROVE FALSE  BY <1>1
  <2>2. q * d <= (-1) * d  BY <1>1, <2>1, SMT
  <2>3. (-1) * d = -d  BY SMT
  <2> DEFINE x == q * d
  <2>4. x <= -d /\ v = x + r /\ x \in Int  BY <1>1, <2>2, <2>3
  <2> HIDE DEF x
  <2> QED  BY <1>1, <2>4
<1>3. q * d >= 0  BY <1>1, <1>2, SMT
<1>4. r \in Nat /\ r < d /\ r <= v
  <2> DEFINE x == q * d
  <2>1. x >= 0 /\ v = x + r /\ x \in Int  BY <1>1, <1>3
  <2> HIDE DEF x
  <2> QED  BY <1>1, <2>1
<1> QED  BY <1>1, <1>2, <1>4 DEF q, r

LEMMA Regroup ==
    ASSUME NEW b \in Int, NEW x \in Int, NEW y \in Int, NEW z \in Int
    PROVE  /\ (x * b + y) * b + z = x * (b * b) + (y * b + z)
           /\ (x * b + y) * b + z = x * b * b + y * b + z
  BY SMT

LEMMA ModulusPositive == Modulus \in Nat /\ Modulus > Base
<1>1. Base * Base > Base  BY BaseAssumption, SMT
<1>2. Base * Base * Base > Base * Base  BY BaseAssumption, <1>1, SMT
<1> QED  BY <1>1, <1>2, BaseAssumption, SMT DEF Modulus

\* Whatever the operands, a result is a number of three bytes: no counter of
\* fragments can hold one that a packet could not carry (uint24_t.cpp:9-63).
THEOREM ResultsFit ==
    ASSUME NEW u \in Values, NEW v \in Nat
    PROVE  /\ Wrap(v) \in Values
           /\ Plus(u, v) \in Values /\ Minus(u, v) \in Values
           /\ v > 0 => Over(u, v) \in Values /\ Rest(u, v) \in Values
<1>1. \A w \in Int : Wrap(w) \in Values
  <2> TAKE w \in Int
  <2> QED  BY ModulusPositive, DivisionInRange, BaseAssumption, SMT DEF Wrap, Values
<1>2. u \in Int /\ u + v \in Int /\ u - v \in Int
  BY ModulusPositive DEF Values
<1>3. ASSUME v > 0 PROVE Over(u, v) \in Values /\ Rest(u, v) \in Values
  <2>1. u \in Nat /\ u < Modulus  BY ModulusPositive, SMT DEF Values
  <2>2. u \div v \in 0..u  BY <1>3, <2>1, SMT
  <2>3. u % v \in 0..u  BY <1>3, <2>1, SMT
  <2> QED  BY <2>1, <2>2, <2>3, ModulusPositive, SMT DEF Over, Rest, Values
<1> QED  BY <1>1, <1>2, <1>3 DEF Plus, Minus

\* Going on by some fragments and back again ends where it began, across the
\* end of the range too: uint24_t behaves like a number of its own width.
THEOREM MinusUndoesPlus ==
    ASSUME NEW u \in Values, NEW v \in Nat
    PROVE  Minus(Plus(u, v), v) = u
<1>1. u \in Nat /\ u < Modulus  BY ModulusPositive, SMT DEF Values
<1> DEFINE q == (u + v) \div Modulus
           r == (u + v) % Modulus
<1>2. u + v = q * Modulus + r /\ q \in Int /\ r \in 0..(Modulus - 1)
  BY <1>1, ModulusPositive, BaseAssumption, DivisionInRange
<1>3. r - v = (-q) * Modulus + u
  BY <1>1, <1>2, ModulusPositive, SMT
<1>4. ((-q) * Modulus + u) % Modulus = u
  <2>1. -q \in Int /\ u \in 0..(Modulus - 1) /\ Modulus \in Nat /\ Modulus > 0
    BY <1>1, <1>2, ModulusPositive, BaseAssumption, SMT
  <2> QED  BY <2>1, DivMod, Zenon
<1> QED  BY <1>3, <1>4 DEF Plus, Minus, Wrap

-----------------------------------------------------------------------------
(* The bytes of a number *)

LEMMA BytesInRange ==
    ASSUME NEW v \in Values
    PROVE  High(v) \in Byte /\ Middle(v) \in Byte /\ Low(v) \in Byte
<1>1. v \in Nat /\ v < Modulus  BY ModulusPositive, SMT DEF Values
<1>2. Base * Base \in Nat /\ Base * Base > 0  BY BaseAssumption, SMT
<1>3. High(v) \in Byte
  <2>1. Base * (Base * Base) = Modulus  BY BaseAssumption, SMT DEF Modulus
  <2>2. v < Base * (Base * Base)  BY <1>1, <2>1
  <2> QED  BY <1>1, <1>2, <2>2, BaseAssumption, QuotientInRange, Zenon DEF High, Byte
<1>4. Middle(v) \in Byte
  BY <1>1, BaseAssumption, DivisionInRange DEF Middle, Byte
<1>5. Low(v) \in Byte
  BY <1>1, BaseAssumption, DivisionInRange DEF Low, Byte
<1> QED  BY <1>3, <1>4, <1>5

LEMMA NumberInRange ==
    ASSUME NEW h \in Byte, NEW m \in Byte, NEW l \in Byte
    PROVE  OfBytes(h, m, l) \in Values
<1>1. h * Base * Base <= (Base - 1) * Base * Base  BY BaseAssumption, SMT DEF Byte
<1>2. m * Base <= (Base - 1) * Base  BY BaseAssumption, SMT DEF Byte
<1>3. h * Base * Base >= 0 /\ m * Base >= 0  BY BaseAssumption, SMT DEF Byte
<1> QED  BY BaseAssumption, <1>1, <1>2, <1>3, SMT DEF OfBytes, Values, Modulus, Byte

\* The three bytes of a number are the ones it was put together from.
LEMMA BytesOfNumber ==
    ASSUME NEW h \in Byte, NEW m \in Byte, NEW l \in Byte
    PROVE  /\ High(OfBytes(h, m, l)) = h
           /\ Middle(OfBytes(h, m, l)) = m
           /\ Low(OfBytes(h, m, l)) = l
<1> DEFINE v == OfBytes(h, m, l)
<1>1. h \in Nat /\ m \in Nat /\ l \in Nat /\ Base \in Nat /\ Base > 1
  BY BaseAssumption DEF Byte
<1>2. v = (h * Base + m) * Base + l
  BY <1>1, SMT DEF OfBytes
<1>3. v \div Base = h * Base + m /\ v % Base = l
  BY <1>1, <1>2, DivMod, SMT DEF Byte
<1>4. (h * Base + m) % Base = m
  BY <1>1, DivMod, SMT DEF Byte
<1>5. m * Base <= (Base - 1) * Base
  BY <1>1, SMT DEF Byte
<1>6. v = h * (Base * Base) + (m * Base + l)
  BY <1>1, SMT DEF OfBytes
<1>7. m * Base + l \in 0..(Base * Base - 1)
  BY <1>1, <1>5, SMT DEF Byte
<1>8. Base * Base \in Nat /\ Base * Base > 0
  BY <1>1, SMT
<1>9. v \div (Base * Base) = h
  BY <1>1, <1>6, <1>7, <1>8, DivMod
<1> QED  BY <1>3, <1>4, <1>9 DEF High, Middle, Low

\* A number is what its three bytes say.
LEMMA NumberOfBytes ==
    ASSUME NEW v \in Values
    PROVE  OfBytes(High(v), Middle(v), Low(v)) = v
<1>1. v \in Nat /\ Base \in Nat /\ Base > 1  BY ModulusPositive, BaseAssumption DEF Values
<1> DEFINE w == v \div Base
<1>2. v = w * Base + Low(v) /\ w \in Int  BY <1>1, DivisionInRange DEF Low
<1>3. w = (w \div Base) * Base + Middle(v)  BY <1>1, <1>2, DivisionInRange DEF Middle
<1>4. w \div Base = High(v)
  <2>1. w \div Base \in Int /\ w % Base \in 0..(Base - 1) /\ Low(v) \in 0..(Base - 1)
    BY <1>1, <1>2, DivisionInRange DEF Low
  <2>2. w = (w \div Base) * Base + (w % Base)  BY <1>1, <1>2, DivisionInRange
  <2>3. v = (w \div Base) * (Base * Base) + ((w % Base) * Base + Low(v))
    <3> DEFINE x == w \div Base
               y == w % Base
               z == Low(v)
    <3>1. v = (x * Base + y) * Base + z  BY <1>2, <2>2
    <3>2. x \in Int /\ y \in Int /\ z \in Int /\ Base \in Int  BY <1>1, <2>1
    <3> HIDE DEF x, y, z
    <3>3. v = x * (Base * Base) + (y * Base + z)  BY <3>1, <3>2, Regroup
    <3> QED  BY <3>3 DEF x, y, z
  <2>4. (w % Base) * Base <= (Base - 1) * Base /\ (w % Base) * Base >= 0
    BY <1>1, <2>1, SMT
  <2>5. (w % Base) * Base + Low(v) \in 0..(Base * Base - 1)
    BY <1>1, <2>1, <2>4, SMT
  <2>6. Base * Base \in Nat /\ Base * Base > 0  BY <1>1, SMT
  <2> QED  BY <2>1, <2>3, <2>5, <2>6, DivMod DEF High
<1>5. Middle(v) \in Int /\ Low(v) \in Int /\ High(v) \in Int
  BY BytesInRange DEF Byte
<1>6. v = (High(v) * Base + Middle(v)) * Base + Low(v)  BY <1>2, <1>3, <1>4
<1> QED  BY <1>1, <1>5, <1>6, Regroup DEF OfBytes

LEMMA WrapOfValue == ASSUME NEW v \in Values PROVE Wrap(v) = v
<1>1. v \in Nat /\ v < Modulus  BY ModulusPositive, SMT DEF Values
<1>2. (0 * Modulus + v) % Modulus = v  BY <1>1, ModulusPositive, BaseAssumption, DivMod, SMT
<1> QED  BY <1>1, <1>2, ModulusPositive, SMT DEF Wrap

LEMMA WrapInRange == ASSUME NEW v \in Nat PROVE Wrap(v) \in Values
<1>1. Modulus \in Nat \ {0}  BY ModulusPositive, BaseAssumption
<1>2. v % Modulus \in Nat /\ v % Modulus < Modulus  BY <1>1, RemainderBounded
<1> QED  BY <1>1, <1>2 DEF Wrap, Values

\* On the wire the bytes of a number come in the opposite order (hton24,
\* uint24_t.cpp:115-124), ...
THEOREM NetworkOrder ==
    ASSUME NEW v \in Values
    PROVE  /\ hton24(v) \in Values
           /\ Low(hton24(v)) = High(v)
           /\ Middle(hton24(v)) = Middle(v)
           /\ High(hton24(v)) = Low(v)
  BY WrapOfValue, BytesInRange, NumberInRange, BytesOfNumber DEF hton24

\* ... and a sequence number that was sent is the one that is received.
THEOREM SequenceNumbersSurvive ==
    ASSUME NEW v \in Values
    PROVE  ntoh24(hton24(v)) = v
<1>1. hton24(v) \in Values /\ Wrap(hton24(v)) = hton24(v)  BY NetworkOrder, WrapOfValue
<1> QED  BY <1>1, NetworkOrder, NumberOfBytes DEF ntoh24
=============================================================================
