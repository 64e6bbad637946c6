----------------------------- MODULE JoinProofs -----------------------------
(***************************************************************************)
(* Putting a message together gives what was cut: the fragments of a       *)
(* buffer, in the order of their numbers, are the buffer, for all lengths  *)
(* and fragment sizes whose count fits its three bytes.                    *)
(*                                                                         *)
(* FlattenSeq is recursive, so this needs an induction.  The induction     *)
(* theorems of the library speak of an operator; the one below speaks of a *)
(* set instead, and follows from the well-foundedness of <.                *)
(***************************************************************************)
EXTENDS Files, Uint24Proofs, FiniteSetTheorems, FunctionTheorems

LEMMA LessIsWellFounded == IsWellFoundedOn({ss \in Nat \X Nat : ss[1] < ss[2]}, Nat)
<1>1. OpToRel(<, Nat) = {ss \in Nat \X Nat : ss[1] < ss[2]}
  BY DEF OpToRel
<1> QED
  BY <1>1, NatLessThanWellFounded

\* A set that holds zero, and with every number the next, holds all numbers.
LEMMA SetInduction ==
    ASSUME NEW S, 0 \in S, \A n \in Nat : n \in S => n + 1 \in S
    PROVE  Nat \subseteq S
<1> DEFINE Less == {ss \in Nat \X Nat : ss[1] < ss[2]}
           T    == Nat \ S
<1> SUFFICES ASSUME T # {} PROVE FALSE
  OBVIOUS
<1>1. T \subseteq Nat /\ IsWellFoundedOn(Less, Nat)
  BY LessIsWellFounded
<1>2. PICK x \in T : \A y \in T : <<y, x>> \notin Less
  <2> HIDE DEF T, Less
  <2> QED
    BY <1>1, WFMin
<1>3. x \in Nat /\ x # 0 /\ x - 1 \in Nat /\ x - 1 < x
  OBVIOUS
<1>4. x - 1 \in T
  BY <1>3
<1>5. <<x - 1, x>> \in Less
  <2> DEFINE p == <<x - 1, x>>
  <2>1. p \in Nat \X Nat /\ p[1] = x - 1 /\ p[2] = x
    BY <1>3
  <2> HIDE DEF p
  <2>2. p \in Less
    BY <1>3, <2>1
  <2> QED
    BY <2>2 DEF p
<1> QED
  BY <1>2, <1>4, <1>5

\* Whatever meets the equation of FlattenSeq's recursion is what it computes.
Extended(f, s, i) == f[i - 1] \o s[i]

LEMMA FlattenedBy ==
    ASSUME NEW s, NEW n \in Nat \ {0}, Len(s) = n,
           NEW f, f[1] = s[1], \A i \in 2..n : f[i] = Extended(f, s, i)
    PROVE  FlattenSeq(s) = f[n]
<1> DEFINE E(h) == [i \in 1..n |-> IF i = 1 THEN s[i] ELSE Extended(h, s, i)]
           g == CHOOSE h : h = E(h)
           k == [i \in 1..n |-> f[i]]
<1>1. FlattenSeq(s) = g[n]
  BY DEF FlattenSeq, Extended
<1>2. k = E(k)
  <2>1. ASSUME NEW i \in 1..n
        PROVE  k[i] = IF i = 1 THEN s[i] ELSE Extended(k, s, i)
    <3>1. CASE i = 1
      BY <3>1
    <3>2. CASE i # 1
      <4>1. i \in 2..n /\ k[i - 1] = f[i - 1]
        BY <3>2
      <4>2. Extended(k, s, i) = Extended(f, s, i)
        BY <4>1, Zenon DEF Extended
      <4> QED
        BY <3>2, <4>1, <4>2
    <3> QED
      BY <3>1, <3>2
  <2>2. k = [i \in 1..n |-> k[i]]
    OBVIOUS
  <2> QED
    BY <2>1, <2>2
<1>3. g = E(g)
  <2> HIDE DEF E, k
  <2> QED
    BY <1>2, Zenon
<1>4. g[1] = s[1] /\ \A i \in 2..n : g[i] = Extended(g, s, i)
  <2> HIDE DEF g
  <2> QED
    BY <1>3
<1> HIDE DEF g, E
<1> DEFINE Same == {i \in Nat : i \in 1..n => g[i] = f[i]}
<1>5. 0 \in Same
  OBVIOUS
<1>6. ASSUME NEW i \in Nat, i \in Same PROVE i + 1 \in Same
  <2> SUFFICES ASSUME i + 1 \in 1..n PROVE g[i + 1] = f[i + 1]
    OBVIOUS
  <2> DEFINE j == i + 1
  <2>1. (j = 1 \/ j \in 2..n) /\ j - 1 = i /\ (j # 1 => i \in 1..n)
    OBVIOUS
  <2> HIDE DEF j
  <2>2. j # 1 => Extended(g, s, j) = Extended(f, s, j)
    BY <1>6, <2>1, Zenon DEF Extended
  <2>3. g[j] = f[j]
    BY <1>4, <2>1, <2>2
  <2> QED
    BY <2>3 DEF j
<1>7. n \in Same
  <2> HIDE DEF Same
  <2> QED
    BY <1>5, <1>6, SetInduction
<1> QED
  BY <1>1, <1>7

-----------------------------------------------------------------------------
(* Fragments have the numbers from one on, so their order is that of numbers. *)

UpTo(part, c) == {part[i] : i \in 1..c}

LEMMA CountOfNumbered ==
    ASSUME NEW part, NEW c \in Nat, \A i \in 1..c : part[i].seq = i
    PROVE  IsFiniteSet(UpTo(part, c)) /\ Cardinality(UpTo(part, c)) = c
<1> DEFINE R == UpTo(part, c)
           f == [i \in 1..c |-> part[i]]
<1>1. IsFiniteSet(1..c) /\ Cardinality(1..c) = c
  <2>1. IsFiniteSet(1..c) /\ Cardinality(1..c) = IF 1 > c THEN 0 ELSE c - 1 + 1
    BY FS_Interval
  <2> QED
    BY <2>1
<1>2. f \in Bijection(1..c, R)
  <2>1. f \in [1..c -> R] /\ \A q \in R : \E i \in 1..c : f[i] = q
    BY DEF UpTo
  <2>2. ASSUME NEW i \in 1..c, NEW j \in 1..c, f[i] = f[j] PROVE i = j
    BY <2>2
  <2> HIDE DEF f, R
  <2> QED
    BY <2>1, <2>2 DEF Bijection, Injection, Surjection, IsInjective
<1>3. ExistsBijection(1..c, R)
  <2> HIDE DEF f, R
  <2> QED
    BY <1>2 DEF ExistsBijection
<1> HIDE DEF R
<1>4. IsFiniteSet(R) /\ Cardinality(R) = Cardinality(1..c)
  BY <1>1, <1>3, FS_Bijection
<1> QED
  BY <1>1, <1>4 DEF R

LEMMA NumberedFragment ==
    ASSUME NEW part, NEW c \in Nat, \A i \in 1..c : part[i].seq = i, NEW n \in 1..c
    PROVE  Numbered(UpTo(part, c), n) = part[n]
<1> DEFINE R == UpTo(part, c)
           below(p) == {q \in R : q.seq <= p.seq}
<1>1. ASSUME NEW j \in 1..c PROVE Cardinality(below(part[j])) = j
  <2>1. below(part[j]) = UpTo(part, j)
    BY DEF UpTo
  <2>2. Cardinality(UpTo(part, j)) = j
    BY CountOfNumbered
  <2> QED
    BY <2>1, <2>2
<1>2. part[n] \in R /\ Cardinality(below(part[n])) = n
  BY <1>1 DEF UpTo
<1>3. \A p \in R : Cardinality(below(p)) = n => p = part[n]
  BY <1>1 DEF UpTo
<1> DEFINE z == CHOOSE p \in R : Cardinality(below(p)) = n
<1>4. z = part[n]
  <2> HIDE DEF R, below
  <2> QED
    BY <1>2, <1>3
<1> QED
  BY <1>4 DEF Numbered

-----------------------------------------------------------------------------
(* The buffer put together *)

LEMMA SubSeqJoins ==
    ASSUME NEW b \in Seq(Nat), NEW x \in Nat, NEW y \in Nat, x <= y, y <= Len(b)
    PROVE  SubSeq(b, 1, x) \o SubSeq(b, x + 1, y) = SubSeq(b, 1, y)
  BY SMT

LEMMA CountInRange ==
    ASSUME NEW len \in Nat, NEW m \in Nat \ {0}
    PROVE  Count(len, m) \in Values /\ (len + m - 1) \div m \in Nat
<1>1. len + m - 1 \in Nat
  OBVIOUS
<1>2. (len + m - 1) \div m \in Nat
  BY <1>1, RemainderBounded
<1> QED
  BY <1>2, WrapInRange DEF Count

\* How many fragments a buffer has: the last one holds its last byte.
LEMMA CountCovers ==
    ASSUME NEW len \in Nat, NEW m \in Nat \ {0}, len > m,
           (len + m - 1) \div m < Modulus
    PROVE  LET c == Count(len, m) IN
           /\ c = (len + m - 1) \div m /\ c \in Nat /\ c > 1 /\ c < Modulus
           /\ (c - 1) * m < len /\ len <= c * m
<1> DEFINE q == (len + m - 1) \div m
           r == (len + m - 1) % m
<1>1. len + m - 1 = q * m + r /\ q \in Int /\ r \in 0..(m - 1)
  BY DivisionInRange
<1> HIDE DEF q, r
<1>2. (q - 1) * m = q * m - m
  BY <1>1, SMT
<1>3. (q - 1) * m < len /\ len <= q * m
  BY <1>1, <1>2, SMT
<1>4. q > 1
  <2>1. SUFFICES ASSUME q <= 1 PROVE FALSE
    BY <1>1, SMT
  <2>2. q * m <= 1 * m
    BY <1>1, <2>1, SMT
  <2>3. q * m \in Int /\ 1 * m = m
    BY <1>1
  <2> DEFINE x == q * m
  <2> HIDE DEF x
  <2> QED
    BY <1>3, <2>2, <2>3 DEF x
<1>5. q \in Values /\ q < Modulus
  BY <1>1, <1>4, ModulusPositive DEF Values, q
<1>6. Count(len, m) = q
  BY <1>5, WrapOfValue DEF Count, q
<1> QED
  BY <1>1, <1>3, <1>4, <1>5, <1>6 DEF q

\* The fragments of a buffer, put together, are the buffer (node.cpp:1300-1316,
\* 446-502).
THEOREM JoinedWhole ==
    ASSUME NEW k, NEW kind, NEW bytes \in Seq(Nat), NEW m \in Nat \ {0},
           Len(bytes) > m, (Len(bytes) + m - 1) \div m < Modulus
    PROVE  Joined(Fragments(k, kind, bytes, m)) = bytes
<1> DEFINE len == Len(bytes)
           c == Count(len, m)
           part == [i \in 1..c |->
                      [seq |-> i, form |-> IF i = c THEN "last" ELSE "more",
                       kind |-> kind, payload |-> Fragment(bytes, i, m), msg |-> k]]
           R == UpTo(part, c)
           f == [i \in 1..c |-> SubSeq(bytes, 1, Min2(i * m, len))]
           s == [i \in 1..c |-> Fragment(bytes, i, m)]
<1>1. len \in Nat
  OBVIOUS
<1>2. /\ c \in Nat /\ c > 1 /\ (c - 1) * m < len /\ len <= c * m
  BY <1>1, CountCovers
<1>3. Fragments(k, kind, bytes, m) = R
  BY <1>1 DEF Fragments, UpTo
<1> HIDE DEF c
<1>4. \A i \in 1..c : part[i].seq = i /\ part[i].payload = s[i]
  OBVIOUS
<1>5. Cardinality(R) = c /\ \A i \in 1..c : Numbered(R, i) = part[i]
  <2> HIDE DEF part
  <2> QED
    BY <1>2, <1>4, CountOfNumbered, NumberedFragment
<1>6. [i \in 1..Cardinality(R) |-> Numbered(R, i).payload] = s
  <2> HIDE DEF part, R
  <2>1. [i \in 1..c |-> Numbered(R, i).payload] = [i \in 1..c |-> Fragment(bytes, i, m)]
    BY <1>4, <1>5
  <2> QED
    BY <1>5, <2>1
<1>7. f[1] = s[1] /\ \A i \in 2..c : f[i] = Extended(f, s, i)
  <2>1. f[1] = s[1]
    <3>1. (1 - 1) * m + 1 = 1
      BY SMT
    <3>2. Fragment(bytes, 1, m) = SubSeq(bytes, 1, Min2(1 * m, len))
      BY <3>1, Zenon DEF Fragment
    <3> QED
      <4>1. 1 \in 1..c
        BY <1>2
      <4> QED
        BY <3>2, <4>1, Zenon
  <2>2. ASSUME NEW i \in 2..c PROVE f[i] = Extended(f, s, i)
    <3> DEFINE x == (i - 1) * m
               y == Min2(i * m, len)
    <3>1. i \in 1..c /\ i - 1 \in 1..c /\ i * m = x + m /\ x \in Nat /\ i * m \in Nat
      BY <1>2, SMT
    <3>2. x <= (c - 1) * m
      BY <1>2, SMT
    <3>3. x < len
      <4>1. (c - 1) * m \in Int
        BY <1>2
      <4> HIDE DEF x
      <4> QED
        BY <1>1, <1>2, <3>1, <3>2, <4>1
    <3>4. Min2((i - 1) * m, len) = x
      BY <1>1, <3>1, <3>3 DEF Min2
    <3>5. y \in Nat /\ x <= y /\ y <= len
      <4> HIDE DEF x
      <4> QED
        BY <1>1, <3>1, <3>3 DEF Min2
    <3>6. SubSeq(bytes, 1, x) \o SubSeq(bytes, x + 1, y) = SubSeq(bytes, 1, y)
      <4> HIDE DEF x, y
      <4> QED
        BY <3>1, <3>5, SubSeqJoins
    <3>7. s[i] = SubSeq(bytes, x + 1, y)
      BY <3>1, Zenon DEF Fragment
    <3>8. f[i - 1] = SubSeq(bytes, 1, Min2((i - 1) * m, len)) /\ f[i] = SubSeq(bytes, 1, y)
      BY <3>1, Zenon
    <3> HIDE DEF x, y, f, s
    <3> QED
      BY <3>4, <3>6, <3>7, <3>8, Zenon DEF Extended
  <2> QED
    BY <2>1, <2>2
<1>8. f[c] = bytes
  <2>1. Min2(c * m, len) = len
    BY <1>1, <1>2 DEF Min2
  <2>2. SubSeq(bytes, 1, len) = bytes
    BY SMT
  <2> QED
    BY <1>2, <2>1, <2>2
<1>9. Len(s) = c /\ c \in Nat \ {0}
  BY <1>2
<1>10. FlattenSeq(s) = f[c]
  <2> HIDE DEF f, s
  <2> QED
    BY <1>7, <1>9, FlattenedBy
<1> HIDE DEF R, s, f, part
<1> QED
  BY <1>3, <1>6, <1>8, <1>10 DEF Joined
=============================================================================
