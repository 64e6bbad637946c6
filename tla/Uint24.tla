------------------------------- MODULE Uint24 -------------------------------
(***************************************************************************)
(* The unsigned integers of three bytes (types/uint24_t.cpp) in which the  *)
(* protocol counts fragments, and their two byte orders.                   *)
(*                                                                         *)
(* The arithmetic of the code is that of uint32_t with the highest byte    *)
(* cut off; 2^32 is a multiple of 2^24, so only the second wrap shows.     *)
(***************************************************************************)
EXTENDS Integers

CONSTANT Base    \* how many values a byte has: 256

ASSUME BaseAssumption == Base \in Nat /\ Base > 1

Modulus == Base * Base * Base
Values  == 0..(Modulus - 1)
Byte    == 0..(Base - 1)

\* A number cut to three bytes, as the constructor does.
Wrap(v) == v % Modulus

Plus(u, v)   == Wrap(u + v)
Minus(u, v)  == Wrap(u - v)
Over(u, v)   == u \div v
Rest(u, v)   == u % v
Increment(u) == Plus(u, 1)
Decrement(u) == Minus(u, 1)

\* The byte that counts most, the middle one, and the one that counts least.
High(v)   == v \div (Base * Base)
Middle(v) == (v \div Base) % Base
Low(v)    == v % Base

OfBytes(high, middle, low) == high * Base * Base + middle * Base + low

\* The outer bytes change places; a host that stores the low byte first sends
\* the high byte first.
hton24(host) == LET v == Wrap(host) IN OfBytes(Low(v), Middle(v), High(v))
ntoh24(net)  == LET v == Wrap(net)  IN OfBytes(Low(v), Middle(v), High(v))
=============================================================================
