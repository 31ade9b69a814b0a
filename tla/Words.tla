------------------------------- MODULE Words -------------------------------
(***************************************************************************)
(* Arithmetic on the uint32_t values both interpreters compute with.  A    *)
(* long has LongBits bits (32 in the code), and everything wraps there.    *)
(***************************************************************************)
EXTENDS GuestMemory

Add(a, b) == (a + b) % LongMod
Sub(a, b) == (a - b) % LongMod

\* Bitwise operations, on the set of one bits of a long.
Ones(a) == {i \in 0..(LongBits - 1) : (a \div 2^i) % 2 = 1}
OfOnes(S) == SumFunctionOnSet([i \in 0..(LongBits - 1) |-> 2^i], S)
And(a, b) == OfOnes(Ones(a) \cap Ones(b))
Or(a, b)  == OfOnes(Ones(a) \cup Ones(b))
Eor(a, b) == OfOnes((Ones(a) \cup Ones(b)) \ (Ones(a) \cap Ones(b)))

\* Sign extension of a `mod`-sized value to a long.
SignExtend(v, mod) == (IF v >= mod \div 2 THEN v - mod ELSE v) % LongMod

Msb(r) == r >= LongMod \div 2

\* (int32_t)a
Signed(a) == IF Msb(a) THEN a - LongMod ELSE a
----------------------------------------------------------------------------
\* Shifts by a count that may reach the width, where C's 32-bit ones need a
\* guard: everything is shifted out, and the arithmetic shift fills with signs.
ShiftLeft(v, k)  == IF k >= LongBits THEN 0 ELSE (v % 2^(LongBits - k)) * 2^k
ShiftRight(v, k) == IF k >= LongBits THEN 0 ELSE v \div 2^k
ShiftArith(v, k) ==
    (Signed(v) \div 2^(IF k >= LongBits THEN LongBits - 1 ELSE k)) % LongMod

\* The low k bits of v: v & ((1 << k) - 1).
LowBits(v, k) == v % 2^(IF k >= LongBits THEN LongBits ELSE k)
=============================================================================
