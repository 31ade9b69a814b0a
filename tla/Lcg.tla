-------------------------------- MODULE Lcg --------------------------------
(***************************************************************************)
(* lcg() of both bench_main.c files, the generator of the read window and  *)
(* of the random streams.  A uint32_t is a record of its 16-bit halves, so *)
(* that TLC computes the real sequence in 32-bit integers.                 *)
(***************************************************************************)
EXTENDS Integers

U32(hi, lo) == [hi |-> hi, lo |-> lo]

\* s * 1664525 + 1013904223; the multiplier is 25 * 2^16 + 26125.
lcg(s) ==
    LET low == s.lo * 26125 + \hF35F
    IN U32((s.hi * 26125 + s.lo * 25 + \h3C6E + low \div 65536) % 65536, low % 65536)

\* r >> k, for 2 <= k; r % k; bit k of r.
Shr(r, k) == IF k >= 16 THEN r.hi \div 2^(k - 16) ELSE r.hi * 2^(16 - k) + r.lo \div 2^k
Mod(r, k) == ((r.hi % k) * (65536 % k) + r.lo) % k
Bit(r, k) == Shr(r, k) % 2

\* The seed after k draws.
After(seed, k) == LET f[j \in 0..k] == IF j = 0 THEN seed ELSE lcg(f[j - 1]) IN f[k]
=============================================================================
