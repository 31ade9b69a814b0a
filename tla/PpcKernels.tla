----------------------------- MODULE PpcKernels -----------------------------
(***************************************************************************)
(* The three benchmark kernels of ppc/bench_main.c, as the instructions    *)
(* the emitters write one after the other.  The addresses and the window   *)
(* sizes are parameters; the instructions are the code's.                  *)
(***************************************************************************)
EXTENDS PpcAsm, Lcg

CONSTANTS
    WindowBase,   \* DATA_BASE: 0x100000
    STORE_BASE,   \* 0x180000
    WrapMask,     \* 0x3FFC: the index wrap of the streaming kernel
    Offsets,      \* 0x800: the stress kernel's offsets are words below it
    STREAM_LEN    \* instructions in the random straight-line stream (16384)

\* A backward branch over the last `k` instructions.
Back(k) == -4 * k

emit_kernel_alu == <<
    E_ADDIS(4, 0, \h1234), E_ORI(4, 4, \h5678), E_ADDI(5, 0, 0),
    E_ADDIS(7, 0, \h7FFF), E_ORI(7, 7, \hFFFF), E_MTCTR(7),
    \* loop:
    E_ADD(5, 5, 4), E_RLWINM(8, 5, 7, 0, 31), E_XOR(5, 5, 8), E_ADDI(4, 4, 3),
    E_ADD_RC(9, 5, 4), E_BC(12, 0, 8), E_SUBF(5, 4, 5), E_MULLI(10, 4, 13),
    E_XOR(5, 5, 10), E_BDNZ(Back(9))>>

\* The base registers of the two windows.
ReadBase  == E_ADDIS(20, 0, WindowBase \div WordMod)
\* Mutant: the write base is taken from the wrong half of the address.
MutWriteBase == E_ADDIS(21, 0, STORE_BASE % WordMod)
WriteBase == E_ADDIS(21, 0, STORE_BASE \div WordMod)

emit_kernel_mem == <<
    ReadBase, WriteBase, E_ADDI(3, 0, 0), E_ADDI(4, 0, 0),
    E_ADDIS(7, 0, \h7FFF), E_ORI(7, 7, \hFFFF), E_MTCTR(7),
    \* loop:
    E_LWZX(6, 20, 3), E_ADD(4, 4, 6), E_STWX(4, 21, 3), E_LBZX(8, 20, 3),
    E_XOR(4, 4, 8), E_ADDI(3, 3, 4), E_ANDI_RC(3, 3, WrapMask), E_BDNZ(Back(7))>>
----------------------------------------------------------------------------
\* The instruction a draw picks.
Picked(r) ==
  LET rd == 3 + (Shr(r, 8) % 10)
      ra == 3 + (Shr(r, 12) % 10)
      rb == 3 + (Shr(r, 16) % 10)
      off == Aligned(Shr(r, 20) % Offsets)
      pick == Mod(r, 100)
  IN CASE pick \in 0..7   -> E_ADD(rd, ra, rb)
       [] pick \in 8..13  -> E_SUBF(rd, ra, rb)
       [] pick \in 14..19 -> E_XOR(rd, ra, rb)
       [] pick \in 20..23 -> E_OR(rd, ra, rb)
       [] pick \in 24..27 -> E_AND(rd, ra, rb)
       [] pick \in 28..35 -> E_RLWINM(rd, ra, Shr(r, 3) % 32, Shr(r, 26) % 32, 31)
       [] pick \in 36..43 -> E_ADDI(rd, ra, (r.lo % 256) - 128)
       [] pick \in 44..47 -> E_ADDIS(rd, ra, 1)
       [] pick \in 48..51 -> E_MULLI(rd, ra, 13)
       [] pick \in 52..55 -> E_MULLW(rd, ra, rb)
       [] pick \in 56..60 -> E_SRAWI(rd, ra, Shr(r, 3) % 32)
       [] pick \in 61..67 -> E_LWZ(rd, 20, off)
       [] pick \in 68..71 -> E_LHZ(rd, 20, off)
       [] pick \in 72..75 -> E_LBZ(rd, 20, off)
       [] pick \in 76..81 -> E_STW(rd, 21, off)
       [] pick \in 82..84 -> E_STH(rd, 21, off)
       [] pick \in 85..87 -> E_STB(rd, 21, off)
       [] pick \in 88..93 -> E_CMPWI(7, ra, (r.lo % 32768) - 16384)
       [] pick \in 94..99 ->
             E_BC(IF Bit(r, 5) = 1 THEN 12 ELSE 4, 28 + (Shr(r, 6) % 4), 8)

\* Instruction of the stress stream for draw r; the last one is no branch.
\* Mutant: nothing is special about the last one.
MutStressInsn(r, last) == Picked(r)
StressInsn(r, last) ==
    IF last /\ Mod(r, 100) >= 94
    THEN E_ADD(3 + (Shr(r, 8) % 10), 3 + (Shr(r, 12) % 10), 3 + (Shr(r, 16) % 10))
    ELSE Picked(r)

\* Seeding of r3..r12, which takes the first ten draws.
Seeding(seed) ==
    [j \in 1..20 |->
        LET r == 3 + ((j - 1) \div 2)
            v == After(seed, r - 2)
        IN IF j % 2 = 1 THEN E_ADDIS(r, 0, v.hi) ELSE E_ORI(r, r, v.lo)]

emit_kernel_stress(seed) ==
    Seeding(seed) \o <<ReadBase, WriteBase>>
    \o [i \in 1..STREAM_LEN |-> StressInsn(After(seed, 10 + i), i = STREAM_LEN)]
    \o <<E_B(Back(STREAM_LEN))>>

\* The 64 KB read window is filled from seed 0xDEADBEEF: its first words.
WindowWord(j) == After(U32(\hDEAD, \hBEEF), j)
=============================================================================
