------------------------------- MODULE PpcAsm -------------------------------
(***************************************************************************)
(* The host-side mini assembler of ppc/bench_main.c: the encodings the     *)
(* kernels are made of, as the fields of the word they are packed into.    *)
(***************************************************************************)
EXTENDS PpcOps

E_D(op, d, a, imm) == [op |-> op, rd |-> d, ra |-> a, lo |-> imm % 65536]
E_ADDI(d, a, i)     == E_D(14, d, a, i)
E_ADDIS(d, a, i)    == E_D(15, d, a, i)
E_MULLI(d, a, i)    == E_D(7, d, a, i)
E_ORI(a, s, ui)     == E_D(24, s, a, ui)      \* rS in the D slot
E_ANDI_RC(a, s, ui) == E_D(28, s, a, ui)
E_CMPWI(crf, a, i)  == E_D(11, 4 * crf, a, i)
E_LWZ(d, a, off)    == E_D(32, d, a, off)
E_LHZ(d, a, off)    == E_D(40, d, a, off)
E_LBZ(d, a, off)    == E_D(34, d, a, off)
\* Mutant: base and data register change places.
MutE_STW(s, a, off) == E_D(36, a, s, off)
E_STW(s, a, off)    == E_D(36, s, a, off)
E_STH(s, a, off)    == E_D(44, s, a, off)
E_STB(s, a, off)    == E_D(38, s, a, off)

E_X(d, a, b, xo, rc) == E_D(31, d, a, 2048 * b + 2 * xo + rc)
E_ADD(d, a, b)      == E_X(d, a, b, 266, 0)
E_ADD_RC(d, a, b)   == E_X(d, a, b, 266, 1)
E_SUBF(d, a, b)     == E_X(d, a, b, 40, 0)
E_MULLW(d, a, b)    == E_X(d, a, b, 235, 0)
E_AND(a, s, b)      == E_X(s, a, b, 28, 0)
E_OR(a, s, b)       == E_X(s, a, b, 444, 0)
E_XOR(a, s, b)      == E_X(s, a, b, 316, 0)
\* Mutant: the extended opcode of srawi is off by one.
MutE_SRAWI(a, s, sh) == E_X(s, a, sh, 823, 0)
E_SRAWI(a, s, sh)   == E_X(s, a, sh, 824, 0)
E_LWZX(d, a, b)     == E_X(d, a, b, 23, 0)
E_LBZX(d, a, b)     == E_X(d, a, b, 87, 0)
E_STWX(s, a, b)     == E_X(s, a, b, 151, 0)
E_MTCTR(s)          == E_X(s, 9, 0, 467, 0)

E_RLWINM(a, s, sh, mb, me) == E_D(21, s, a, 2048 * sh + 64 * mb + 2 * me)
E_BC(bo, bi, off) == E_D(16, bo, bi, Aligned(off))
E_BDNZ(off)       == E_BC(16, 0, off)
E_B(off) ==
    LET w == Aligned(off) % 2^26
    IN E_D(18, w \div 2^21, (w \div 65536) % 32, w)
=============================================================================
