------------------------------- MODULE M68kAsm -------------------------------
(***************************************************************************)
(* The mini assembler of m68k/bench_main.c: the encodings the kernels are  *)
(* made of.  An instruction is its opcode and its extension words; branch  *)
(* macros take the displacement from CIA + 2 that the code computes from   *)
(* the absolute target.                                                    *)
(***************************************************************************)
EXTENDS M68kOps

Ins(op, ext) == [op |-> op, ext |-> ext]
Two(imm) == <<imm \div WordMod, imm % WordMod>>    \* high word first
One(d)   == <<d % WordMod>>

MOVEQ(dn, imm)         == Ins(\h7000 + 512 * dn + (imm % 256), <<>>)
MOVE_L_IMM_DN(dn, imm) == Ins(\h203C + 512 * dn, Two(imm))
MOVE_W_IMM_DN(dn, imm) == Ins(\h303C + 512 * dn, One(imm))
MOVEA_L_IMM(an, imm)   == Ins(\h207C + 512 * an, Two(imm))
MOVE_L_DD(dst, src)    == Ins(\h2000 + 512 * dst + src, <<>>)
MOVE_L_ANP_DN(dn, an)  == Ins(\h2018 + 512 * dn + an, <<>>)
MOVE_L_DN_ANP(an, dn)  == Ins(\h20C0 + 512 * an + dn, <<>>)
MOVE_L_D16_DN(dn, an, d) == Ins(\h2028 + 512 * dn + an, One(d))
MOVE_L_DN_D16(an, d, dn) == Ins(\h2140 + 512 * an + dn, One(d))
MOVE_W_D16_DN(dn, an, d) == Ins(\h3028 + 512 * dn + an, One(d))
MOVE_W_DN_D16(an, d, dn) == Ins(\h3140 + 512 * an + dn, One(d))
MOVE_B_D16_DN(dn, an, d) == Ins(\h1028 + 512 * dn + an, One(d))
MOVE_B_DN_D16(an, d, dn) == Ins(\h1140 + 512 * an + dn, One(d))
ADD_L_DD(dst, src)     == Ins(\hD080 + 512 * dst + src, <<>>)
SUB_L_DD(dst, src)     == Ins(\h9080 + 512 * dst + src, <<>>)
CMP_L_DD(dn, src)      == Ins(\hB080 + 512 * dn + src, <<>>)
EOR_L_DD(dst, dn)      == Ins(\hB180 + 512 * dn + dst, <<>>)
AND_L_DD(dst, src)     == Ins(\hC080 + 512 * dst + src, <<>>)
OR_L_DD(dst, src)      == Ins(\h8080 + 512 * dst + src, <<>>)
ADDQ_L_DN(q, dn)       == Ins(\h5080 + 512 * (q % 8) + dn, <<>>)
ADDQ_L_AN(q, an)       == Ins(\h5088 + 512 * (q % 8) + an, <<>>)
SUBQ_L_DN(q, dn)       == Ins(\h5180 + 512 * (q % 8) + dn, <<>>)
CMPI_L_DN(imm, dn)     == Ins(\h0C80 + dn, Two(imm))
TST_L_DN(dn)           == Ins(\h4A80 + dn, <<>>)
TST_W_DN(dn)           == Ins(\h4A40 + dn, <<>>)
TST_B_DN(dn)           == Ins(\h4A00 + dn, <<>>)
LSL_L(q, dn)           == Ins(\hE188 + 512 * (q % 8) + dn, <<>>)
LSR_L(q, dn)           == Ins(\hE088 + 512 * (q % 8) + dn, <<>>)
LEA_D16(dst, src, d)   == Ins(\h41E8 + 512 * dst + src, One(d))
NOP                    == Ins(\h4E71, <<>>)
BRA_B(d)               == Ins(\h6000 + (d % 256), <<>>)
\* Mutant: the displacement counts from the instruction.
MutBRA_W(d)            == Ins(\h6000, One(d + 2))
BRA_W(d)               == Ins(\h6000, One(d))
BCC_B(cond, d)         == Ins(\h6000 + 256 * cond + (d % 256), <<>>)
DBRA(dn, d)            == Ins(\h51C8 + dn, One(d))
=============================================================================
