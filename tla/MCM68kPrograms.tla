--------------------------- MODULE MCM68kPrograms ---------------------------
(***************************************************************************)
(* The vocabulary the model-checked kernels are written in.  A kernel is a *)
(* sequence of indices into it (MCProgram), or its guest words (MCWords).  *)
(***************************************************************************)
EXTENDS M68kElide, M68kAsm, SequencesExt

\* One or two instances of every instruction the assembler emits.
Vocabulary == <<
    MOVEQ(0, 0), MOVEQ(1, 128), MOVE_L_IMM_DN(0, 65535), MOVE_W_IMM_DN(1, 128),
    MOVEA_L_IMM(5, 34), MOVE_L_DD(0, 1), MOVE_L_ANP_DN(0, 5), MOVE_L_DN_ANP(5, 1),
    MOVE_L_D16_DN(0, 5, 4), MOVE_L_DN_D16(5, 4, 1), MOVE_W_D16_DN(0, 5, 2),
    MOVE_W_DN_D16(5, 2, 1), MOVE_B_D16_DN(0, 5, 3), MOVE_B_DN_D16(5, 3, 1),
    MOVE_L_D16_DN(0, 5, 28),
    ADD_L_DD(1, 0), SUB_L_DD(0, 1), CMP_L_DD(0, 1), EOR_L_DD(0, 1), AND_L_DD(1, 0),
    OR_L_DD(0, 1), ADDQ_L_DN(8, 1), ADDQ_L_AN(2, 5), SUBQ_L_DN(1, 0),
    CMPI_L_DN(32768, 1), TST_L_DN(1), TST_W_DN(1), TST_B_DN(1),
    LSL_L(8, 1), LSR_L(1, 1), LEA_D16(6, 5, -2), NOP,
    BRA_B(2), BCC_B(4, 2), BCC_B(5, 2), BCC_B(6, 2), BCC_B(7, 2), BCC_B(10, 2),
    BCC_B(11, 2), BCC_B(12, 2), BCC_B(13, 2), BCC_B(15, 2), DBRA(0, 2),
    Ins(24834, <<>>),  \* bsr.s, outside the subset
    MOVEQ(1, 255), BCC_B(14, 2), SUBQ_L_DN(1, 1), BRA_B(-6)>>

\* A guest word w stands for the opcode of instruction w of the vocabulary.
MCOpcodeOf ==
    [w \in 0..(WordMod - 1) |->
        IF w \in DOMAIN Vocabulary THEN Vocabulary[w].op ELSE 0]
Words(w) == <<w>> \o Vocabulary[w].ext

MCProgram(k) == FlattenSeq([i \in DOMAIN k |-> Words(k[i])])
MCData == [i \in 1..32 |-> (5 * i + 7) % ByteMod]
NI == Len(Vocabulary)

\* The words of a list of instructions whose opcodes are in the vocabulary.
WordOf(op) == CHOOSE w \in 1..NI : Vocabulary[w].op = op
Code(is) == FlattenSeq([k \in DOMAIN is |-> <<WordOf(is[k].op)>> \o is[k].ext])
MCWords(k) == k

\* As in emit_kernel_stress, a branch that skips one word is followed by an
\* instruction of one word, and the branch back stays at the end.
SkipsOne(w) == Vocabulary[w].op \div 4096 = 6
WellFormed(b) ==
    /\ \A i \in DOMAIN b : b[i] # NI
    /\ \A i \in 1..(Len(b) - 1) : SkipsOne(b[i]) => Vocabulary[b[i + 1]].ext = <<>>
    /\ Len(MCProgram(b)) < 7
=============================================================================
