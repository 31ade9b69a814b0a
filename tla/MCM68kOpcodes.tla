--------------------------- MODULE MCM68kOpcodes ---------------------------
(***************************************************************************)
(* Every instruction form of the predecoded subset with its register       *)
(* fields varied, executed once with all sixteen registers distinct.       *)
(***************************************************************************)
EXTENDS M68kElide, M68kAsm, SequencesExt

\* The forms: an opcode with both register fields zero.  Form 1 is the zero
\* word, illegal.  The last ones vary condition, displacement and immediate.
Forms == <<0,
    MOVE_L_IMM_DN(0, 0).op, MOVE_W_IMM_DN(0, 0).op, MOVEA_L_IMM(0, 0).op,
    MOVE_L_DD(0, 0).op, MOVE_L_ANP_DN(0, 0).op, MOVE_L_DN_ANP(0, 0).op,
    MOVE_L_D16_DN(0, 0, 0).op, MOVE_L_DN_D16(0, 0, 0).op, MOVE_W_D16_DN(0, 0, 0).op,
    MOVE_W_DN_D16(0, 0, 0).op, MOVE_B_D16_DN(0, 0, 0).op, MOVE_B_DN_D16(0, 0, 0).op,
    ADD_L_DD(0, 0).op, SUB_L_DD(0, 0).op, CMP_L_DD(0, 0).op, EOR_L_DD(0, 0).op,
    AND_L_DD(0, 0).op, OR_L_DD(0, 0).op, ADDQ_L_DN(0, 0).op, ADDQ_L_AN(0, 0).op,
    SUBQ_L_DN(0, 0).op, CMPI_L_DN(0, 0).op, TST_L_DN(0).op, TST_W_DN(0).op,
    TST_B_DN(0).op, LSL_L(0, 0).op, LSR_L(0, 0).op, LEA_D16(0, 0, 0).op, NOP.op,
    DBRA(0, 0).op, MOVEQ(0, 0).op, MOVEQ(0, 128).op, MOVEQ(0, 248).op,
    BRA_B(0).op, BRA_B(-8).op, BCC_B(1, 0).op, BCC_B(1, -8).op>>

MCOpcodeOf ==
    [w \in 0..(WordMod - 1) |->
        IF w \div 64 + 1 \in DOMAIN Forms
        THEN Forms[w \div 64 + 1] + 512 * ((w \div 8) % 8) + (w % 8) ELSE 0]
Form(op) == CHOOSE f \in DOMAIN Forms : Forms[f] = op
Word(f, dr, sr) == 64 * (f - 1) + 8 * dr + sr

\* D0-D7 and A0-A7 distinct, the latter in the data area.
SetD(i) == <<Word(Form(MOVEQ(0, 128).op), i, i)>>
SetA(i) == <<Word(Form(LEA_D16(0, 0, 0).op), i, 7), DATA_BASE + 5 * i>>
Prologue == FlattenSeq([k \in 1..16 |-> IF k <= 8 THEN SetD(k - 1) ELSE SetA(k - 9)])

\* The instruction under test and two extension words.
MCProgram(w) == Prologue \o <<w, 4, 9>>

\* The forms whose register fields are register fields, over four registers
\* (the low field of an immediate operand is fixed);
\* the others over all values, where both decoders take the opcode and, as the
\* assembler does, branch displacements are even.
Registers == {1, 2, 4, 7}
Imm   == {Word(f, dr, 0) : f \in 2..4, dr \in Registers}
Plain == {Word(f, dr, sr) : f \in 5..30, dr \in Registers, sr \in Registers}
Rest  == {Word(f, dr, sr) : f \in 31..Len(Forms), dr \in 0..7, sr \in {0, 2, 4, 6}}
Taken(op) ==
    /\ Line(op) = 5 => Cond(op) = 1 \/ Size(op) # 3
    /\ Line(op) = 6 => Cond(op) \in Conds \cup {0, 1}
MCKernels == {w \in Imm \cup Plain \cup Rest : Taken(MCOpcodeOf[w])}
MCData == [i \in 1..64 |-> (37 * i + 11) % ByteMod]
=============================================================================
