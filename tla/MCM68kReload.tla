---------------------------- MODULE MCM68kReload ----------------------------
(***************************************************************************)
(* Kernels the table does not fit: they run into fillers, off the end of   *)
(* the region, over a page boundary or over themselves, and are loaded one *)
(* after the other into the same static table.                             *)
(***************************************************************************)
EXTENDS MCM68kPrograms

NopRow(k) == Code([i \in 1..k |-> NOP])

MCKernels == {
    \* falls off the end of the region
    NopRow(14),
    \* an instruction whose immediate lies past the region
    NopRow(13) \o Code(<<CMPI_L_DN(32768, 1)>>),
    \* an immediate across a page boundary
    NopRow(4) \o Code(<<MOVE_L_IMM_DN(0, 65535)>>),
    \* a branch into the extension words of the next instruction
    Code(<<TST_L_DN(1), BRA_B(2), CMPI_L_DN(32768, 1), TST_L_DN(1)>>),
    \* an opcode outside the subset, behind elided flags
    Code(<<ADD_L_DD(1, 0), TST_B_DN(1), CMP_L_DD(0, 1), Ins(24834, <<>>)>>),
    \* loads across a page boundary
    Code(<<MOVEA_L_IMM(5, 34), MOVE_L_D16_DN(0, 5, 28)>>),
    \* multi-word instructions where other kernels have one-word ones
    Code(<<MOVEQ(1, 255), MOVE_W_IMM_DN(1, 128), CMPI_L_DN(32768, 1), BCC_B(15, 2),
           SUBQ_L_DN(1, 1), MOVE_W_IMM_DN(1, 128)>>),
    \* overwrites the instruction behind a definer whose flags are dead
    Code(<<MOVE_W_IMM_DN(1, WordOf(BCC_B(7, 2).op)), MOVE_W_DN_D16(5, 14, 1), SUBQ_L_DN(1, 0),
           TST_L_DN(1), NOP, NOP>>)}
=============================================================================
