--------------------------- MODULE MCM68kSprints ---------------------------
(***************************************************************************)
(* The benchmark's own three kernels, the random one shorter and from      *)
(* several seeds, and three written to be cut in the wrong place, on a     *)
(* narrow machine: sprints cut anywhere, zero budgets, and a setup of      *)
(* another kernel between two calls.                                       *)
(***************************************************************************)
EXTENDS M68kElide, M68kKernels, SequencesExt

\* A definer whose flags are dead, its overwriter, a branch on what the
\* overwriter left, a store and a counted loop.
Cut1 == <<MOVEQ(1, 255), ADD_L_DD(1, 0), TST_L_DN(1), CMP_L_DD(0, 1), BCC_B(14, 2),
          SUBQ_L_DN(1, 1), BRA_B(-6)>>
Cut2 == <<MOVEA_L_IMM(5, 130), MOVE_L_DN_ANP(5, 1), MOVE_B_D16_DN(0, 5, 3), ADDQ_L_DN(8, 1),
          BCC_B(7, 2), TST_B_DN(1), LSR_L(1, 1), BRA_B(-6)>>
Cut3 == <<CMPI_L_DN(32768, 1), CMPI_L_DN(32768, 1), BCC_B(5, 2), LSL_L(8, 1), DBRA(0, 2),
          SUBQ_L_DN(1, 1), BCC_B(14, 2), SUBQ_L_DN(1, 1), BRA_B(-6)>>

\* setup_kernel's seed for the stress kernel, and others.
Seed(j) == U32(\hC0FF, \hEE02 + 100 * j)
Codes == <<emit_kernel_alu, emit_kernel_mem, Cut1, Cut2, Cut3>>
         \o [j \in 1..3 |-> emit_kernel_stress(Seed(j - 1))]

\* A guest word is the number of an instruction with the opcode it stands for.
OpsOf(v)    == [w \in DOMAIN v |-> v[w].op]
OpTable(v)  == [w \in 0..(WordMod - 1) |-> IF w \in DOMAIN v THEN v[w] ELSE 0]
WordTable(v) == [op \in Range(v) |-> CHOOSE w \in DOMAIN v : v[w] = op]
Opcodes     == OpsOf(FlattenSeq(Codes))
MCOpcodeOf  == OpTable(Opcodes)
WordOf      == WordTable(Opcodes)

MCKernels == DOMAIN Codes
WordsOf(code) ==
    FlattenSeq([j \in DOMAIN code |-> <<WordOf[code[j].op]>> \o code[j].ext])
MCPrograms == [k \in MCKernels |-> WordsOf(Codes[k])]
MCProgram(k) == MCPrograms[k]
MCData == FlattenSeq([j \in 1..16 |->
    LET d == After(U32(\hDEAD, \hBEEF), j).lo % LongMod
    IN [b \in 1..4 |-> (d \div ByteMod^(4 - b)) % ByteMod]])

\* No sprint of either backend ends in a diagnostic or leaves the table, wherever
\* the last one was cut: the kernels run for as long as they are given budget.
KernelsRun == phase \notin {"exited", "wild"}
=============================================================================
