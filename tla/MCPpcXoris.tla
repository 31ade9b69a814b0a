----------------------------- MODULE MCPpcXoris -----------------------------
(***************************************************************************)
(* One kernel with primary opcode 27 (xoris), which ppc_ops.h does not     *)
(* list, and one with an unlisted opcode that every backend rejects.       *)
(***************************************************************************)
EXTENDS PpcBackends, PpcAsm

Vocabulary == <<E_ADDI(1, 0, 5), E_D(27, 1, 2, 9), E_D(29, 1, 2, 9)>>
MCInsnOf == [w \in 0..4095 |-> IF w \in DOMAIN Vocabulary THEN Vocabulary[w] ELSE NoInsn]
MCKernels == {<<1, 2>>, <<1, 3>>}
MCProgram(k) == k
MCData == <<1, 2>>
=============================================================================
