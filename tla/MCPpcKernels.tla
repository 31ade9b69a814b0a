---------------------------- MODULE MCPpcKernels ----------------------------
(***************************************************************************)
(* The benchmark's own three kernels, the random one shorter and from      *)
(* several seeds, on a narrow machine: calls of every backend in any       *)
(* order, cut anywhere, with setups of another kernel between them.        *)
(***************************************************************************)
EXTENDS PpcBackends, PpcKernels, SequencesExt

\* setup_kernel: kernel 0, 1, or the stress kernel, here from the code's seed
\* and from two on which the last draw asks for a branch.
Seed(k) == U32(\hC0FF, \hEE01 + <<0, 23, 25>>[k - 1])
Code(k) ==
    CASE k = 0 -> emit_kernel_alu
      [] k = 1 -> emit_kernel_mem
      [] OTHER -> emit_kernel_stress(Seed(k))

MCKernels == 0..4
MCData == FlattenSeq([j \in 1..16 |->
    LET w == WindowWord(j).lo % LongMod
    IN [b \in 1..4 |-> (w \div SizeMod(4 - b)) % ByteMod]])

\* A guest word is the number of the instruction it stands for.
Codes == [k \in 1..5 |-> Code(k - 1)]
Vocabulary == FlattenSeq(Codes)
MCInsnOf ==
    LET v == Vocabulary IN [w \in 0..4095 |-> IF w \in DOMAIN v THEN v[w] ELSE NoInsn]
Offset == [k \in MCKernels |-> Len(FlattenSeq(SubSeq(Codes, 1, k)))]
MCProgram(k) == [j \in DOMAIN Codes[k + 1] |-> Offset[k] + j]

\* The kernels run for as long as they are given budget: no sprint of any
\* backend ends in a diagnostic or leaves the decoded region, wherever the
\* last one was cut.
KernelsRun == phase \in {"idle", "run"}
=============================================================================
