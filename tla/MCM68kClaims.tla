---------------------------- MODULE MCM68kClaims ----------------------------
(***************************************************************************)
(* What comments of the repository say of backend A, on two small kernels. *)
(***************************************************************************)
EXTENDS M68kSwitch, M68kAsm

Used == <<MOVEQ(0, 1).op, BCC_B(2, 2).op, NOP.op, MOVEA_L_IMM(5, 0).op,
          MOVE_L_D16_DN(0, 5, 0).op>>
MCOpcodeOf == [w \in 0..(WordMod - 1) |-> IF w \in DOMAIN Used THEN Used[w] ELSE 0]

\* moveq #1,d0; bhi over a nop; nop; moveq again ...
CondKernels == {<<1, 2, 3>> \o [i \in 1..10 |-> 1]}
\* movea.l #24,a5; move.l 6(a5),d0 reads bytes 30..33 of a RAM of 64
LoadKernels == {<<4, 0, 24, 5, 6>> \o [i \in 1..10 |-> 1]}
MCProgram(k) == k
MCData == <<1, 2, 3, 4>>

\* m68k_bench.h:34 calls m68k_illegal for every opcode outside the subset, and
\* m68k_ops.h:58 lists the condition codes the subset has: a Bcc with another
\* condition is never executed.
OnlySubsetConditions ==
    [][(Running /\ Line(Op) = 6 /\ Cond(Op) \notin Conds \cup {0}) => phase' = "exited"]_vars

\* mem_env.c:21: a slow-path hit means that the kernel left RAM, so one of the
\* addresses of the instruction lies outside it.
SlowPathMeansEscape ==
    [][BadAccess => \E a \in {pc, pc2, SrcAddr(Op), DstAddr(Op)} : a + 4 > RamSize]_vars
=============================================================================
