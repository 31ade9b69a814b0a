----------------------------- MODULE MCPpcForms -----------------------------
(***************************************************************************)
(* Every form of the subset, with varied fields, under every backend.  A   *)
(* kernel loads registers, LR, CTR and CR and goes on with forms: many     *)
(* straight-line ones, or a single branch, or one that ends the process.   *)
(***************************************************************************)
EXTENDS PpcBackends, PpcAsm, SequencesExt

Mtspr(spr, s) == E_X(s, spr, 0, 467, 0)
Mfspr(spr, d) == E_X(d, spr, 0, 339, 0)
At(s, j) == s[(j % Len(s)) + 1]

\* Values for LR and CTR, then words that put carries, signs and shift counts
\* into r0 to r2 and r31 and the read window into r3, and set CR.
Starts == <<E_ADDI(4, 0, 66), E_ADDI(4, 0, 300), E_ADDI(5, 0, 1), E_ADDI(5, 0, 72)>>
Common == <<Mtspr(8, 4), Mtspr(9, 5), E_CMPWI(0, 1, 1), E_D(10, 31, 1, 0),
            E_ADDI(0, 0, 7), E_ADDI(1, 0, 4091), E_ADDI(2, 0, 37), E_ADDI(3, 0, 260),
            E_ADDI(31, 0, 2047)>>

\* D-form immediates and compares; register forms by key; rotates; memory
\* forms that stay inside a page, r0 being no zero; moves and updates.
DForms == [j \in 1..243 |->
    E_D(At(<<7, 10, 11, 14, 15, 24, 25, 26, 28>>, j), At(<<0, 1, 31>>, j \div 9),
        At(<<1, 0, 2>>, j \div 27), At(<<5, 32768, 65532>>, j \div 81))]
Keys == <<532, 533, 80, 81, 470, 471, 56, 57, 888, 889, 632, 633, 48, 1072, 1648, 1649, 0, 64>>
Triples == <<<<0, 1, 2>>, <<1, 0, 31>>, <<2, 31, 1>>, <<31, 31, 31>>, <<1, 2, 0>>, <<2, 1, 31>>>>
XForms == [j \in 1..108 |->
    LET t == At(Triples, j \div 18) IN E_D(31, t[1], t[2], 2048 * t[3] + At(Keys, j))]
Rotates == [j \in 1..72 |->
    E_D(21, 1, At(<<2, 31>>, j), 2048 * At(<<0, 5, 31>>, j \div 2) + 64 * At(<<0, 3, 9>>, j \div 6)
            + 2 * At(<<2, 31>>, j \div 18) + ((j \div 36) % 2))]
MemD == [j \in 1..24 |->
    LET f == At(<<<<3, 0>>, <<3, 65533>>, <<0, 264>>, <<3, 5>>>>, j \div 6)
    IN E_D(At(<<32, 34, 36, 38, 40, 44>>, j), IF j < 12 THEN 1 ELSE 31, f[1], f[2])]
MemX == [j \in 1..12 |->
    LET f == At(<<<<0, 3>>, <<3, 0>>>>, j \div 6)
    IN E_D(31, 1, f[1], 2048 * f[2] + At(<<46, 558, 174, 302, 814, 430>>, j))]
Moves == <<Mfspr(8, 1), Mfspr(9, 2), E_D(33, 1, 3, 4), E_D(37, 2, 3, 8), E_D(33, 3, 3, 65524),
           E_D(33, 0, 3, 0)>>

\* Branches: every BO with two CR bits, absolute and linking.
Branches ==
    [j \in 1..256 |-> E_D(16, j % 32, At(<<0, 31>>, j \div 32), 64 + ((j \div 64) % 4))]
    \o [j \in 1..128 |-> E_D(19, j % 32, 0, 2 * At(<<16, 528>>, j \div 32) + ((j \div 64) % 2))]
    \o <<E_D(18, 0, 0, 64), E_D(18, 0, 0, 65), E_D(18, 0, 0, 66), E_D(18, 0, 0, 67),
         E_D(18, 31, 31, 65532), E_D(16, 20, 0, 65532)>>

\* What ends the process: opcodes outside the subset, accesses across a page.
\* Opcode 27, on which the backends disagree, is left to MCPpcXoris.
BadOps == SelectSeq([j \in 1..64 |-> E_D(j - 1, 1, 2, 0)],
                    LAMBDA i : i.op \notin PPC_PRIMARY \cup {27})
Fatal ==
    BadOps
    \o [j \in 1..4 |-> E_D(31, 1, 2, At(<<2, 49, 535, 1073>>, j))]
    \o <<E_D(19, 20, 0, 100), Mfspr(1, 1), Mtspr(1, 1), E_D(31, 1, 8, 2048 + 678)>>
    \o [j \in 1..6 |-> E_D(At(<<32, 33, 36, 37, 40, 44>>, j), 1, 3, 59)]

\* A guest word is the number of the instruction it stands for.
Parts == <<Starts, Common, DForms, XForms, Rotates, MemD, MemX, Moves, Branches, Fatal>>
Vocabulary == FlattenSeq(Parts)
MCInsnOf ==
    LET v == Vocabulary IN [w \in 0..4095 |-> IF w \in DOMAIN v THEN v[w] ELSE NoInsn]

\* The words of part p, and a kernel: choices of LR and CTR, then a range.
Before(p) == Len(FlattenSeq(SubSeq(Parts, 1, p - 1)))
Words(p)  == (Before(p) + 1)..(Before(p) + Len(Parts[p]))
Straight  == (Before(3) + 1)..Before(9)
Run(from, to) == [j \in 1..(to - from + 1) |-> from + j - 1]
MCProgram(k) ==
    <<k.lr, k.ctr>> \o Run(5, IF k.from \in Words(9) THEN 8 ELSE 13) \o Run(k.from, k.to)

Case(lr, ctr, from, to) == [lr |-> lr, ctr |-> ctr, from |-> from, to |-> to]
MCKernels ==
    {Case(1, 4, w, w + 30) : w \in {v \in Straight : v % 30 = 0}}
    \cup {Case(c - 2, c, w, w) : c \in {3, 4}, w \in Words(9)}
    \cup {Case(1, 3, w, w) : w \in Words(10)}
MCData == [i \in 1..64 |-> (5 * i + 3) % ByteMod]
=============================================================================
