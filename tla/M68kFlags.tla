------------------------------ MODULE M68kFlags ------------------------------
(***************************************************************************)
(* What the condition codes of m68k/m68k_ops.h mean, for one pair of       *)
(* operands: the code computes them with masks and unsigned comparisons,   *)
(* a reader of a kernel thinks of signed and unsigned order and of         *)
(* overflow.                                                               *)
(***************************************************************************)
EXTENDS M68kOps

VARIABLES src, dst   \* operands of ADD, SUB or CMP src,dst; they never change

Init == src \in Long /\ dst \in Long
Next == UNCHANGED <<src, dst>>
Spec == Init /\ [][Next]_<<src, dst>>
----------------------------------------------------------------------------
\* The values Signed can have.
InRange(v) == -(LongMod \div 2) <= v /\ v < LongMod \div 2

\* After cmp.l src,dst every condition of the subset is the comparison its name
\* says: GE, LT, GT and LE of signed values even where dst - src overflows, CC
\* and CS of unsigned ones.  MI and PL test the sign of dst - src where a long
\* can hold it, and the opposite where it cannot (m68k_ops.h:51-83).
ConditionsCompare ==
    LET holds(cond) == m68k_cond(cc_cmp_l(src, dst, Sub(dst, src)), cond)
    IN /\ holds(12) <=> Signed(dst) >= Signed(src)
       /\ holds(13) <=> Signed(dst) < Signed(src)
       /\ holds(14) <=> Signed(dst) > Signed(src)
       /\ holds(15) <=> Signed(dst) <= Signed(src)
       /\ holds(4) <=> dst >= src
       /\ holds(5) <=> dst < src
       /\ holds(6) <=> dst # src
       /\ holds(7) <=> dst = src
       /\ holds(11) <=> ((Signed(dst) < Signed(src)) <=> InRange(Signed(dst) - Signed(src)))
       /\ holds(10) <=> ~holds(11)

\* V is set exactly when the signed result does not fit a long, and C exactly
\* when the unsigned one does not (m68k_ops.h:30-48).
OverflowIsExact ==
    LET add == cc_add_l(src, dst, Add(dst, src))
        sub == cc_sub_l(src, dst, Sub(dst, src))
    IN /\ add.v <=> ~InRange(Signed(dst) + Signed(src))
       /\ sub.v <=> ~InRange(Signed(dst) - Signed(src))
       /\ add.c <=> dst + src >= LongMod
       /\ sub.c <=> dst - src < 0
=============================================================================
