---------------------------- MODULE PpcBackends ----------------------------
(***************************************************************************)
(* The six PPC backends in one process: A to D of PpcDispatch, and E and F *)
(* (ppc/ppc_pdx8.c, ppc/ppc_pdx16.c), which run the format of PpcPdx.      *)
(* Every one of them is meant to be the machine of PpcMachine.             *)
(***************************************************************************)
EXTENDS PpcDispatch, PpcPdx

\* The region is decoded again on every call, word by word.
PdxTable(wide) == [e \in Entries |-> pdx_decode(4 * e, Fetch(m, 4 * e), wide)]

Formats == {"pdx8", "pdx16"}
CallPdx(b, budget) == Call(b, budget, PdxTable(b = "pdx16"))

\* One turn of the loop over entries; only the default case writes c->pc
\* before the process ends.
PdxTurn(b) ==
    LET e == tab[m.pc \div 4]
        r == PdxStep(m, e, b = "pdx16")
    IN /\ InLoop(b) /\ m.pc \div 4 \in Entries
       /\ \/ Retire(r, n - 1)
          \/ Die(r, n - 1, IF e.id = "ILLEGAL" THEN m.pc ELSE cpc)
       /\ Same /\ UNCHANGED <<at, insn>>
----------------------------------------------------------------------------
Start(budget) ==
    \/ CallSwitch(budget) \/ CallTail(budget) \/ CallCall(budget) \/ CallPd(budget)
    \/ \E b \in Formats : CallPdx(b, budget)

\* What a call does on its own.
Step ==
    \/ SwitchTurn \/ CallTurn \/ PdTurn
    \/ TailHandler \/ TailFetch \/ TailReturn
    \/ \E b \in Formats : PdxTurn(b)
    \/ Return

Next == Setup \/ (\E budget \in Budgets : Start(budget)) \/ Step \/ Wild

Spec == Init /\ [][Next]_vars

\* The loops are straight-line code on one thread: a call that can go on does.
FairSpec == Spec /\ WF_vars(Step)
----------------------------------------------------------------------------
TypeOK ==
    /\ backend \in {"switch", "tail", "call", "pd"} \cup Formats
    /\ kernel \in Kernels /\ IsMachine(m) /\ m.fate = "ok"
    /\ cpc \in Long
    /\ at \in {"loop", "entry", "handler", "next"} /\ IsInsn(insn)
    /\ \E b \in Budgets \cup {0} : n \in 0..b
    /\ phase \in {"idle", "run", "illegal", "bad_access", "wild"}
    /\ sprints \in 0..MaxSprints

\* zero_base, the word behind gpr[31] that the forms with rA = 0 of backends E
\* and F read through a byte offset of 128, stays zero: no entry ever names it
\* as a destination.
ZeroBaseStaysZero == m.gpr[ZERO] = 0

\* ppc_bench.h:36: each backend executes exactly `budget` instructions from
\* c->pc, whatever its dispatch shape or format: seen through the mapping
\* below every call is a call of the machine of PpcMachine.  The tail-call
\* backend has advanced pc and counted before a handler's body runs.  After a
\* jump outside the decoded region nothing is claimed.
SeenM == IF at = "handler" THEN [m EXCEPT !.pc = Sub(@, 4)] ELSE m
SeenN == IF at = "handler" /\ phase = "run" THEN n + 1 ELSE n
SeenPhase == IF phase = "wild" THEN "run" ELSE phase
Machine == INSTANCE PpcMachine WITH m <- SeenM, n <- SeenN, phase <- SeenPhase
ImplementsMachine == Machine!Spec

\* A backend is about to execute the instruction at SeenM.pc: at the head of its
\* loop with budget left, or, in the tail-call backend, in the handler the
\* instruction was passed to.  A predecoding backend has an entry for it.
Executing ==
    /\ phase = "run" /\ at \in {"loop", "handler"} /\ SeenN > 0
    /\ backend \in {"pd"} \cup Formats => SeenM.pc \div 4 \in Entries

\* The words ppc_ops.h has no statement for: opcodes and secondary keys outside
\* its lists, opcode 19 but for bclr and bcctr, and moves of another register
\* than LR and CTR.
Unlisted(i) ==
    \/ i.op \notin PPC_PRIMARY
    \/ i.op = 31 /\ Key31(i) \notin PPC_OP31
    \/ i.op = 31 /\ Key31(i) \in {678, 934} /\ Spr(i) \notin {8, 9}
    \/ i.op = 19 /\ Key19(i) \notin {16, 528}

\* ppc_bench.h:43 and ppc_ops.h:7: an instruction outside the subset is answered
\* with the fatal diagnostic, by whichever backend meets it.
OutsideSubsetIsFatal ==
    [][Executing /\ Unlisted(Fetch(SeenM, SeenM.pc)) => phase' = "illegal"]_vars

\* Every call comes back, or ends the process, or has left the region.
CallsReturn == (phase = "run") ~> (phase # "run")

\* As long as no program can write into the region the predecoding backends
\* read once per call, what they run is what RAM holds.
TableIsRam ==
    (phase = "run" /\ at = "loop") =>
        CASE backend = "pd" -> tab = PdTable
          [] backend \in Formats -> tab = PdxTable(backend = "pdx16")
          [] OTHER -> TRUE
=============================================================================
