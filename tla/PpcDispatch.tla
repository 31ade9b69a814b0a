---------------------------- MODULE PpcDispatch ----------------------------
(***************************************************************************)
(* A call of a PPC backend, and backends A to D, which run the bodies of   *)
(* ppc_ops.h under four dispatch shapes:                                   *)
(*   switch  fetch, switch on the primary opcode            ppc_switch.c   *)
(*   tail    handlers that fetch and call the next one      ppc_tail.c     *)
(*   call    fetch, call through a table of functions       ppc_call.c     *)
(*   pd      decode the region into (id, word), then run it ppc_predecode.c*)
(*                                                                         *)
(* One action per turn of a loop; the tail-call backend has one action per *)
(* handler body and one per dispatch, because it counts down between them. *)
(***************************************************************************)
EXTENDS PpcImage

VARIABLES
    backend,  \* the backend of the current call, or of the last one
    kernel,   \* the kernel RAM was set up with
    m,        \* registers, RAM and the local pc
    cpc,      \* c->pc, written when a call returns
    at,       \* "loop"; in the tail-call backend "entry", "handler" or "next"
    insn,     \* tail: the instruction passed to the handler
    tab,      \* static table of the last predecoding backend
    n,        \* instructions left; in a tail handler, after the current one
    phase,    \* "idle", "run", a diagnostic that ended the process, or "wild"
    sprints   \* calls so far (bounded by MaxSprints)

vars == <<backend, kernel, m, cpc, at, insn, tab, n, phase, sprints>>

NoInsn == [op |-> 0, rd |-> 0, ra |-> 0, lo |-> 0]
Entries == 0..((REGION \div 4) - 1)

Init ==
    /\ backend = "switch"
    /\ kernel \in Kernels /\ m = SetUp(kernel)
    /\ cpc = CODE_BASE /\ at = "loop" /\ insn = NoInsn /\ tab = <<>>
    /\ n = 0 /\ phase = "idle" /\ sprints = 0

\* Between two calls the harness may set up a kernel again.
Setup ==
    /\ phase = "idle" /\ sprints \in 1..(MaxSprints - 1)
    /\ kernel' \in Kernels /\ m' = SetUp(kernel')
    /\ cpc' = CODE_BASE
    /\ UNCHANGED <<backend, at, insn, tab, n, phase, sprints>>

\* The harness calls backend b, whose table is t once it has decoded the region.
Call(b, budget, t) ==
    /\ phase = "idle" /\ sprints < MaxSprints
    /\ backend' = b /\ m' = [m EXCEPT !.pc = cpc] /\ n' = budget /\ tab' = t
    /\ at' = IF b = "tail" THEN "entry" ELSE "loop"
    /\ phase' = "run" /\ sprints' = sprints + 1
    /\ UNCHANGED <<kernel, cpc, insn>>

\* An instruction leaves machine r, or ends the process with c->pc = p.
Retire(r, n1) == r.fate = "ok" /\ m' = r /\ n' = n1 /\ UNCHANGED <<cpc, phase>>
Die(r, n1, p) == /\ r.fate # "ok" /\ phase' = r.fate /\ n' = n1 /\ cpc' = p
                 /\ UNCHANGED m

Running(b) == backend = b /\ phase = "run"
InLoop(b) == Running(b) /\ n > 0
Same == UNCHANGED <<backend, kernel, tab, sprints>>

\* The end of a loop: c->pc = pc.
Return ==
    /\ phase = "run" /\ at = "loop" /\ n = 0
    /\ phase' = "idle" /\ cpc' = m.pc
    /\ Same /\ UNCHANGED <<m, at, insn, n>>
----------------------------------------------------------------------------
\* One turn of backend b's loop that leaves r.
Turn(b, r) ==
    /\ InLoop(b)
    /\ Retire(r, n - 1) \/ Die(r, n - 1, cpc)
    /\ Same /\ UNCHANGED <<at, insn>>

CallSwitch(budget) == Call("switch", budget, tab)
SwitchTurn == Turn("switch", Result(m))

\* The function tables of B and C: every slot is h_bad, listed ones overridden.
h_bad == 64
g_dispatch == [op \in 0..63 |-> IF op \in PPC_PRIMARY THEN op ELSE h_bad]
Handler(h, mm, i) == IF h = h_bad THEN ppc_illegal(mm) ELSE Primary(h, mm, i)

CallCall(budget) == Call("call", budget, tab)
CallTurn ==
    LET i == Fetch(m, m.pc)
    IN Turn("call", Handler(g_dispatch[i.op], PastFetch(m), i))
----------------------------------------------------------------------------
CallTail(budget) == Call("tail", budget, tab)

\* The body of a handler, with n instructions to go after it.
TailHandler ==
    LET r == Handler(g_dispatch[insn.op], m, insn)
    IN /\ Running("tail") /\ at = "handler"
       /\ \/ Retire(r, n) /\ at' = "next"
          \/ Die(r, n, cpc) /\ UNCHANGED at
       /\ Same /\ UNCHANGED insn

\* Fetch at pc and call the handler with pc + 4 and n - 1: ppc_run_tail does so
\* on entry, NEXT() at the end of every handler.
TailFetch ==
    /\ Running("tail") /\ at \in {"entry", "next"} /\ n > 0
    /\ insn' = Fetch(m, m.pc) /\ m' = PastFetch(m) /\ n' = n - 1 /\ at' = "handler"
    /\ Same /\ UNCHANGED <<cpc, phase>>

\* With the budget spent NEXT() writes c->pc back; a call with budget 0 returns
\* before it has touched anything.
\* Mutant: the entry point does not test for budget 0.
MutTailReturn ==
    /\ Running("tail") /\ at = "next" /\ n = 0
    /\ cpc' = m.pc /\ phase' = "idle" /\ at' = "loop"
    /\ Same /\ UNCHANGED <<m, insn, n>>
TailReturn ==
    /\ Running("tail") /\ at \in {"entry", "next"} /\ n = 0
    /\ cpc' = IF at = "next" THEN m.pc ELSE cpc
    /\ phase' = "idle" /\ at' = "loop"
    /\ Same /\ UNCHANGED <<m, insn, n>>
----------------------------------------------------------------------------
\* pd_decode: the leaf a word resolves to, an entry of one of the two lists or
\* one of the two opcode-19 forms.
Leaf(list, key) == [list |-> list, key |-> key]
pd_decode(i) ==
    IF i.op = 31 THEN IF Key31(i) \in PPC_OP31 THEN Leaf("op31", Key31(i)) ELSE Leaf("bad", 0)
    ELSE IF i.op = 19 THEN IF Key19(i) \in {16, 528} THEN Leaf("op19", Key19(i)) ELSE Leaf("bad", 0)
    ELSE IF i.op \in PPC_PRIMARY THEN Leaf("primary", i.op) ELSE Leaf("bad", 0)

\* The case of the id of entry e.
RunLeaf(e, m4) ==
    CASE e.id.list = "primary" -> Primary(e.id.key, m4, e.insn)
      [] e.id.list = "op31" -> Op31(e.id.key, m4, e.insn)
      [] e.id.list = "op19" /\ e.id.key = 16 -> bclr(m4, e.insn)
      [] e.id.list = "op19" /\ e.id.key = 528 -> bcctr(m4, e.insn)
      [] e.id.list = "bad" -> ppc_illegal(m4)

PdTable == [e \in Entries |-> [id |-> pd_decode(Fetch(m, 4 * e)), insn |-> Fetch(m, 4 * e)]]

\* Mutant: a second call in a row finds the table already decoded.
MutCallPd(budget) == Call("pd", budget, IF backend = "pd" THEN tab ELSE PdTable)
CallPd(budget) == Call("pd", budget, PdTable)
PdTurn ==
    /\ m.pc \div 4 \in Entries
    /\ Turn("pd", RunLeaf(tab[m.pc \div 4], PastFetch(m)))

\* The table of a predecoding backend is indexed by pc >> 2, unchecked: what an
\* entry outside it holds, and whatever follows, is undefined.
Wild ==
    /\ backend \in {"pd", "pdx8", "pdx16"} /\ phase = "run" /\ n > 0
    /\ m.pc \div 4 \notin Entries
    /\ phase' = "wild"
    /\ Same /\ UNCHANGED <<m, cpc, at, insn, n>>
=============================================================================
