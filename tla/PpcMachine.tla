----------------------------- MODULE PpcMachine -----------------------------
(***************************************************************************)
(* What ppc/ppc_bench.h promises of every backend: it "executes exactly    *)
(* `budget` instructions from c->pc", and an opcode outside the subset is  *)
(* a fatal diagnostic.  Nothing is said of how instructions are found, nor *)
(* of what they do: that is Result.                                        *)
(***************************************************************************)
EXTENDS Integers

CONSTANTS
    Kernels,      \* the kernels setup_kernel can assemble
    SetUp(_),     \* kernel -> the machine after setup_kernel
    CODE_BASE,    \* guest address of the first instruction
    Result(_),    \* machine -> what the instruction at its pc makes of it
    Budgets,      \* instruction budgets a call may be given
    MaxSprints    \* bound: calls of a backend in one process

VARIABLES
    kernel,   \* the kernel RAM was set up with
    m,        \* registers, RAM and pc
    cpc,      \* c->pc, the pc between calls
    n,        \* instructions left in the call
    phase,    \* "idle", "run", or the diagnostic that ended the process
    sprints   \* calls so far (bounded by MaxSprints)

vars == <<kernel, m, cpc, n, phase, sprints>>

Init ==
    /\ kernel \in Kernels /\ m = SetUp(kernel)
    /\ cpc = CODE_BASE /\ n = 0 /\ phase = "idle" /\ sprints = 0

Setup ==
    /\ phase = "idle" /\ sprints \in 1..(MaxSprints - 1)
    /\ kernel' \in Kernels /\ m' = SetUp(kernel')
    /\ cpc' = CODE_BASE
    /\ UNCHANGED <<n, phase, sprints>>

Enter(budget) ==
    /\ phase = "idle" /\ sprints < MaxSprints
    /\ m' = [m EXCEPT !.pc = cpc] /\ n' = budget
    /\ phase' = "run" /\ sprints' = sprints + 1
    /\ UNCHANGED <<kernel, cpc>>

Execute ==
    /\ phase = "run" /\ n > 0 /\ Result(m).fate = "ok"
    /\ m' = Result(m) /\ n' = n - 1
    /\ UNCHANGED <<kernel, cpc, phase, sprints>>

\* The process ends.  The diagnostic names a pc "near" the instruction: that
\* of the start of the call, or its own.
Die ==
    /\ phase = "run" /\ n > 0 /\ Result(m).fate # "ok"
    /\ phase' = Result(m).fate /\ cpc' \in {cpc, m.pc} /\ n' = n - 1
    /\ UNCHANGED <<kernel, m, sprints>>

Leave ==
    /\ phase = "run" /\ n = 0
    /\ phase' = "idle" /\ cpc' = m.pc
    /\ UNCHANGED <<kernel, m, n, sprints>>

Next == Setup \/ (\E budget \in Budgets : Enter(budget)) \/ Execute \/ Die \/ Leave

Spec == Init /\ [][Next]_vars
=============================================================================
