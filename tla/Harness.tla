------------------------------ MODULE Harness ------------------------------
(***************************************************************************)
(* main of both benchmark programs (m68k/bench_main.c, ppc/bench_main.c):  *)
(* for every kernel it verifies the backends against the first one, warms  *)
(* them up, times them in alternating repetitions and prints the best.     *)
(* What a backend computes is abstract: a state of the guest is the kernel *)
(* it was set up for, how many instructions ran since, and whose defect,   *)
(* if any, has left its mark on it. A build has at most one defect.        *)
(***************************************************************************)
EXTENDS Naturals, Sequences, SequencesExt

CONSTANTS
    Lanes,          \* the programs: "m68k" and "ppc"
    NBACKENDS,      \* NBACKENDS[lane]
    ExactFlags,     \* ExactFlags[lane]: the backends compared on the full hash
    Kernels,        \* how many kernels (3 in the code)
    verify_budget,
    bench_budget,
    Times           \* what a timed run may take

VARIABLES
    lane, reps,     \* the program, and its second argument
    defect,         \* what is wrong with this build, if anything
    phase, k, b, r, \* the phase of main and its loop counters
    loaded,         \* setup_kernel has run for the coming call
    cpu,            \* g_ram and the CPU
    full, reduced,  \* the hashes of the kernel under verification
    best,           \* best[b], INF until a run is faster
    written,        \* the lines printed, oldest first
    measured, calls \* history: times per backend, and how each call began

input == <<lane, reps>>
loop == <<phase, k, b, r, loaded>>
result == <<full, reduced, best>>
history == <<measured, calls>>
hvars == <<input, defect, loop, cpu, result, written, history>>

\* 1e30, longer than any run.
INF == 1 + Max(Times)
NONE == 99
Backends(l) == 0 .. NBACKENDS[l] - 1

\* Both programs compare at least the first two backends on the full hash: a
\* defect of the first one shows only in the comparison with another.
ASSUME HarnessAssumption ==
    /\ NBACKENDS \in [Lanes -> 2 .. NONE]
    /\ \A l \in Lanes : {0, 1} \subseteq ExactFlags[l]
    /\ Kernels \in 1 .. NONE /\ verify_budget \in Nat /\ bench_budget \in Nat
    /\ Times \subseteq Nat /\ \E t \in Times : \A u \in Times : u <= t

Line(tag, kernel, backend) == [tag |-> tag, k |-> kernel, b |-> backend]
Banner == Line("banner", NONE, NONE)
Done == Line("benchmark done", NONE, NONE)
FATAL == Line("FATAL", NONE, NONE)
Printed == {Banner, Done, FATAL} \cup
           [tag : {"figure", "FAIL"}, k : 0 .. Kernels - 1, b : UNION {Backends(l) : l \in Lanes}]

\* No defect, or one that shows in backend b on kernel k after `at`
\* instructions: in the flags only, in the rest of the state, as a fatal
\* diagnostic, or as a trap of the engine, which prints nothing.
Sound == [kind |-> "none", k |-> NONE, b |-> NONE, at |-> 0]
Defects(l) == {Sound} \cup
    [kind : {"flags", "state", "fatal", "trap"}, k : 0 .. Kernels - 1, b : Backends(l),
     at : {0, verify_budget}]

setup_kernel(kernel) == [k |-> kernel, ran |-> 0, state |-> NONE, flags |-> NONE]

Shows(kind, budget) ==
    /\ defect.kind = kind /\ defect.k = cpu.k /\ defect.b = b
    /\ cpu.ran + budget > defect.at

\* The guest after backend b executed `budget` instructions.
Executed(budget) ==
    [cpu EXCEPT !.ran = @ + budget,
                !.state = IF Shows("state", budget) THEN b ELSE @,
                !.flags = IF Shows("flags", budget) THEN b ELSE @]

\* FNV-1a without collisions: the full hash tells any two states apart, the
\* reduced one all but those that differ in their flags.
state_hash(g, with_flags) == IF with_flags THEN g ELSE [g EXCEPT !.flags = NONE]

Unstarted ==
    /\ phase = "off" /\ k = 0 /\ b = 0 /\ r = 0 /\ loaded = FALSE
    /\ defect = Sound /\ cpu = setup_kernel(0)
    /\ full = [c \in Backends(lane) |-> cpu] /\ reduced = full
    /\ best = [c \in Backends(lane) |-> INF]
    /\ written = <<>> /\ measured = [c \in Backends(lane) |-> {}] /\ calls = {}

-----------------------------------------------------------------------------
\* mem_env_init, then the banner.
Banners ==
    /\ phase = "off"
    /\ phase' = "verify" /\ written' = <<Banner>>
    /\ UNCHANGED <<input, defect, k, b, r, loaded, cpu, result, history>>

NoMemory ==
    /\ phase = "off"
    /\ phase' = "exit" /\ written' = <<FATAL>>
    /\ UNCHANGED <<input, defect, k, b, r, loaded, cpu, result, history>>

\* Mutant: a setup before the first backend only.
MutSetup ==
    /\ phase \in {"verify", "warmup", "timed"} /\ ~loaded /\ (phase = "timed" => r < reps)
    /\ cpu' = IF b = 0 THEN setup_kernel(k) ELSE cpu
    /\ loaded' = TRUE
    /\ UNCHANGED <<input, defect, phase, k, b, r, result, written, history>>

\* Mutant: the timed loop sets up before the first backend only.
MutTimedSetup ==
    /\ phase \in {"verify", "warmup", "timed"} /\ ~loaded /\ (phase = "timed" => r < reps)
    /\ cpu' = IF phase = "timed" /\ b > 0 THEN cpu ELSE setup_kernel(k)
    /\ loaded' = TRUE
    /\ UNCHANGED <<input, defect, phase, k, b, r, result, written, history>>

\* setup_kernel(k, &cpu) at the head of the body of each loop over backends.
Setup ==
    /\ phase \in {"verify", "warmup", "timed"} /\ ~loaded /\ (phase = "timed" => r < reps)
    /\ cpu' = setup_kernel(k) /\ loaded' = TRUE
    /\ UNCHANGED <<input, defect, phase, k, b, r, result, written, history>>

Budget ==
    CASE phase = "verify" -> verify_budget
      [] phase = "warmup" -> bench_budget \div 2
      [] phase = "timed" -> bench_budget

\* A call of g_backends[b] that returns.
Call ==
    /\ loaded /\ ~Shows("fatal", Budget) /\ ~Shows("trap", Budget)
    /\ cpu' = Executed(Budget) /\ loaded' = FALSE
    /\ calls' = calls \cup {[phase |-> phase, from |-> cpu]}

LastBackend == b = NBACKENDS[lane] - 1
NextBackend(then) ==
    /\ b' = IF LastBackend THEN 0 ELSE b + 1
    /\ phase' = IF LastBackend THEN then ELSE phase

Verify ==
    /\ phase = "verify" /\ Call
    /\ full' = [full EXCEPT ![b] = state_hash(cpu', TRUE)]
    /\ reduced' = [reduced EXCEPT ![b] = state_hash(cpu', FALSE)]
    /\ NextBackend("compare")
    /\ UNCHANGED <<input, defect, k, r, best, written, measured>>

\* Mutant: the exact backends of the M68K program are compared on the reduced hash too.
MutAgrees(c) == IF lane = "ppc" THEN full[c] = full[0] ELSE reduced[c] = reduced[0]

\* The elision backend may differ in its flags.
Agrees(c) == IF c \in ExactFlags[lane] THEN full[c] = full[0] ELSE reduced[c] = reduced[0]

Agree ==
    /\ phase = "compare" /\ \A c \in Backends(lane) : Agrees(c)
    /\ phase' = "warmup"
    /\ UNCHANGED <<input, defect, k, b, r, loaded, cpu, result, written, history>>

\* The first backend that disagrees is named, and main returns 1.
Diverged ==
    /\ phase = "compare"
    /\ \E c \in Backends(lane) :
          /\ ~Agrees(c) /\ \A d \in 0 .. c - 1 : Agrees(d)
          /\ written' = Append(written, Line("FAIL", k, c))
    /\ phase' = "exit"
    /\ UNCHANGED <<input, defect, k, b, r, loaded, cpu, result, history>>

\* Mutant: best is initialised once, for the first kernel.
MutWarmUp ==
    /\ phase = "warmup" /\ Call
    /\ NextBackend("timed")
    /\ UNCHANGED <<input, defect, k, r, best, measured, full, reduced, written>>

\* The last warm-up is followed by best[b] = 1e30 for every backend.
WarmUp ==
    /\ phase = "warmup" /\ Call
    /\ NextBackend("timed")
    /\ best' = IF LastBackend THEN [c \in Backends(lane) |-> INF] ELSE best
    /\ UNCHANGED <<input, defect, k, r, full, reduced, written, measured>>

Timed ==
    /\ phase = "timed" /\ Call
    /\ \E dt \in Times :
          /\ best' = [best EXCEPT ![b] = IF dt < @ THEN dt ELSE @]
          /\ measured' = [measured EXCEPT ![b] = @ \cup {dt}]
    /\ b' = IF LastBackend THEN 0 ELSE b + 1
    /\ r' = IF LastBackend THEN r + 1 ELSE r
    /\ UNCHANGED <<input, defect, phase, k, full, reduced, written>>

\* Mutant: one kernel too many.
MutFigures ==
    /\ phase = "timed" /\ r >= reps
    /\ written' = written \o [c \in 1 .. NBACKENDS[lane] |-> Line("figure", k, c - 1)]
    /\ r' = 0 /\ calls' = {} /\ measured' = [c \in Backends(lane) |-> {}]
    /\ k' = k + 1 /\ phase' = IF k < Kernels THEN "verify" ELSE "end"
    /\ UNCHANGED <<input, defect, b, loaded, cpu, result>>

\* One line per backend. The next kernel starts over.
Figures ==
    /\ phase = "timed" /\ r >= reps
    /\ written' = written \o [c \in 1 .. NBACKENDS[lane] |-> Line("figure", k, c - 1)]
    /\ r' = 0 /\ calls' = {} /\ measured' = [c \in Backends(lane) |-> {}]
    /\ k' = k + 1 /\ phase' = IF k + 1 < Kernels THEN "verify" ELSE "end"
    /\ UNCHANGED <<input, defect, b, loaded, cpu, result>>

Finish ==
    /\ phase = "end"
    /\ phase' = "exit" /\ written' = Append(written, Done)
    /\ UNCHANGED <<input, defect, k, b, r, loaded, cpu, result, history>>

\* A call that ends in m68k_illegal, ppc_illegal or bad_access: exit(1).
Fatal ==
    /\ loaded /\ Shows("fatal", Budget)
    /\ phase' = "exit" /\ loaded' = FALSE /\ written' = Append(written, FATAL)
    /\ UNCHANGED <<input, defect, k, b, r, cpu, result, history>>

\* A call the engine ends, for instance when sibling calls exhaust the stack.
Trap ==
    /\ loaded /\ Shows("trap", Budget)
    /\ phase' = "dead" /\ loaded' = FALSE
    /\ UNCHANGED <<input, defect, k, b, r, cpu, result, written, history>>

Main ==
    \/ Banners \/ NoMemory
    \/ Setup \/ Verify \/ Agree \/ Diverged \/ WarmUp \/ Timed
    \/ Figures \/ Finish \/ Fatal \/ Trap
=============================================================================
