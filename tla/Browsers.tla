------------------------------ MODULE Browsers ------------------------------
(***************************************************************************)
(* tools/run_browsers.mjs: it opens the benchmark's page in one browser    *)
(* after the other, collects the lines the page prints until the last one  *)
(* or for five minutes, and prints them under the browser's name. The page *)
(* runs the main of Harness in a process of its own. Console messages      *)
(* arrive later than they were printed, in order, and those in flight are  *)
(* lost when the browser is closed. The timer of a race is never           *)
(* cancelled, and the process lives until the last one has fired.          *)
(***************************************************************************)
EXTENDS Harness

CONSTANTS
    Browsers,       \* how many browsers the command line names
    Repetitions     \* the values of reps

\* atoi may return any int.
ASSUME BrowsersAssumption == Browsers \in Nat \ {0} /\ Repetitions \subseteq Int

VARIABLES
    i,              \* the browser of the current iteration
    stage,          \* where the iteration is
    lines,          \* const lines = [] of this iteration
    seen,           \* how many of the page's lines have arrived
    finished,       \* done() has resolved the promise
    expired,        \* the timer of this iteration has fired
    timers,         \* the iterations whose timer is still running
    report          \* what this iteration has printed

runner == <<i, stage, lines, seen, finished, expired, timers, report>>
vars == <<hvars, runner>>

NoPage ==
    /\ phase' = "off" /\ k' = 0 /\ b' = 0 /\ r' = 0 /\ loaded' = FALSE
    /\ defect' = Sound /\ cpu' = setup_kernel(0)
    /\ full' = [c \in Backends(lane) |-> cpu'] /\ reduced' = full'
    /\ best' = [c \in Backends(lane) |-> INF]
    /\ written' = <<>> /\ measured' = [c \in Backends(lane) |-> {}] /\ calls' = {}

Init ==
    /\ lane \in Lanes /\ reps \in Repetitions
    /\ Unstarted
    /\ i = 1 /\ stage = "launch" /\ lines = <<>> /\ seen = 0
    /\ finished = FALSE /\ expired = FALSE /\ timers = {} /\ report = <<>>

-----------------------------------------------------------------------------
\* Mutant: the array is declared outside the loop.
MutNewPage ==
    /\ stage = "launch"
    /\ stage' = "goto" /\ lines' = lines /\ seen' = 0
    /\ finished' = FALSE /\ expired' = FALSE
    /\ UNCHANGED <<hvars, i, timers, report>>

\* launch and newPage, then, without another await, the array, the promise
\* and the listener.
NewPage ==
    /\ stage = "launch"
    /\ stage' = "goto" /\ lines' = <<>> /\ seen' = 0
    /\ finished' = FALSE /\ expired' = FALSE
    /\ UNCHANGED <<hvars, i, timers, report>>

\* The navigation begins: from here on the page runs by itself.
Goto ==
    /\ stage = "goto" /\ stage' = "loading"
    /\ defect' \in Defects(lane)
    /\ UNCHANGED <<input, loop, cpu, result, written, history>>
    /\ UNCHANGED <<i, lines, seen, finished, expired, timers, report>>

Page == stage \in {"loading", "race", "close"} /\ Main /\ UNCHANGED runner

\* The listener of this iteration. Every line the programs print matches its
\* expression, "benchmark done" is not kept.
Deliver ==
    /\ stage \in {"loading", "race", "close"} /\ seen < Len(written)
    /\ LET t == written[seen + 1] IN
          /\ lines' = IF t = Done THEN lines ELSE Append(lines, t)
          /\ finished' = (finished \/ t.tag \in {"benchmark done", "FAIL", "FATAL"})
    /\ seen' = seen + 1
    /\ UNCHANGED <<hvars, i, stage, expired, timers, report>>

\* Mutant: the listener is registered after goto.
MutLoaded ==
    /\ stage = "loading"
    /\ stage' = "race" /\ timers' = timers \cup {i}
    /\ lines' = <<>>
    /\ UNCHANGED <<hvars, i, seen, finished, expired, report>>

\* goto returns at the page's load event, and the timer starts.
Loaded ==
    /\ stage = "loading"
    /\ stage' = "race" /\ timers' = timers \cup {i}
    /\ UNCHANGED <<hvars, i, lines, seen, finished, expired, report>>

\* Mutant: one timer for all browsers.
MutTimeout ==
    /\ stage \notin {"over", "failed"}
    /\ \E j \in timers : timers' = timers \ {j}
    /\ expired' = TRUE
    /\ UNCHANGED <<hvars, i, stage, lines, seen, finished, report>>

\* A timer resolves the race it belongs to, long over or not.
Timeout ==
    /\ stage \notin {"over", "failed"}
    /\ \E j \in timers :
          /\ timers' = timers \ {j}
          /\ expired' = (expired \/ j = i)
    /\ UNCHANGED <<hvars, i, stage, lines, seen, finished, report>>

\* Mutant: finished is awaited without the timer.
MutReport ==
    /\ stage = "race" /\ finished
    /\ stage' = "close" /\ report' = lines
    /\ UNCHANGED <<hvars, i, lines, seen, finished, expired, timers>>

\* After the race the header and the lines are printed without an await.
Report ==
    /\ stage = "race" /\ (finished \/ expired)
    /\ stage' = "close" /\ report' = lines
    /\ UNCHANGED <<hvars, i, lines, seen, finished, expired, timers>>

Close ==
    /\ stage = "close"
    /\ NoPage
    /\ IF i < Browsers THEN i' = i + 1 /\ stage' = "launch" ELSE i' = i /\ stage' = "exit"
    /\ report' = <<>>
    /\ UNCHANGED <<input, lines, seen, finished, expired, timers>>

\* server.close() was the last statement; Node waits for the timers.
Exit ==
    /\ stage = "exit" /\ timers = {} /\ stage' = "over"
    /\ UNCHANGED <<hvars, i, lines, seen, finished, expired, timers, report>>

\* An awaited call is rejected (a browser that does not start, a load event
\* that does not come in time): nothing catches it and the process ends.
Reject ==
    /\ stage \in {"launch", "goto", "loading", "close"} /\ stage' = "failed"
    /\ UNCHANGED <<hvars, i, lines, seen, finished, expired, timers, report>>

Iteration == NewPage \/ Goto \/ Loaded \/ Report \/ Close \/ Exit \/ Reject

Next == Page \/ Deliver \/ Iteration \/ Timeout

\* Playwright answers or rejects every call and a timer fires. The page may
\* stop at any point, and nothing is assumed of its messages.
Spec == Init /\ [][Next]_vars /\ WF_vars(Iteration) /\ WF_vars(Timeout)

-----------------------------------------------------------------------------
TypeOK ==
    /\ i \in 1 .. Browsers /\ timers \subseteq 1 .. i
    /\ lines \in Seq(Printed) /\ written \in Seq(Printed) /\ seen \in 0 .. 2 + Kernels * (1 + Max(Backends(lane)))
    /\ k \in 0 .. Kernels /\ b \in Backends(lane) /\ r \in 0 .. Max({0, reps})
    /\ best \in [Backends(lane) -> Times \cup {INF}]
    /\ phase \in {"off", "verify", "compare", "warmup", "timed", "end", "exit", "dead"}
    /\ stage \in {"launch", "goto", "loading", "race", "close", "exit", "over", "failed"}

\* A figure is printed for a kernel only if no backend's result differed from
\* the first one's within the verification budget, the flags of the elision
\* backend excepted: no kernel is timed on the strength of a broken backend.
FiguresAreVerified ==
    \A n \in 1 .. Len(written) :
        written[n].tag = "figure" /\ defect.k = written[n].k /\ defect.at < verify_budget
            => defect.kind = "flags" /\ defect.b \notin ExactFlags[lane]

\* A FAIL line accuses a backend only if it or the first one computes another
\* state: the setup before each call leaves nothing of the previous backend.
FailIsJustified ==
    \A n \in 1 .. Len(written) :
        written[n].tag = "FAIL" =>
            /\ defect.kind \in {"flags", "state"}
            /\ defect.k = written[n].k /\ defect.b \in {0, written[n].b}

\* Within a phase every backend is given the same guest, so that the times
\* that are compared are of the same instructions.
RunsAreComparable ==
    \A x, y \in calls : x.phase = y.phase => x.from = y.from

\* While a kernel is timed the best time is the least measured on that
\* kernel, and 1e30 if there was none: with no repetition nothing is measured
\* and the figures are still printed.
BestIsLeastMeasured ==
    phase = "timed" => \A c \in Backends(lane) : best[c] = Min(measured[c] \cup {INF})

\* What is printed under a browser's name is what its own page wrote, in
\* order and from the first line on, whatever the browser before it left.
ReportIsThePagesOwn ==
    stage = "close" => IsPrefix(report, written)

\* If the race was won by the page's last line, nothing of what the page
\* wrote is missing from the report.
ReportIsWhole ==
    stage = "close" /\ ~expired =>
        /\ written = report \/ written = Append(report, Done)
        /\ \A j \in 1 .. Len(report) : report[j] # Done

\* A report that breaks off has waited for its own five minutes: the timer an
\* earlier browser left running cuts no other one short.
NotCutShort ==
    stage = "close" /\ ~finished => i \notin timers

\* The process ends, whatever the pages do: a page that traps or never
\* prints its last line costs five minutes and not the run.
RunnerEnds == <>(stage \in {"over", "failed"})
=============================================================================
