-------------------------- MODULE Browsers_proofs --------------------------
(***************************************************************************)
(* What the harness prints and the runner reports, for every number of     *)
(* backends, kernels, browsers and repetitions, all budgets and any single *)
(* defect.                                                                 *)
(***************************************************************************)
EXTENDS Browsers, TLAPS

Lines == [tag : {"banner", "benchmark done", "FATAL", "figure", "FAIL"}, k : Nat, b : Nat]

TypeInv ==
    /\ lane \in Lanes /\ reps \in Int
    /\ b \in Backends(lane) /\ k \in 0 .. Kernels /\ r \in Nat /\ loaded \in BOOLEAN
    /\ phase \in {"off", "verify", "compare", "warmup", "timed", "end", "exit", "dead"}
    /\ defect \in Defects(lane)
    /\ DOMAIN full = Backends(lane) /\ DOMAIN reduced = Backends(lane)
    /\ DOMAIN best = Backends(lane) /\ DOMAIN measured = Backends(lane)
    /\ written \in Seq(Lines)

\* The loops over backends start at 0, and a call is made on the guest that
\* the setup before it left; so was every call so far for this kernel.
LoopInv ==
    /\ phase \in {"verify", "compare", "warmup", "timed"} => k < Kernels
    /\ phase \in {"off", "compare", "end"} => b = 0
    /\ phase = "off" => k = 0
    /\ phase = "timed" /\ r >= reps => b = 0 /\ ~loaded
    /\ loaded => phase \in {"verify", "warmup", "timed"} /\ cpu = setup_kernel(k)
    /\ \A call \in calls : call.from = setup_kernel(k)

\* The defect shows in backend c on this kernel within the verified budget.
Hits(kind, c) ==
    /\ defect.kind = kind /\ defect.k = k /\ defect.b = c
    /\ verify_budget > defect.at

\* The guest after backend c has run the verified budget.
Ran(c) ==
    [k |-> k, ran |-> verify_budget,
     state |-> IF Hits("state", c) THEN c ELSE NONE,
     flags |-> IF Hits("flags", c) THEN c ELSE NONE]

Hashed(c) ==
    /\ full[c] = Ran(c) /\ reduced[c] = [Ran(c) EXCEPT !.flags = NONE]
    /\ ~Hits("fatal", c) /\ ~Hits("trap", c)

\* What verification has established of a kernel.
Clean(kernel) ==
    defect.k = kernel /\ defect.at < verify_budget
        => defect.kind = "flags" /\ defect.b \notin ExactFlags[lane]

\* A line that accuses a backend accuses the right one.
Right(line) ==
    /\ line.tag = "figure" => Clean(line.k)
    /\ line.tag = "FAIL" => /\ defect.kind \in {"flags", "state"}
                            /\ defect.k = line.k /\ defect.b \in {0, line.b}

VerifyInv ==
    /\ phase = "verify" => \A c \in Backends(lane) : c < b => Hashed(c)
    /\ phase = "compare" => \A c \in Backends(lane) : Hashed(c)
    /\ phase \in {"warmup", "timed"} => Clean(k)
    /\ \A j \in 1 .. Len(written) : Right(written[j])

IsLeast(v, S) == v \in S /\ \A u \in S : v <= u

BestInv ==
    /\ \A c \in Backends(lane) : measured[c] \subseteq Nat
    /\ phase \notin {"timed", "exit", "dead"} => \A c \in Backends(lane) : measured[c] = {}
    /\ phase = "timed" => \A c \in Backends(lane) : IsLeast(best[c], measured[c] \cup {INF})

HarnessInv == TypeInv /\ LoopInv /\ VerifyInv /\ BestInv
----------------------------------------------------------------------------
LEMMA InfIsNat == INF \in Nat
<1>1. Times \subseteq Nat
  BY HarnessAssumption
<1>2. PICK t \in Times : \A u \in Times : u <= t
  BY HarnessAssumption
<1>3. \A u \in Times : t >= u
  BY <1>1, <1>2
<1>4. Max(Times) \in Times
  BY <1>3 DEF Max
<1>5. Max(Times) \in Nat
  BY <1>1, <1>4
<1> QED
  BY <1>5 DEF INF

LEMMA MinIsLeast ==
  ASSUME NEW S, S \subseteq Nat, NEW v, IsLeast(v, S)
  PROVE  Min(S) = v
<1>1. \A u \in S : v <= u
  BY DEF IsLeast
<1>2. Min(S) \in S /\ \A u \in S : Min(S) <= u
  BY <1>1 DEF Min, IsLeast
<1>3. v \in S /\ Min(S) <= v /\ v <= Min(S)
  BY <1>1, <1>2 DEF IsLeast
<1>4. v \in Nat /\ Min(S) \in Nat
  BY <1>2, <1>3
<1> QED
  BY <1>3, <1>4

LEMMA BackendsFacts ==
  ASSUME NEW l \in Lanes
  PROVE  /\ 0 \in Backends(l) /\ 1 \in Backends(l) /\ NONE \notin Backends(l)
         /\ NBACKENDS[l] - 1 \in Backends(l) /\ NBACKENDS[l] \in Nat
         /\ Backends(l) \subseteq Nat
         /\ 0 \in ExactFlags[l] /\ 1 \in ExactFlags[l]
BY HarnessAssumption DEF Backends, NONE

LEMMA SoundIsDefect == ASSUME NEW l PROVE Sound \in Defects(l)
BY DEF Defects

LEMMA LineType ==
  ASSUME NEW tag \in {"banner", "benchmark done", "FATAL", "figure", "FAIL"},
         NEW kernel \in Nat, NEW c \in Nat
  PROVE  Line(tag, kernel, c) \in Lines
BY DEF Line, Lines

LEMMA LineTypes == Banner \in Lines /\ Done \in Lines /\ FATAL \in Lines
<1>1. NONE \in Nat
  BY DEF NONE
<1> QED
  BY <1>1, LineType DEF Banner, Done, FATAL

\* The lines of Figures.
Figs == [c \in 1 .. NBACKENDS[lane] |-> Line("figure", k, c - 1)]

LEMMA FigsType ==
  ASSUME TypeInv
  PROVE  /\ Figs \in Seq(Lines) /\ Len(Figs) = NBACKENDS[lane]
         /\ \A j \in 1 .. NBACKENDS[lane] : Figs[j].tag = "figure" /\ Figs[j].k = k
<1>1. NBACKENDS[lane] \in Nat /\ k \in Nat
  BY BackendsFacts, HarnessAssumption DEF TypeInv
<1>2. \A j \in 1 .. NBACKENDS[lane] : Line("figure", k, j - 1) \in Lines
  <2> SUFFICES ASSUME NEW j \in 1 .. NBACKENDS[lane]
               PROVE  Line("figure", k, j - 1) \in Lines
    OBVIOUS
  <2>1. j - 1 \in Nat
    BY <1>1
  <2> QED
    BY <1>1, <2>1 DEF Line, Lines
<1>3. Figs \in [1 .. NBACKENDS[lane] -> Lines]
  BY <1>2 DEF Figs
<1>4. Figs \in Seq(Lines) /\ Len(Figs) = NBACKENDS[lane]
  BY <1>1, <1>3
<1> QED
  BY <1>1, <1>4 DEF Figs, Line
----------------------------------------------------------------------------
\* Facts about one kernel: where the defect is, and what a call leaves.

LEMMA DefectFacts ==
  ASSUME TypeInv
  PROVE  /\ defect.at \in Nat
         /\ k < Kernels /\ defect.k = k =>
              /\ defect.kind \in {"flags", "state", "fatal", "trap"}
              /\ defect.b \in Backends(lane)
<1>1. k \in Nat /\ Kernels \in 1 .. NONE /\ verify_budget \in Nat
  BY HarnessAssumption DEF TypeInv
<1>2. CASE defect = Sound
  BY <1>1, <1>2 DEF Sound, NONE
<1>3. CASE defect # Sound
  BY <1>1, <1>3 DEF TypeInv, Defects
<1> QED
  BY <1>2, <1>3

\* The first call for a kernel leaves what Ran says.
LEMMA FirstCall ==
  ASSUME TypeInv, LoopInv, phase = "verify", Call
  PROVE  /\ cpu' = Ran(b)
         /\ ~Hits("fatal", b) /\ ~Hits("trap", b)
<1>1. Budget = verify_budget
  BY DEF Budget
<1>2. cpu = setup_kernel(k)
  BY DEF LoopInv, Call
<1>3. \A kind : Shows(kind, verify_budget) <=> Hits(kind, b)
  BY <1>2, HarnessAssumption DEF Shows, Hits, setup_kernel
<1>4. ~Hits("fatal", b) /\ ~Hits("trap", b)
  BY <1>1, <1>3 DEF Call
<1>5. cpu' = Executed(verify_budget)
  BY <1>1 DEF Call
<1>6. 0 + verify_budget = verify_budget
  BY HarnessAssumption
<1>7. cpu' = [k |-> k, ran |-> 0 + verify_budget,
              state |-> IF Shows("state", verify_budget) THEN b ELSE NONE,
              flags |-> IF Shows("flags", verify_budget) THEN b ELSE NONE]
  BY <1>2, <1>5 DEF Executed, setup_kernel
<1> QED
  BY <1>3, <1>4, <1>6, <1>7 DEF Ran

\* Two backends that leave the same hash of a verified kernel: the defect, if
\* it shows, is not between them.
LEMMA AgreementClears ==
  ASSUME TypeInv, k < Kernels, \A c \in Backends(lane) : Hashed(c) /\ Agrees(c)
  PROVE  Clean(k)
<1> SUFFICES ASSUME defect.k = k, defect.at < verify_budget
             PROVE  defect.kind = "flags" /\ defect.b \notin ExactFlags[lane]
  BY DEF Clean
<1> DEFINE c == defect.b
<1>1. /\ defect.kind \in {"flags", "state", "fatal", "trap"} /\ c \in Backends(lane)
      /\ verify_budget > defect.at
  BY DefectFacts, HarnessAssumption
<1>2. /\ 0 \in Backends(lane) /\ 1 \in Backends(lane) /\ c # NONE /\ NONE # 0
      /\ 0 \in ExactFlags[lane] /\ 1 \in ExactFlags[lane]
  BY <1>1, BackendsFacts DEF TypeInv, NONE
<1>3. \A kind, d : Hits(kind, d) <=> defect.kind = kind /\ c = d
  BY <1>1 DEF Hits
<1>4. defect.kind \notin {"fatal", "trap"}
  BY <1>1, <1>3 DEF Hashed
<1>5. \A d \in Backends(lane) : reduced[d] = reduced[0] \/ full[d] = full[0]
  BY DEF Agrees
<1>6. \A d \in Backends(lane) : Ran(d).state = Ran(0).state
  <2> SUFFICES ASSUME NEW d \in Backends(lane)
               PROVE  Ran(d).state = Ran(0).state
    OBVIOUS
  <2>1. /\ full[d] = Ran(d) /\ full[0] = Ran(0)
        /\ reduced[d] = [Ran(d) EXCEPT !.flags = NONE]
        /\ reduced[0] = [Ran(0) EXCEPT !.flags = NONE]
    BY <1>2 DEF Hashed
  <2>2. reduced[d].state = Ran(d).state /\ reduced[0].state = Ran(0).state
    BY <2>1 DEF Ran
  <2> QED
    BY <1>5, <2>1, <2>2
<1>7. defect.kind # "state"
  <2> SUFFICES ASSUME defect.kind = "state"
               PROVE  FALSE
    OBVIOUS
  <2>1. \A d : Ran(d).state = IF c = d THEN d ELSE NONE
    BY <1>3 DEF Ran
  <2>2. Ran(c).state = Ran(0).state /\ Ran(1).state = Ran(0).state
    BY <1>1, <1>2, <1>6
  <2> QED
    BY <1>2, <2>1, <2>2
<1>8. ASSUME defect.kind = "flags", c \in ExactFlags[lane]
      PROVE  FALSE
  <2>1. \A d : Ran(d).flags = IF c = d THEN d ELSE NONE
    BY <1>3, <1>8 DEF Ran
  <2>2. full[c] = full[0] /\ full[1] = full[0]
    BY <1>1, <1>2, <1>8 DEF Agrees
  <2>3. full[c] = Ran(c) /\ full[0] = Ran(0) /\ full[1] = Ran(1)
    BY <1>1, <1>2 DEF Hashed
  <2>4. Ran(c).flags = Ran(0).flags /\ Ran(1).flags = Ran(0).flags
    BY <2>2, <2>3
  <2> QED
    BY <1>2, <2>1, <2>4
<1> QED
  BY <1>1, <1>4, <1>7, <1>8

\* A backend whose hash differs from the first one's is right to be accused,
\* or the first one is wrong.
LEMMA DisagreementAccuses ==
  ASSUME TypeInv, \A c \in Backends(lane) : Hashed(c),
         NEW c \in Backends(lane), ~Agrees(c)
  PROVE  defect.kind \in {"flags", "state"} /\ defect.k = k /\ defect.b \in {0, c}
<1>1. Hashed(c) /\ Hashed(0)
  BY BackendsFacts DEF TypeInv
<1>2. Ran(c) # Ran(0)
  BY <1>1 DEF Agrees, Hashed
<1>3. \/ Hits("state", c) \/ Hits("state", 0)
      \/ Hits("flags", c) \/ Hits("flags", 0)
  BY <1>2 DEF Ran
<1> QED
  BY <1>3 DEF Hits
----------------------------------------------------------------------------
\* The page's steps.

LEMMA NextBackendIsBackend ==
  ASSUME TypeInv
  PROVE  /\ LastBackend => 0 \in Backends(lane)
         /\ ~LastBackend => b + 1 \in Backends(lane)
         /\ LastBackend => \A c \in Backends(lane) : c < b \/ c = b
         /\ \A c \in Backends(lane) : c < b + 1 => c < b \/ c = b
BY HarnessAssumption DEF TypeInv, LastBackend, Backends

\* The steps that leave what is printed, measured and hashed alone.
LEMMA QuietSteps ==
  ASSUME HarnessInv, Setup \/ Agree \/ Trap
  PROVE  HarnessInv'
<1> USE DEF HarnessInv
<1>1. CASE Setup
  <2>1. /\ k < Kernels /\ cpu' = setup_kernel(k)' /\ lane' = lane
        /\ r \in Nat /\ reps \in Int
    BY <1>1 DEF Setup, LoopInv, TypeInv, input, setup_kernel
  <2>2. TypeInv'
    BY <1>1 DEF Setup, TypeInv, input, result, history
  <2>3. LoopInv'
    BY <1>1, <2>1 DEF Setup, LoopInv, input, history, setup_kernel
  <2>4. VerifyInv'
    BY <1>1, <2>1 DEF Setup, VerifyInv, input, result, Hashed, Hits, Ran, Clean, Right
  <2>5. BestInv'
    BY <1>1 DEF Setup, BestInv, input, result, history
  <2> QED
    BY <2>2, <2>3, <2>4, <2>5
<1>2. CASE Agree
  <2>1. k < Kernels /\ b = 0 /\ ~loaded
    BY <1>2 DEF Agree, LoopInv
  <2>2. Clean(k)
    BY <1>2, <2>1, AgreementClears DEF Agree, VerifyInv
  <2>3. TypeInv'
    BY <1>2 DEF Agree, TypeInv, input, result, history
  <2>4. LoopInv'
    BY <1>2, <2>1 DEF Agree, LoopInv, input, history, setup_kernel
  <2>5. VerifyInv'
    BY <1>2, <2>2 DEF Agree, VerifyInv, input, Clean, Right
  <2>6. BestInv'
    BY <1>2 DEF Agree, BestInv, input, result, history
  <2> QED
    BY <2>3, <2>4, <2>5, <2>6
<1>3. CASE Trap
  <2>1. TypeInv'
    BY <1>3 DEF Trap, TypeInv, input, result, history
  <2>2. LoopInv'
    BY <1>3 DEF Trap, LoopInv, input, history, setup_kernel
  <2>3. VerifyInv'
    BY <1>3 DEF Trap, VerifyInv, input, Clean, Right
  <2>4. BestInv'
    BY <1>3 DEF Trap, BestInv, input, result, history
  <2> QED
    BY <2>1, <2>2, <2>3, <2>4
<1> QED
  BY <1>1, <1>2, <1>3

\* What a step that prints the lines `more` must see to.
LEMMA Appended ==
  ASSUME TypeInv, NEW more \in Seq(Lines), written' = written \o more,
         UNCHANGED <<defect, lane>>,
         \A j \in 1 .. Len(written) : Right(written[j]),
         \A j \in 1 .. Len(more) : Right(more[j])
  PROVE  written' \in Seq(Lines) /\ \A j \in 1 .. Len(written') : Right(written[j])'
<1>1. written \in Seq(Lines)
  BY DEF TypeInv
<1>2. written' \in Seq(Lines) /\ Len(written') = Len(written) + Len(more)
  BY <1>1
<1> SUFFICES ASSUME NEW j \in 1 .. Len(written')
             PROVE  Right(written'[j])
  BY <1>2 DEF Right, Clean
<1>3. CASE j <= Len(written)
  BY <1>1, <1>3
<1>4. CASE j > Len(written)
  BY <1>1, <1>2, <1>4
<1> QED
  BY <1>1, <1>2, <1>3, <1>4

LEMMA OneLine ==
  ASSUME NEW t \in Lines, TypeInv
  PROVE  /\ <<t>> \in Seq(Lines) /\ Len(<<t>>) = 1 /\ <<t>>[1] = t
         /\ Append(written, t) = written \o <<t>>
BY DEF TypeInv

LEMMA VerifyStep ==
  ASSUME HarnessInv, Verify
  PROVE  HarnessInv'
<1> USE DEF HarnessInv
<1>1. /\ phase = "verify" /\ Call /\ k < Kernels /\ b \in Backends(lane)
      /\ r \in Nat /\ reps \in Int
  BY DEF Verify, LoopInv, TypeInv
<1>2. cpu' = Ran(b) /\ ~Hits("fatal", b) /\ ~Hits("trap", b)
  BY <1>1, FirstCall
<1>3. /\ full' = [full EXCEPT ![b] = Ran(b)]
      /\ reduced' = [reduced EXCEPT ![b] = [Ran(b) EXCEPT !.flags = NONE]]
  BY <1>2 DEF Verify, state_hash
<1>4. \A c \in Backends(lane) : c < b \/ c = b => Hashed(c)'
  <2> SUFFICES ASSUME NEW c \in Backends(lane), c < b \/ c = b
               PROVE  Hashed(c)'
    OBVIOUS
  <2>1. Ran(c)' = Ran(c) /\ \A kind : Hits(kind, c)' <=> Hits(kind, c)
    BY DEF Verify, Ran, Hits
  <2>2. CASE c = b
    <3>1. full'[b] = Ran(b) /\ reduced'[b] = [Ran(b) EXCEPT !.flags = NONE]
      BY <1>1, <1>3 DEF TypeInv
    <3> QED
      BY <1>2, <2>1, <2>2, <3>1 DEF Hashed
  <2>3. CASE c < b /\ c # b
    <3>1. Hashed(c) /\ full'[c] = full[c] /\ reduced'[c] = reduced[c]
      BY <1>1, <1>3, <2>3 DEF VerifyInv, TypeInv
    <3> QED
      BY <2>1, <3>1 DEF Hashed
  <2> QED
    BY <2>2, <2>3
<1>5. phase' \in {"verify", "compare"} /\ b' \in Backends(lane)
  BY <1>1, NextBackendIsBackend DEF Verify, NextBackend
<1>6. TypeInv'
  BY <1>1, <1>3, <1>5 DEF Verify, TypeInv, input, Call
<1>7. LoopInv'
  <2>1. phase' = "compare" => b' = 0
    BY <1>1 DEF Verify, NextBackend
  <2>2. \A call \in calls' : call.from = setup_kernel(k)
    BY <1>1 DEF Call, LoopInv
  <2> QED
    BY <1>1, <1>5, <2>1, <2>2 DEF Verify, LoopInv, Call, setup_kernel
<1>8. VerifyInv'
  <2>1. phase' = "verify" => \A c \in Backends(lane) : c < b' => Hashed(c)'
    BY <1>1, <1>4, NextBackendIsBackend DEF Verify, NextBackend
  <2>2. phase' = "compare" => \A c \in Backends(lane) : Hashed(c)'
    BY <1>1, <1>4, NextBackendIsBackend DEF Verify, NextBackend
  <2>3. \A j \in 1 .. Len(written') : Right(written[j])'
    BY DEF Verify, VerifyInv, input, Right, Clean
  <2> QED
    BY <1>5, <2>1, <2>2, <2>3 DEF Verify, VerifyInv, input
<1>9. BestInv'
  BY <1>1, <1>5 DEF Verify, BestInv, input
<1> QED
  BY <1>6, <1>7, <1>8, <1>9

\* Banners, NoMemory, Diverged, Finish and Fatal print one line.
LEMMA OneLineSteps ==
  ASSUME HarnessInv, phase = "off" => written = <<>>,
         Banners \/ NoMemory \/ Diverged \/ Finish \/ Fatal
  PROVE  HarnessInv'
<1> USE DEF HarnessInv
<1>1. PICK t \in Lines : written' = Append(written, t) /\ Right(t)
  <2>1. CASE Banners \/ NoMemory
    <3>1. written = <<>> /\ \A t \in Lines : Append(<<>>, t) = <<t>>
      BY <2>1 DEF Banners, NoMemory
    <3>2. written' = <<Banner>> \/ written' = <<FATAL>>
      BY <2>1 DEF Banners, NoMemory
    <3>3. Right(Banner) /\ Right(FATAL)
      BY DEF Right, Banner, FATAL, Line
    <3> QED
      BY <3>1, <3>2, <3>3, LineTypes
  <2>2. CASE Finish \/ Fatal
    BY <2>2, LineTypes DEF Finish, Fatal, Done, FATAL, Line, Right
  <2>3. CASE Diverged
    <3>1. /\ phase = "compare" /\ k \in Nat /\ \A c \in Backends(lane) : c \in Nat
      BY <2>3, BackendsFacts, HarnessAssumption DEF Diverged, TypeInv
    <3>2. PICK c \in Backends(lane) :
             ~Agrees(c) /\ written' = Append(written, Line("FAIL", k, c))
      BY <2>3 DEF Diverged
    <3>3. defect.kind \in {"flags", "state"} /\ defect.k = k /\ defect.b \in {0, c}
      BY <3>1, <3>2, DisagreementAccuses DEF VerifyInv
    <3>4. Line("FAIL", k, c) \in Lines
      BY <3>1, LineType
    <3> QED
      BY <3>2, <3>3, <3>4 DEF Line, Right
  <2> QED
    BY <2>1, <2>2, <2>3
<1>2. UNCHANGED <<defect, lane, reps, k, b, r, cpu, full, reduced, best, measured, calls>>
  BY DEF Banners, NoMemory, Diverged, Finish, Fatal, input, result, history
<1>3. /\ phase' \in {"verify", "exit"} /\ (loaded' = loaded \/ loaded' = FALSE)
      /\ loaded' => loaded /\ phase \in {"off", "compare", "end"}
      /\ phase' = "verify" => phase = "off"
  BY DEF Banners, NoMemory, Diverged, Finish, Fatal, TypeInv
<1>4. written' \in Seq(Lines) /\ \A j \in 1 .. Len(written') : Right(written[j])'
  <2>1. /\ <<t>> \in Seq(Lines) /\ written' = written \o <<t>>
        /\ \A j \in 1 .. Len(<<t>>) : Right(<<t>>[j])
    BY <1>1, OneLine
  <2> QED
    BY <1>2, <2>1, Appended DEF VerifyInv
<1>5. TypeInv'
  BY <1>2, <1>3, <1>4 DEF TypeInv
<1>6. LoopInv'
  <2>1. k \in 0 .. Kernels /\ (phase = "off" => k < Kernels /\ b = 0)
    BY DEF TypeInv, LoopInv
  <2> QED
    BY <1>2, <1>3, <2>1 DEF LoopInv, setup_kernel
<1>7. VerifyInv'
  <2>1. phase' = "verify" => b' = 0
    BY <1>2, <1>3 DEF LoopInv
  <2>2. \A c \in Backends(lane) : ~(c < 0)
    BY BackendsFacts DEF TypeInv
  <2> QED
    BY <1>2, <1>3, <1>4, <2>1, <2>2 DEF VerifyInv
<1>8. BestInv'
  BY <1>2, <1>3 DEF BestInv
<1> QED
  BY <1>5, <1>6, <1>7, <1>8

\* A step that prints nothing and stays in the timing phases keeps what
\* verification has established.
LEMMA StillVerified ==
  ASSUME VerifyInv, phase \in {"warmup", "timed"}, phase' \in {"warmup", "timed"},
         UNCHANGED <<defect, lane, k, written>>
  PROVE  VerifyInv'
BY DEF VerifyInv, Clean, Right

LEMMA WarmUpStep ==
  ASSUME HarnessInv, WarmUp
  PROVE  HarnessInv'
<1> USE DEF HarnessInv
<1>1. /\ phase = "warmup" /\ Call /\ k < Kernels /\ b \in Backends(lane) /\ loaded' = FALSE
      /\ UNCHANGED <<defect, lane, reps, k, r, full, reduced, written, measured>>
      /\ r \in Nat /\ reps \in Int
  BY DEF WarmUp, Call, LoopInv, TypeInv, input
<1>2. /\ phase' \in {"warmup", "timed"} /\ b' \in Backends(lane)
      /\ phase' = "timed" => b' = 0 /\ best' = [c \in Backends(lane) |-> INF]
      /\ DOMAIN best' = Backends(lane)
  BY <1>1, NextBackendIsBackend DEF WarmUp, NextBackend, TypeInv
<1>3. TypeInv'
  BY <1>1, <1>2 DEF TypeInv
<1>4. LoopInv'
  <2>1. \A call \in calls' : call.from = setup_kernel(k)
    BY <1>1 DEF Call, LoopInv
  <2> QED
    BY <1>1, <1>2, <2>1 DEF LoopInv, setup_kernel
<1>5. VerifyInv'
  BY <1>1, <1>2, StillVerified
<1>6. BestInv'
  <2>1. \A c \in Backends(lane) : measured'[c] = {}
    BY <1>1 DEF BestInv
  <2>2. IsLeast(INF, {} \cup {INF})
    BY InfIsNat DEF IsLeast
  <2>3. phase' = "timed" => \A c \in Backends(lane) : IsLeast(best'[c], measured'[c] \cup {INF})
    BY <1>2, <2>1, <2>2
  <2> QED
    BY <1>1, <1>2, <2>1, <2>3 DEF BestInv, IsLeast
<1> QED
  BY <1>3, <1>4, <1>5, <1>6

LEMMA TimedStep ==
  ASSUME HarnessInv, Timed
  PROVE  HarnessInv'
<1> USE DEF HarnessInv
<1>1. /\ phase = "timed" /\ phase' = "timed" /\ Call /\ k < Kernels /\ b \in Backends(lane)
      /\ loaded' = FALSE /\ loaded
      /\ UNCHANGED <<defect, lane, reps, k, full, reduced, written>>
      /\ r \in Nat /\ reps \in Int /\ r < reps
  BY DEF Timed, Call, LoopInv, TypeInv, input
<1>2. PICK dt \in Times :
         /\ best' = [best EXCEPT ![b] = IF dt < @ THEN dt ELSE @]
         /\ measured' = [measured EXCEPT ![b] = @ \cup {dt}]
  BY DEF Timed
<1>3. /\ b' \in Backends(lane) /\ r' \in Nat
      /\ r' >= reps => b' = 0
  BY <1>1, NextBackendIsBackend DEF Timed
<1>4. TypeInv'
  BY <1>1, <1>2, <1>3 DEF TypeInv
<1>5. LoopInv'
  <2>1. \A call \in calls' : call.from = setup_kernel(k)
    BY <1>1 DEF Call, LoopInv
  <2> QED
    BY <1>1, <1>3, <2>1 DEF LoopInv, setup_kernel
<1>6. VerifyInv'
  BY <1>1, StillVerified
<1>7. BestInv'
  <2>1. ASSUME NEW c \in Backends(lane)
        PROVE  measured'[c] \subseteq Nat /\ IsLeast(best'[c], measured'[c] \cup {INF})
    <3>1. /\ measured[c] \subseteq Nat /\ IsLeast(best[c], measured[c] \cup {INF})
          /\ INF \in Nat /\ dt \in Nat
      BY <1>1, InfIsNat, HarnessAssumption DEF BestInv
    <3>2. CASE c # b
      BY <1>1, <1>2, <3>1, <3>2 DEF TypeInv
    <3>3. CASE c = b
      <4>1. /\ best'[c] = IF dt < best[c] THEN dt ELSE best[c]
            /\ measured'[c] = measured[c] \cup {dt}
        BY <1>1, <1>2, <3>3 DEF TypeInv
      <4>2. best[c] \in measured[c] \cup {INF} /\ \A u \in measured[c] \cup {INF} : best[c] <= u /\ u \in Nat
        BY <3>1 DEF IsLeast
      <4> QED
        BY <3>1, <4>1, <4>2 DEF IsLeast
    <3> QED
      BY <3>2, <3>3
  <2> QED
    BY <1>1, <2>1 DEF BestInv, IsLeast
<1> QED
  BY <1>4, <1>5, <1>6, <1>7

LEMMA FiguresStep ==
  ASSUME HarnessInv, Figures
  PROVE  HarnessInv'
<1> USE DEF HarnessInv
<1>1. /\ phase = "timed" /\ k < Kernels /\ b = 0 /\ ~loaded /\ lane' = lane
      /\ k \in Nat /\ r \in Nat /\ Kernels \in Nat
  BY HarnessAssumption DEF Figures, LoopInv, TypeInv, input
<1>2. /\ phase' = IF k + 1 < Kernels THEN "verify" ELSE "end"
      /\ k' = k + 1 /\ r' = 0 /\ calls' = {}
      /\ measured' = [c \in Backends(lane) |-> {}]
      /\ UNCHANGED <<defect, lane, reps, b, loaded, cpu, full, reduced, best>>
  BY DEF Figures, input, result
<1>3. written' \in Seq(Lines) /\ \A j \in 1 .. Len(written') : Right(written[j])'
  <2>1. Clean(k)
    BY <1>1 DEF VerifyInv
  <2>2. /\ Figs \in Seq(Lines) /\ written' = written \o Figs
        /\ \A j \in 1 .. Len(Figs) : Right(Figs[j])
    BY <2>1, FigsType DEF Figures, Figs, Right
  <2> QED
    BY <1>2, <2>2, Appended DEF VerifyInv
<1>4. TypeInv'
  BY <1>1, <1>2, <1>3 DEF TypeInv
<1>5. LoopInv'
  BY <1>1, <1>2 DEF LoopInv
<1>6. VerifyInv'
  <2>1. \A c \in Backends(lane) : ~(c < 0)
    BY BackendsFacts DEF TypeInv
  <2> QED
    BY <1>1, <1>2, <1>3, <2>1 DEF VerifyInv
<1>7. BestInv'
  BY <1>2 DEF BestInv
<1> QED
  BY <1>4, <1>5, <1>6, <1>7

LEMMA MainStep ==
  ASSUME HarnessInv, phase = "off" => written = <<>>, Main
  PROVE  HarnessInv'
BY QuietSteps, VerifyStep, OneLineSteps, WarmUpStep, TimedStep, FiguresStep DEF Main
----------------------------------------------------------------------------
\* The runner. A page that has not started has written nothing; a timer
\* belongs to an iteration that has come to its race.
RunnerInv ==
    /\ i \in 1 .. Browsers /\ timers \subseteq 1 .. i
    /\ phase = "off" => written = <<>>
    /\ stage \in {"launch", "goto"} => phase = "off"
    /\ stage \in {"launch", "goto", "loading"} => i \notin timers
    /\ stage \in {"goto", "loading"} => ~expired
    /\ expired /\ stage # "launch" => i \notin timers
    /\ stage = "close" /\ ~finished => expired

Inv == HarnessInv /\ RunnerInv

LEMMA UnstartedInv == lane \in Lanes /\ reps \in Int /\ Unstarted => HarnessInv
<1> SUFFICES ASSUME lane \in Lanes, reps \in Int, Unstarted
             PROVE  HarnessInv
  OBVIOUS
<1>1. 0 \in Backends(lane) /\ Kernels \in 1 .. NONE /\ Sound \in Defects(lane)
  BY BackendsFacts, HarnessAssumption, SoundIsDefect
<1>2. TypeInv
  <2>1. k = 0 /\ b = 0 /\ r = 0 /\ loaded = FALSE /\ phase = "off" /\ defect = Sound
    BY DEF Unstarted
  <2>2. /\ DOMAIN full = Backends(lane) /\ DOMAIN reduced = Backends(lane)
        /\ DOMAIN best = Backends(lane) /\ DOMAIN measured = Backends(lane)
    BY DEF Unstarted
  <2>3. written \in Seq(Lines)
    BY DEF Unstarted
  <2>4. 0 \in 0 .. Kernels
    BY <1>1 DEF NONE
  <2> QED
    BY <1>1, <2>1, <2>2, <2>3, <2>4 DEF TypeInv
<1>3. LoopInv
  BY DEF Unstarted, LoopInv
<1>4. VerifyInv
  BY DEF Unstarted, VerifyInv
<1>5. BestInv
  BY DEF Unstarted, BestInv
<1> QED
  BY <1>2, <1>3, <1>4, <1>5 DEF HarnessInv

LEMMA InitInv == Init => Inv
<1> SUFFICES ASSUME Init
             PROVE  Inv
  OBVIOUS
<1>1. HarnessInv
  BY UnstartedInv, BrowsersAssumption DEF Init
<1>2. RunnerInv
  BY BrowsersAssumption DEF Init, Unstarted, RunnerInv
<1> QED
  BY <1>1, <1>2 DEF Inv

LEMMA InvStep == Inv /\ [Next]_vars => Inv'
<1> SUFFICES ASSUME Inv, [Next]_vars
             PROVE  Inv'
  OBVIOUS
<1>1. HarnessInv /\ RunnerInv
  BY DEF Inv
<1>2. i \in Nat /\ Browsers \in Nat
  BY <1>1, BrowsersAssumption DEF RunnerInv
<1>3. ASSUME UNCHANGED hvars
      PROVE  HarnessInv'
  <2>1. TypeInv'
    BY <1>1, <1>3 DEF hvars, input, loop, result, history, HarnessInv, TypeInv
  <2>2. LoopInv'
    BY <1>1, <1>3 DEF hvars, input, loop, result, history, HarnessInv, LoopInv, setup_kernel
  <2>3. VerifyInv'
    BY <1>1, <1>3 DEF hvars, input, loop, result, history, HarnessInv, VerifyInv,
       Hashed, Hits, Ran, Clean, Right
  <2>4. BestInv'
    BY <1>1, <1>3 DEF hvars, input, loop, result, history, HarnessInv, BestInv
  <2> QED
    BY <2>1, <2>2, <2>3, <2>4 DEF HarnessInv
<1>4. CASE Page
  <2>1. HarnessInv'
    BY <1>1, <1>4, MainStep DEF Page, RunnerInv
  <2>2. phase' # "off" \/ UNCHANGED <<phase, written>>
    BY <1>1, <1>4 DEF Page, Main, Banners, NoMemory, Setup, Verify, Agree, Diverged, WarmUp,
       Timed, Figures, Finish, Fatal, Trap, NextBackend, HarnessInv, LoopInv, Call
  <2>3. RunnerInv'
    BY <1>1, <1>4, <2>2 DEF Page, runner, RunnerInv
  <2> QED
    BY <2>1, <2>3 DEF Inv
<1>5. CASE Deliver
  BY <1>1, <1>3, <1>5 DEF Deliver, hvars, loop, RunnerInv, Inv
<1>6. CASE Goto
  <2>1. /\ phase = "off" /\ written = <<>> /\ b = 0 /\ defect' \in Defects(lane)
        /\ UNCHANGED <<lane, reps, phase, k, b, r, loaded, cpu, full, reduced, best,
                       written, measured, calls>>
    BY <1>1, <1>6 DEF Goto, RunnerInv, HarnessInv, LoopInv, input, loop, result, history
  <2>2. TypeInv' /\ LoopInv' /\ VerifyInv' /\ BestInv'
    <3>1. TypeInv'
      BY <1>1, <2>1 DEF HarnessInv, TypeInv
    <3>2. LoopInv'
      BY <1>1, <2>1 DEF HarnessInv, LoopInv, setup_kernel
    <3>3. VerifyInv'
      BY <2>1 DEF VerifyInv
    <3>4. BestInv'
      BY <1>1, <2>1 DEF HarnessInv, BestInv
    <3> QED
      BY <3>1, <3>2, <3>3, <3>4
  <2>3. RunnerInv'
    BY <1>1, <1>6, <2>1 DEF Goto, RunnerInv
  <2> QED
    BY <2>2, <2>3 DEF Inv, HarnessInv
<1>7. CASE NewPage \/ Loaded \/ Report \/ Exit \/ Reject
  <2>1. HarnessInv'
    BY <1>3, <1>7 DEF NewPage, Loaded, Report, Exit, Reject
  <2>2. UNCHANGED <<phase, written>>
    BY <1>7 DEF NewPage, Loaded, Report, Exit, Reject, hvars, loop
  <2>3. RunnerInv'
    <3>1. CASE NewPage
      BY <1>1, <2>2, <3>1 DEF NewPage, RunnerInv
    <3>2. CASE Loaded
      BY <1>1, <1>2, <2>2, <3>2 DEF Loaded, RunnerInv
    <3>3. CASE Report
      BY <1>1, <2>2, <3>3 DEF Report, RunnerInv
    <3>4. CASE Exit
      BY <1>1, <2>2, <3>4 DEF Exit, RunnerInv
    <3>5. CASE Reject
      BY <1>1, <2>2, <3>5 DEF Reject, RunnerInv
    <3> QED
      BY <1>7, <3>1, <3>2, <3>3, <3>4, <3>5
  <2> QED
    BY <2>1, <2>3 DEF Inv
<1>8. CASE Close
  <2>1. Unstarted' /\ UNCHANGED <<lane, reps>>
    BY <1>8 DEF Close, NoPage, Unstarted, input
  <2>2. HarnessInv'
    <3>1. lane \in Lanes /\ reps \in Int /\ lane' = lane /\ reps' = reps
      BY <1>1, <2>1 DEF HarnessInv, TypeInv
    <3>2. lane' \in Lanes /\ reps' \in Int /\ Unstarted'
      BY <2>1, <3>1
    <3>3. (lane \in Lanes /\ reps \in Int /\ Unstarted => HarnessInv)'
      BY UnstartedInv, PTL
    <3> QED
      BY <3>2, <3>3
  <2>3. phase' = "off" /\ written' = <<>>
    BY <2>1 DEF Unstarted
  <2>4. RunnerInv'
    BY <1>1, <1>2, <1>8, <2>3 DEF Close, RunnerInv
  <2> QED
    BY <2>2, <2>4 DEF Inv
<1>9. CASE Timeout
  <2>1. HarnessInv' /\ UNCHANGED <<phase, written>>
    BY <1>3, <1>9 DEF Timeout, hvars, loop
  <2>2. RunnerInv'
    BY <1>1, <1>9, <2>1 DEF Timeout, RunnerInv
  <2> QED
    BY <2>1, <2>2 DEF Inv
<1>10. CASE UNCHANGED vars
  BY <1>1, <1>3, <1>10 DEF vars, hvars, loop, runner, RunnerInv, Inv
<1> QED
  BY <1>4, <1>5, <1>6, <1>7, <1>8, <1>9, <1>10 DEF Next, Iteration

LEMMA AlwaysInv == Spec => []Inv
BY InitInv, InvStep, PTL DEF Spec
----------------------------------------------------------------------------
\* What has been delivered is what was written; Done is written last.
Begins(s, t) == Len(s) <= Len(t) /\ \A j \in 1 .. Len(s) : s[j] = t[j]

OwnInv ==
    /\ lines \in Seq(Lines) /\ report \in Seq(Lines)
    /\ \A j \in 1 .. Len(written) : written[j] = Done => phase = "exit" /\ j = Len(written)
    /\ stage \in {"goto", "loading", "race", "close"} =>
          /\ Begins(lines, written) /\ seen \in 0 .. Len(written)
          /\ seen = Len(lines) \/ (phase = "exit" /\ seen = Len(written))
    /\ stage = "close" => Begins(report, written)

\* The lines that resolve the promise; the page writes nothing after one.
Ends(t) == t.tag \in {"benchmark done", "FAIL", "FATAL"}

LEMMA LastLines == Ends(Done) /\ Ends(FATAL) /\ ~Ends(Banner)
BY DEF Ends, Done, FATAL, Banner, Line

\* The page only appends, and after its last line nothing.
LEMMA PageAppends ==
  ASSUME Inv, Main
  PROVE  \E more \in Seq(Lines) :
            /\ written' = written \o more
            /\ phase = "exit" => more = <<>> /\ phase' = "exit"
            /\ \A j \in 1 .. Len(more) : Ends(more[j]) => phase' = "exit" /\ j = Len(more)
<1> USE DEF Inv, HarnessInv
<1>1. /\ <<>> \in Seq(Lines) /\ written = written \o <<>> /\ Len(<<>>) = 0
      /\ written \in Seq(Lines)
  BY DEF TypeInv
<1>2. CASE Setup \/ Verify \/ Agree \/ WarmUp \/ Timed \/ Trap
  <2>1. written' = written /\ phase # "exit"
    BY <1>2 DEF Setup, Verify, Agree, WarmUp, Timed, Trap, LoopInv
  <2> WITNESS <<>> \in Seq(Lines)
  <2> QED
    BY <1>1, <2>1
<1>3. CASE Banners \/ NoMemory \/ Diverged \/ Finish \/ Fatal
  <2>1. PICK t : /\ written' = Append(written, t) /\ t \in Lines
                 /\ Ends(t) => phase' = "exit"
    <3>1. CASE Banners \/ NoMemory
      <4>1. written = <<>> /\ \A t \in Lines : Append(<<>>, t) = <<t>>
        BY <1>3, <3>1 DEF Banners, NoMemory, RunnerInv
      <4>2. written' = <<Banner>> \/ written' = <<FATAL>>
        BY <3>1 DEF Banners, NoMemory
      <4>3. written' = <<FATAL>> => phase' = "exit"
        <5>1. <<Banner>> # <<FATAL>>
          <6>1. <<Banner>>[1] = Banner /\ <<FATAL>>[1] = FATAL
            OBVIOUS
          <6> QED
            BY <6>1, LastLines
        <5> QED
          BY <3>1, <5>1 DEF Banners, NoMemory
      <4> QED
        BY <4>1, <4>2, <4>3, LineTypes, LastLines
    <3>2. CASE Finish \/ Fatal
      BY <3>2, LineTypes DEF Finish, Fatal
    <3>3. CASE Diverged
      <4>1. k \in Nat /\ \A c \in Backends(lane) : c \in Nat
        BY BackendsFacts, HarnessAssumption DEF TypeInv
      <4>2. \A c \in Backends(lane) : Line("FAIL", k, c) \in Lines
        BY <4>1, LineType
      <4> QED
        BY <3>3, <4>2 DEF Diverged
    <3> QED
      BY <1>3, <3>1, <3>2, <3>3
  <2>2. phase # "exit"
    BY <1>3 DEF Banners, NoMemory, Diverged, Finish, Fatal, LoopInv
  <2>3. written' = written \o <<t>> /\ <<t>> \in Seq(Lines) /\ Len(<<t>>) = 1 /\ <<t>>[1] = t
    BY <2>1, OneLine
  <2> USE <2>3
  <2> WITNESS <<t>> \in Seq(Lines)
  <2> QED
    BY <2>1, <2>2, <2>3
<1>4. CASE Figures
  <2>1. written' = written \o Figs /\ Figs \in Seq(Lines) /\ phase # "exit"
    BY <1>4, FigsType DEF Figures, Figs
  <2>2. \A j \in 1 .. Len(Figs) : ~Ends(Figs[j])
    <3>1. \A j \in 1 .. Len(Figs) : Figs[j].tag = "figure"
      BY FigsType
    <3> QED
      BY <3>1 DEF Ends
  <2> QED
    BY <2>1, <2>2
<1> QED
  BY <1>2, <1>3, <1>4 DEF Main

LEMMA Longer ==
  ASSUME NEW s \in Seq(Lines), NEW t \in Seq(Lines), NEW more \in Seq(Lines), Begins(s, t)
  PROVE  Begins(s, t \o more)
BY DEF Begins

LEMMA OwnInit == Init => OwnInv
BY DEF Init, Unstarted, OwnInv

LEMMA OwnStep == Inv /\ OwnInv /\ [Next]_vars => OwnInv'
<1> SUFFICES ASSUME Inv, OwnInv, [Next]_vars
             PROVE  OwnInv'
  OBVIOUS
<1>1. written \in Seq(Lines) /\ lines \in Seq(Lines) /\ report \in Seq(Lines)
  BY DEF Inv, HarnessInv, TypeInv, OwnInv
<1>2. CASE Page
  <2>1. PICK more \in Seq(Lines) :
            /\ written' = written \o more
            /\ phase = "exit" => more = <<>> /\ phase' = "exit"
            /\ \A j \in 1 .. Len(more) : more[j] = Done => phase' = "exit" /\ j = Len(more)
    BY <1>2, PageAppends, LastLines DEF Page
  <2>2. UNCHANGED <<lines, report, stage, seen>>
    BY <1>2 DEF Page, runner
  <2>3. /\ Len(written') = Len(written) + Len(more) /\ Len(more) \in Nat
        /\ Len(written) \in Nat /\ (phase = "exit" => Len(more) = 0)
    BY <1>1, <2>1
  <2>4. ASSUME NEW j \in 1 .. Len(written'), written'[j] = Done
        PROVE  phase' = "exit" /\ j = Len(written')
    <3>1. CASE j <= Len(written)
      <4>1. written[j] = Done
        BY <1>1, <2>1, <2>4, <3>1
      <4>2. phase = "exit" /\ j = Len(written)
        BY <3>1, <4>1 DEF OwnInv
      <4> QED
        BY <2>1, <2>3, <4>2
    <3>2. CASE j > Len(written)
      <4>1. /\ j - Len(written) \in 1 .. Len(more)
            /\ more[j - Len(written)] = Done
        BY <1>1, <2>1, <2>3, <2>4, <3>2
      <4> QED
        BY <2>1, <2>3, <4>1
    <3> QED
      BY <2>3, <3>1, <3>2
  <2>5. ASSUME Begins(lines, written)
        PROVE  Begins(lines, written')
    BY <1>1, <2>1, <2>5, Longer
  <2>6. ASSUME Begins(report, written)
        PROVE  Begins(report, written')
    BY <1>1, <2>1, <2>6, Longer
  <2> QED
    BY <1>1, <2>1, <2>2, <2>3, <2>4, <2>5, <2>6 DEF OwnInv
<1>3. CASE Deliver
  <2> DEFINE t == written[seen + 1]
  <2>1. /\ stage \in {"loading", "race", "close"} /\ seen < Len(written)
        /\ UNCHANGED <<written, phase, stage, report>> /\ seen' = seen + 1
        /\ lines' = IF t = Done THEN lines ELSE Append(lines, t)
    BY <1>3 DEF Deliver, hvars, loop
  <2>2. /\ Begins(lines, written) /\ seen \in 0 .. Len(written) /\ seen = Len(lines)
        /\ seen + 1 \in 1 .. Len(written) /\ Len(written) \in Nat /\ t \in Lines
    BY <1>1, <2>1 DEF OwnInv
  <2>3. CASE t = Done
    BY <2>1, <2>2, <2>3 DEF OwnInv
  <2>4. CASE t # Done
    <3>1. /\ lines' = Append(lines, t) /\ lines' \in Seq(Lines) /\ Len(lines') = seen + 1
          /\ \A j \in 1 .. seen : lines'[j] = lines[j]
          /\ lines'[seen + 1] = t
      BY <1>1, <2>1, <2>2, <2>4
    <3>2. Begins(lines', written)
      BY <2>2, <3>1 DEF Begins
    <3> QED
      BY <2>1, <2>2, <3>1, <3>2 DEF OwnInv
  <2> QED
    BY <2>3, <2>4
<1>4. CASE NewPage
  <2>1. /\ stage = "launch" /\ stage' = "goto" /\ lines' = <<>> /\ seen' = 0
        /\ UNCHANGED <<phase, written, report>>
    BY <1>4 DEF NewPage, hvars, loop
  <2>2. Begins(<<>>, written) /\ Len(written) \in Nat /\ <<>> \in Seq(Lines) /\ Len(<<>>) = 0
    BY <1>1 DEF Begins
  <2> QED
    BY <2>1, <2>2 DEF OwnInv
<1>5. CASE Goto \/ Loaded \/ Exit \/ Reject
  <2>1. /\ UNCHANGED <<phase, written, lines, seen, report>>
        /\ \/ stage = "goto" /\ stage' = "loading"
           \/ stage = "loading" /\ stage' = "race"
           \/ stage' \in {"over", "failed"}
    BY <1>5 DEF Goto, Loaded, Exit, Reject, hvars, loop
  <2> QED
    BY <2>1 DEF OwnInv
<1>6. CASE Report
  BY <1>6 DEF Report, hvars, loop, OwnInv
<1>7. CASE Close
  <2>1. /\ written' = <<>> /\ report' = <<>> /\ lines' = lines
        /\ stage' \in {"launch", "exit"} /\ <<>> \in Seq(Lines)
    BY <1>7 DEF Close, NoPage
  <2> QED
    BY <2>1 DEF OwnInv
<1>8. CASE Timeout \/ UNCHANGED vars
  <2>1. UNCHANGED <<phase, written, lines, seen, report, stage>>
    BY <1>8 DEF Timeout, vars, hvars, loop, runner
  <2> QED
    BY <2>1 DEF OwnInv
<1> QED
  BY <1>2, <1>3, <1>4, <1>5, <1>6, <1>7, <1>8 DEF Next, Iteration
----------------------------------------------------------------------------
\* Once the last line has been delivered the lines kept are all but "benchmark
\* done", and no other can come.
WholeInv ==
    /\ \A j \in 1 .. Len(written) : Ends(written[j]) => j = Len(written) /\ phase = "exit"
    /\ stage \in {"goto", "loading", "race", "close"} =>
          /\ finished => seen = Len(written) /\ phase = "exit"
          /\ \A j \in 1 .. Len(lines) : lines[j] # Done
          /\ seen = Len(lines) \/ (seen = Len(written) /\ written = Append(lines, Done))
    /\ stage = "close" /\ ~expired => finished /\ report = lines

LEMMA WholeInit == Init => WholeInv
BY DEF Init, Unstarted, WholeInv

LEMMA WholeDeliver ==
  ASSUME Inv, OwnInv, WholeInv, Deliver
  PROVE  WholeInv'
<1> DEFINE t == written[seen + 1]
<1>1. /\ stage \in {"loading", "race", "close"} /\ seen < Len(written)
      /\ UNCHANGED <<written, phase, stage, report, expired>> /\ seen' = seen + 1
      /\ lines' = IF t = Done THEN lines ELSE Append(lines, t)
      /\ finished' = (finished \/ Ends(t))
  BY DEF Deliver, hvars, loop, Ends
<1>2. /\ written \in Seq(Lines) /\ lines \in Seq(Lines) /\ Len(written) \in Nat
      /\ seen = Len(lines) /\ seen \in Nat /\ seen + 1 \in 1 .. Len(written) /\ t \in Lines
      /\ ~finished /\ (stage = "close" => expired) /\ Begins(lines, written)
      /\ \A j \in 1 .. Len(lines) : lines[j] # Done
  BY <1>1 DEF Inv, HarnessInv, TypeInv, OwnInv, WholeInv
<1>3. Ends(t) => seen + 1 = Len(written) /\ phase = "exit"
  BY <1>2 DEF WholeInv
<1>4. CASE t = Done
  <2>1. Len(written) = Len(lines) + 1 /\ written[Len(written)] = Done
    BY <1>2, <1>3, <1>4, LastLines
  <2>2. written = Append(lines, Done)
    <3>1. /\ Append(lines, Done) \in Seq(Lines) /\ Len(Append(lines, Done)) = Len(written)
          /\ Append(lines, Done)[Len(written)] = Done
          /\ \A j \in 1 .. Len(lines) : Append(lines, Done)[j] = lines[j]
      BY <1>2, <2>1, LineTypes
    <3>2. \A j \in 1 .. Len(written) : written[j] = Append(lines, Done)[j]
      BY <1>2, <2>1, <3>1 DEF Begins
    <3> QED
      BY <1>2, <3>1, <3>2
  <2>3. lines' = lines /\ seen' = Len(written)
    BY <1>1, <1>2, <1>4, <2>1
  <2> QED
    BY <1>1, <1>2, <1>3, <1>4, <2>2, <2>3, LastLines DEF WholeInv
<1>5. CASE t # Done
  <2>1. lines' = Append(lines, t) /\ Len(lines') = seen' /\ \A j \in 1 .. Len(lines') : lines'[j] # Done
    BY <1>1, <1>2, <1>5
  <2> QED
    BY <1>1, <1>2, <1>3, <2>1 DEF WholeInv
<1> QED
  BY <1>4, <1>5

LEMMA WholeStep == Inv /\ OwnInv /\ WholeInv /\ [Next]_vars => WholeInv'
<1> SUFFICES ASSUME Inv, OwnInv, WholeInv, [Next]_vars
             PROVE  WholeInv'
  OBVIOUS
<1>1. written \in Seq(Lines) /\ lines \in Seq(Lines) /\ report \in Seq(Lines)
  BY DEF Inv, HarnessInv, TypeInv, OwnInv
<1>2. CASE Page
  <2>1. PICK more \in Seq(Lines) :
            /\ written' = written \o more
            /\ phase = "exit" => more = <<>> /\ phase' = "exit"
            /\ \A j \in 1 .. Len(more) : Ends(more[j]) => phase' = "exit" /\ j = Len(more)
    BY <1>2, PageAppends DEF Page
  <2>2. UNCHANGED <<lines, report, stage, seen, finished, expired>>
    BY <1>2 DEF Page, runner
  <2>3. CASE phase = "exit"
    <3>1. written' = written /\ phase' = phase
      BY <1>1, <2>1, <2>3
    <3> QED
      BY <2>2, <3>1 DEF WholeInv
  <2>4. CASE phase # "exit"
    <3>1. \A j \in 1 .. Len(written) : ~Ends(written[j])
      BY <2>4 DEF WholeInv
    <3>2. \A j \in 1 .. Len(written') : Ends(written'[j]) => phase' = "exit" /\ j = Len(written')
      <4> SUFFICES ASSUME NEW j \in 1 .. Len(written'), Ends(written'[j])
                   PROVE  phase' = "exit" /\ j = Len(written')
        OBVIOUS
      <4>1. Len(written') = Len(written) + Len(more) /\ Len(more) \in Nat /\ Len(written) \in Nat
        BY <1>1, <2>1
      <4>2. j > Len(written)
        <5> SUFFICES ASSUME j <= Len(written) PROVE FALSE
          BY <4>1
        <5>1. j \in 1 .. Len(written) /\ written'[j] = written[j]
          BY <1>1, <2>1, <4>1
        <5> QED
          BY <3>1, <5>1
      <4>3. j - Len(written) \in 1 .. Len(more) /\ written'[j] = more[j - Len(written)]
        BY <1>1, <2>1, <4>1, <4>2
      <4> QED
        BY <2>1, <4>1, <4>3
    <3>3. stage \in {"goto", "loading", "race", "close"} => ~finished /\ seen = Len(lines)
      <4>1. written # Append(lines, Done)
        <5> SUFFICES ASSUME written = Append(lines, Done) PROVE FALSE
          OBVIOUS
        <5>1. Len(written) \in 1 .. Len(written) /\ written[Len(written)] = Done
          BY <1>1, LineTypes
        <5> QED
          BY <3>1, <5>1, LastLines
      <4> QED
        BY <2>4, <4>1 DEF WholeInv
    <3> QED
      BY <2>2, <3>2, <3>3 DEF WholeInv
  <2> QED
    BY <2>3, <2>4
<1>3. CASE Deliver
  BY <1>3, WholeDeliver
<1>4. CASE NewPage
  <2>1. /\ stage' = "goto" /\ lines' = <<>> /\ seen' = 0 /\ finished' = FALSE
        /\ UNCHANGED <<phase, written, report>>
    BY <1>4 DEF NewPage, hvars, loop
  <2> QED
    BY <2>1 DEF WholeInv
<1>5. CASE Goto \/ Loaded \/ Exit \/ Reject
  <2>1. /\ UNCHANGED <<phase, written, lines, seen, report, finished, expired>>
        /\ \/ stage = "goto" /\ stage' = "loading"
           \/ stage = "loading" /\ stage' = "race"
           \/ stage' \in {"over", "failed"}
    BY <1>5 DEF Goto, Loaded, Exit, Reject, hvars, loop
  <2> QED
    BY <2>1 DEF WholeInv
<1>6. CASE Report
  BY <1>6 DEF Report, hvars, loop, WholeInv
<1>7. CASE Close
  <2>1. written' = <<>> /\ stage' \in {"launch", "exit"}
    BY <1>7 DEF Close, NoPage
  <2> QED
    BY <2>1 DEF WholeInv
<1>8. CASE Timeout
  BY <1>8 DEF Timeout, hvars, loop, WholeInv
<1>9. CASE UNCHANGED vars
  BY <1>9 DEF vars, hvars, loop, runner, WholeInv
<1> QED
  BY <1>2, <1>3, <1>4, <1>5, <1>6, <1>7, <1>8, <1>9 DEF Next, Iteration
----------------------------------------------------------------------------
\* The types of what is printed, measured and delivered, and how much of it
\* there is: the banner, one line per backend for every kernel done, and the
\* line the program ends with.
Room == 2 + Kernels * NBACKENDS[lane]

PrintInv ==
    /\ written \in Seq(Printed)
    /\ Len(written) <= IF phase \in {"exit", "dead"} THEN Room ELSE 1 + k * NBACKENDS[lane]
    /\ best \in [Backends(lane) -> Times \cup {INF}]
    /\ r = 0 \/ r <= reps

ArrivalInv ==
    /\ lines \in Seq(Printed) /\ seen \in 0 .. Room
    /\ stage \in {"launch", "goto", "loading", "race", "close", "exit", "over", "failed"}

\* Lines are counted in the backends of the program.
LEMMA RoomFacts ==
  ASSUME TypeInv
  PROVE  /\ NBACKENDS[lane] \in Nat /\ Kernels \in Nat /\ k \in Nat /\ Room \in Nat
         /\ k * NBACKENDS[lane] \in Nat /\ k * NBACKENDS[lane] + 2 <= Room
         /\ (k + 1) * NBACKENDS[lane] = k * NBACKENDS[lane] + NBACKENDS[lane]
<1> DEFINE nb == NBACKENDS[lane]
<1>1. nb \in Nat /\ Kernels \in Nat /\ k \in Nat /\ k <= Kernels
  BY BackendsFacts, HarnessAssumption DEF TypeInv
<1> HIDE DEF nb
<1>2. PICK d \in Nat : Kernels = k + d
  BY <1>1
<1>3. (k + d) * nb = k * nb + d * nb /\ d * nb \in Nat /\ k * nb \in Nat
  BY <1>1
<1>4. Kernels * nb = k * nb + d * nb
  BY <1>2, <1>3
<1>5. (k + 1) * nb = k * nb + nb
  BY <1>1
<1> QED
  BY <1>1, <1>3, <1>4, <1>5 DEF Room, nb

LEMMA LastBackendIsMax == ASSUME TypeInv PROVE 1 + Max(Backends(lane)) = NBACKENDS[lane]
<1> DEFINE nb == NBACKENDS[lane]
<1>1. nb \in Nat /\ nb - 1 \in Backends(lane) /\ \A c \in Backends(lane) : c \in Nat /\ nb - 1 >= c
  BY BackendsFacts DEF TypeInv, Backends
<1> HIDE DEF nb
<1>2. Max(Backends(lane)) \in Backends(lane)
      /\ \A c \in Backends(lane) : Max(Backends(lane)) >= c
  BY <1>1 DEF Max
<1>3. Max(Backends(lane)) = nb - 1
  BY <1>1, <1>2
<1> QED
  BY <1>1, <1>3 DEF nb

LEMMA PrintedLines ==
  ASSUME TypeInv, k < Kernels
  PROVE  /\ Banner \in Printed /\ Done \in Printed /\ FATAL \in Printed
         /\ \A c \in Backends(lane) : Line("FAIL", k, c) \in Printed
         /\ Figs \in Seq(Printed) /\ Len(Figs) = NBACKENDS[lane]
<1>1. Banner \in Printed /\ Done \in Printed /\ FATAL \in Printed
  BY DEF Printed
<1>2. k \in 0 .. Kernels - 1 /\ lane \in Lanes
  BY HarnessAssumption DEF TypeInv
<1>3. ASSUME NEW c \in Backends(lane), NEW tag \in {"figure", "FAIL"}
      PROVE  Line(tag, k, c) \in Printed
  <2>1. c \in UNION {Backends(l) : l \in Lanes}
    BY <1>2
  <2> QED
    BY <1>2, <2>1 DEF Printed, Line
<1>4. Figs \in Seq(Printed) /\ Len(Figs) = NBACKENDS[lane]
  <2>1. NBACKENDS[lane] \in Nat /\ \A j \in 1 .. NBACKENDS[lane] : j - 1 \in Backends(lane)
    BY BackendsFacts DEF TypeInv, Backends
  <2>2. Figs \in [1 .. NBACKENDS[lane] -> Printed]
    BY <1>3, <2>1 DEF Figs
  <2> QED
    BY <2>1, <2>2
<1> QED
  BY <1>1, <1>3, <1>4

(* Two reports joined, as _write calls in a row join them. *)
LEMMA Joined ==
  ASSUME NEW S, NEW s \in Seq(S), NEW t \in Seq(S)
  PROVE s \o t \in Seq(S) /\ Len(s \o t) = Len(s) + Len(t)
OBVIOUS

LEMMA MainPrints == ASSUME Inv, PrintInv, Main PROVE PrintInv'
<1> USE DEF Inv, HarnessInv
<1>1. /\ NBACKENDS[lane] \in Nat /\ k \in Nat /\ Kernels \in Nat /\ Room \in Nat
      /\ k * NBACKENDS[lane] \in Nat /\ k * NBACKENDS[lane] + 2 <= Room
      /\ (k + 1) * NBACKENDS[lane] = k * NBACKENDS[lane] + NBACKENDS[lane]
      /\ written \in Seq(Printed) /\ Len(written) \in Nat
  BY RoomFacts DEF PrintInv
<1>2. lane' = lane /\ reps' = reps /\ Room' = Room
  BY DEF Main, Banners, NoMemory, Setup, Verify, Agree, Diverged, WarmUp, Timed, Figures,
     Finish, Fatal, Trap, input, Room
<1>3. best' \in [Backends(lane) -> Times \cup {INF}]
  <2>1. CASE WarmUp
    BY <2>1 DEF WarmUp, PrintInv
  <2>2. CASE Timed
    BY <2>2 DEF Timed, PrintInv
  <2>3. CASE ~WarmUp /\ ~Timed
    <3>1. best' = best
      BY <2>3 DEF Main, Banners, NoMemory, Setup, Verify, Agree, Diverged, Figures,
         Finish, Fatal, Trap, result
    <3> QED
      BY <3>1 DEF PrintInv
  <2> QED
    BY <2>1, <2>2, <2>3
<1>4. r' = 0 \/ r' <= reps
  <2>1. CASE Timed
    <3>1. r < reps /\ r \in Nat /\ reps \in Int /\ r' \in {r, r + 1}
      BY <2>1 DEF Timed, Call, LoopInv, TypeInv
    <3> QED
      BY <3>1
  <2>2. CASE ~Timed
    <3>1. r' = r \/ r' = 0
      BY <2>2 DEF Main, Banners, NoMemory, Setup, Verify, Agree, Diverged, WarmUp, Figures,
         Finish, Fatal, Trap
    <3> QED
      BY <3>1 DEF PrintInv
  <2> QED
    BY <2>1, <2>2
<1> DEFINE Fits == /\ written' \in Seq(Printed)
                   /\ Len(written') <= IF phase' \in {"exit", "dead"} THEN Room
                                       ELSE 1 + k' * NBACKENDS[lane]
<1>5. CASE Setup \/ Verify \/ Agree \/ WarmUp \/ Timed \/ Trap
  <2>1. /\ written' = written /\ k' = k /\ phase \notin {"exit", "dead"}
        /\ phase' # "exit" /\ Len(written) <= 1 + k * NBACKENDS[lane]
    BY <1>5 DEF Setup, Verify, Agree, WarmUp, Timed, Trap, LoopInv, NextBackend, PrintInv
  <2>2. Fits
    BY <1>1, <2>1
  <2> QED
    BY <1>2, <1>3, <1>4, <2>2 DEF PrintInv
<1>6. CASE Banners \/ NoMemory \/ Diverged \/ Finish \/ Fatal
  <2>1. PICK t \in Printed : written' = Append(written, t)
    <3>1. CASE Banners \/ NoMemory
      <4>1. written = <<>>
        BY <3>1 DEF Banners, NoMemory, RunnerInv
      <4>2. Append(written, Banner) = <<Banner>> /\ Append(written, FATAL) = <<FATAL>>
        BY <4>1
      <4> QED
        BY <3>1, <4>2 DEF Banners, NoMemory, Printed
    <3>2. CASE Finish \/ Fatal
      BY <3>2 DEF Finish, Fatal, Printed
    <3>3. CASE Diverged
      <4>1. k < Kernels
        BY <3>3 DEF Diverged, LoopInv
      <4> QED
        BY <3>3, <4>1, PrintedLines DEF Diverged
    <3> QED
      BY <1>6, <3>1, <3>2, <3>3
  <2>2. Len(written) <= 1 + k * NBACKENDS[lane] /\ k' = k
    BY <1>6 DEF Banners, NoMemory, Diverged, Finish, Fatal, LoopInv, PrintInv
  <2>3. written' \in Seq(Printed) /\ Len(written') = Len(written) + 1
    BY <1>1, <2>1
  <2>4. phase' = "exit" \/ (phase' = "verify" /\ Len(written') = 1)
    <3>1. CASE Banners
      <4>1. Len(written) = 0 /\ phase' = "verify"
        BY <3>1 DEF Banners, RunnerInv
      <4> QED
        BY <2>3, <4>1
    <3>2. CASE NoMemory \/ Diverged \/ Finish \/ Fatal
      BY <3>2 DEF NoMemory, Diverged, Finish, Fatal
    <3> QED
      BY <1>6, <3>1, <3>2
  <2>5. CASE phase' = "exit"
    <3>1. Len(written) <= 1 + k * NBACKENDS[lane] /\ k * NBACKENDS[lane] + 2 <= Room
      BY <1>1, <2>2
    <3>2. Fits
      BY <1>1, <2>3, <2>5, <3>1
    <3> QED
      BY <1>2, <1>3, <1>4, <3>2 DEF PrintInv
  <2>6. CASE phase' = "verify" /\ Len(written') = 1
    <3> DEFINE n == k' * NBACKENDS[lane]
    <3>1. n \in Nat
      BY <1>1, <2>2
    <3> HIDE DEF n
    <3>2. Len(written') <= 1 + n
      BY <2>6, <3>1
    <3>3. Fits
      BY <2>3, <2>6, <3>2 DEF n
    <3> QED
      BY <1>2, <1>3, <1>4, <3>3 DEF PrintInv
  <2> QED
    BY <2>4, <2>5, <2>6
<1>7. CASE Figures
  <2>1. /\ k < Kernels /\ k' = k + 1 /\ phase' \in {"verify", "end"} /\ written' = written \o Figs
        /\ Len(written) <= 1 + k * NBACKENDS[lane]
    BY <1>7 DEF Figures, Figs, LoopInv, PrintInv
  <2>2. Figs \in Seq(Printed) /\ Len(Figs) = NBACKENDS[lane]
    BY <2>1, PrintedLines
  <2>3. written' \in Seq(Printed) /\ Len(written') = Len(written) + NBACKENDS[lane]
    <3>1. written \in Seq(Printed)
      BY <1>1
    <3>2. /\ written \o Figs \in Seq(Printed)
          /\ Len(written \o Figs) = Len(written) + Len(Figs)
      BY <3>1, <2>2, Joined
    <3> QED
      BY <2>1, <2>2, <3>2
  <2>4. /\ k \in Nat /\ NBACKENDS[lane] \in Nat /\ Len(written) \in Nat
        /\ phase' \notin {"exit", "dead"}
    BY <1>1, <2>1, <2>2
  <2>5. Len(written') <= 1 + k' * NBACKENDS[lane]
    <3> DEFINE w == NBACKENDS[lane]
               l == Len(written)
    <3> HIDE DEF w, l
    <3>1. k \in Nat /\ w \in Nat /\ l \in Nat /\ l <= 1 + k * w
      BY <2>1, <2>4 DEF w, l
    <3>2. (k + 1) * w = k * w + w
      BY <3>1
    <3>3. l + w <= 1 + (k + 1) * w
      <4> DEFINE kw == k * w
      <4>1. kw \in Nat
        BY <3>1
      <4> HIDE DEF kw
      <4>2. l <= 1 + kw /\ (k + 1) * w = kw + w
        BY <3>1, <3>2 DEF kw
      <4> QED
        BY <3>1, <4>1, <4>2
    <3> QED
      BY <2>1, <2>3, <3>3 DEF w, l
  <2>6. Fits
    BY <2>3, <2>4, <2>5
  <2> QED
    BY <1>2, <1>3, <1>4, <2>6 DEF PrintInv
<1> QED
  BY <1>5, <1>6, <1>7 DEF Main

LEMMA UnstartedPrints == TypeInv /\ Unstarted => PrintInv
<1> SUFFICES ASSUME TypeInv, Unstarted PROVE PrintInv
  OBVIOUS
<1>1. NBACKENDS[lane] \in Nat /\ 0 * NBACKENDS[lane] = 0
  BY RoomFacts
<1>2. written = <<>> /\ Len(written) = 0 /\ k = 0 /\ r = 0 /\ phase = "off"
      /\ best = [c \in Backends(lane) |-> INF]
  BY DEF Unstarted
<1> QED
  BY <1>1, <1>2 DEF PrintInv

LEMMA TypesInit == Init => PrintInv /\ ArrivalInv
<1> SUFFICES ASSUME Init PROVE PrintInv /\ ArrivalInv
  OBVIOUS
<1>1. TypeInv
  BY InitInv DEF Inv, HarnessInv
<1>2. PrintInv
  BY <1>1, UnstartedPrints DEF Init
<1> QED
  BY <1>1, <1>2, RoomFacts DEF Init, ArrivalInv

LEMMA TypesStep == Inv /\ PrintInv /\ ArrivalInv /\ [Next]_vars => PrintInv' /\ ArrivalInv'
<1> SUFFICES ASSUME Inv, PrintInv, ArrivalInv, [Next]_vars
             PROVE  PrintInv' /\ ArrivalInv'
  OBVIOUS
<1>1. Inv'
  BY InvStep
<1>2. lane' = lane /\ reps' = reps /\ Room' = Room
  BY DEF Next, Page, Main, Banners, NoMemory, Setup, Verify, Agree, Diverged, WarmUp, Timed,
     Figures, Finish, Fatal, Trap, Deliver, Iteration, NewPage, Goto, Loaded, Report, Close,
     Exit, Reject, Timeout, vars, hvars, input, Room
<1>3. Room \in Nat /\ TypeInv /\ TypeInv'
  BY <1>1, RoomFacts DEF Inv, HarnessInv
<1>4. ASSUME UNCHANGED <<written, phase, k, best, r>> PROVE PrintInv'
  BY <1>2, <1>4 DEF PrintInv
<1>5. ASSUME UNCHANGED <<lines, seen>>,
             stage' \in {"launch", "goto", "loading", "race", "close", "exit", "over", "failed"}
      PROVE  ArrivalInv'
  BY <1>2, <1>5 DEF ArrivalInv
<1>6. CASE Page
  <2>1. PrintInv'
    BY <1>6, MainPrints DEF Page
  <2>2. UNCHANGED <<lines, seen, stage>>
    BY <1>6 DEF Page, runner
  <2> QED
    BY <1>5, <2>1, <2>2 DEF ArrivalInv
<1>7. CASE Deliver
  <2> DEFINE t == written[seen + 1]
  <2>1. /\ seen < Len(written) /\ seen' = seen + 1 /\ stage' = stage
        /\ lines' = IF t = Done THEN lines ELSE Append(lines, t)
        /\ UNCHANGED <<written, phase, k, best, r>>
    BY <1>7 DEF Deliver, hvars, loop, result
  <2>2. Len(written) <= Room /\ Len(written) \in Nat /\ seen \in Nat
    <3>1. \A n \in Nat : n <= 1 + k * NBACKENDS[lane] => n <= Room
      BY <1>3, RoomFacts
    <3>2. Len(written) \in Nat /\ seen \in Nat
      BY <1>3 DEF PrintInv, ArrivalInv
    <3> QED
      BY <3>1, <3>2 DEF PrintInv
  <2>3. seen' \in 0 .. Room
    BY <1>3, <2>1, <2>2
  <2>4. t \in Printed
    BY <2>1, <2>2 DEF PrintInv
  <2>5. lines' \in Seq(Printed)
    BY <2>1, <2>4 DEF ArrivalInv
  <2> QED
    BY <1>2, <1>4, <2>1, <2>3, <2>5 DEF ArrivalInv
<1>8. CASE NewPage
  <2>1. UNCHANGED <<written, phase, k, best, r>> /\ lines' = <<>> /\ seen' = 0 /\ stage' = "goto"
    BY <1>8 DEF NewPage, hvars, loop, result
  <2> QED
    BY <1>2, <1>3, <1>4, <2>1 DEF ArrivalInv
<1>9. CASE Goto \/ Loaded \/ Report \/ Exit \/ Reject \/ Timeout \/ UNCHANGED vars
  <2>1. /\ UNCHANGED <<written, phase, k, best, r, lines, seen>>
        /\ stage' \in {stage, "loading", "race", "close", "over", "failed"}
    BY <1>9 DEF Goto, Loaded, Report, Exit, Reject, Timeout, vars, runner, hvars, loop, result
  <2> QED
    BY <1>4, <1>5, <2>1 DEF ArrivalInv
<1>10. CASE Close
  <2>1. Unstarted' /\ UNCHANGED <<lines, seen>> /\ stage' \in {"launch", "exit"}
    BY <1>10 DEF Close, NoPage, Unstarted, input
  <2>2. (TypeInv /\ Unstarted => PrintInv)'
    BY UnstartedPrints, PTL
  <2> QED
    BY <1>3, <1>5, <2>1, <2>2
<1> QED
  BY <1>6, <1>7, <1>8, <1>9, <1>10 DEF Next, Iteration
----------------------------------------------------------------------------
\* No kernel is timed on the strength of a backend that verification could
\* have found broken, whichever backend is broken and wherever it shows.
THEOREM FiguresAreVerifiedAlways == Spec => []FiguresAreVerified
<1>1. Inv => FiguresAreVerified
  <2> SUFFICES ASSUME Inv, NEW n \in 1 .. Len(written), written[n].tag = "figure",
                      defect.k = written[n].k, defect.at < verify_budget
               PROVE  defect.kind = "flags" /\ defect.b \notin ExactFlags[lane]
    BY DEF FiguresAreVerified
  <2> QED
    BY DEF Inv, HarnessInv, VerifyInv, Right, Clean
<1> QED
  BY <1>1, AlwaysInv, PTL

\* A FAIL line names the backend whose result is wrong, or the first one's is.
THEOREM FailIsJustifiedAlways == Spec => []FailIsJustified
<1>1. Inv => FailIsJustified
  BY DEF Inv, HarnessInv, VerifyInv, Right, FailIsJustified
<1> QED
  BY <1>1, AlwaysInv, PTL

\* Within a phase all backends start from the same guest.
THEOREM RunsAreComparableAlways == Spec => []RunsAreComparable
<1>1. Inv => RunsAreComparable
  BY DEF Inv, HarnessInv, LoopInv, RunsAreComparable
<1> QED
  BY <1>1, AlwaysInv, PTL

\* The best time of a backend is the least one measured on this kernel.
THEOREM BestIsLeastMeasuredAlways == Spec => []BestIsLeastMeasured
<1>1. Inv => BestIsLeastMeasured
  <2> SUFFICES ASSUME Inv, phase = "timed", NEW c \in Backends(lane)
               PROVE  best[c] = Min(measured[c] \cup {INF})
    BY DEF BestIsLeastMeasured
  <2>1. measured[c] \cup {INF} \subseteq Nat /\ IsLeast(best[c], measured[c] \cup {INF})
    BY InfIsNat DEF Inv, HarnessInv, BestInv
  <2> QED
    BY <2>1, MinIsLeast
<1> QED
  BY <1>1, AlwaysInv, PTL

\* A report that breaks off has waited for its own timer.
THEOREM NotCutShortAlways == Spec => []NotCutShort
<1>1. Inv => NotCutShort
  BY DEF Inv, RunnerInv, NotCutShort
<1> QED
  BY <1>1, AlwaysInv, PTL

\* What is printed under a browser's name is the beginning of what its own
\* page wrote.
THEOREM ReportIsThePagesOwnAlways == Spec => []ReportIsThePagesOwn
<1>1. Inv /\ OwnInv => ReportIsThePagesOwn
  <2> SUFFICES ASSUME Inv, OwnInv, stage = "close"
               PROVE  IsPrefix(report, written)
    BY DEF ReportIsThePagesOwn
  <2>1. /\ Begins(report, written)
        /\ report \in Seq(Lines) /\ written \in Seq(Lines)
    BY DEF Inv, HarnessInv, TypeInv, OwnInv
  <2>2. SubSeq(report, 1, Len(report)) = SubSeq(written, 1, Len(report))
    BY <2>1 DEF Begins
  <2> QED
    BY <2>1, <2>2 DEF IsPrefix, Begins
<1>2. Spec => []OwnInv
  BY OwnInit, OwnStep, AlwaysInv, PTL DEF Spec
<1> QED
  BY <1>1, <1>2, AlwaysInv, PTL

\* A report whose timer has not run out holds every line its page wrote.
THEOREM ReportIsWholeAlways == Spec => []ReportIsWhole
<1>1. Inv /\ OwnInv /\ WholeInv => ReportIsWhole
  <2> SUFFICES ASSUME Inv, OwnInv, WholeInv, stage = "close", ~expired
               PROVE  /\ written = report \/ written = Append(report, Done)
                      /\ \A j \in 1 .. Len(report) : report[j] # Done
    BY DEF ReportIsWhole
  <2>1. /\ report = lines /\ seen = Len(written) /\ Begins(lines, written)
        /\ lines \in Seq(Lines) /\ written \in Seq(Lines)
        /\ seen = Len(lines) \/ written = Append(lines, Done)
        /\ \A j \in 1 .. Len(lines) : lines[j] # Done
    BY DEF Inv, HarnessInv, TypeInv, OwnInv, WholeInv
  <2>2. ASSUME seen = Len(lines) PROVE written = lines
    <3>1. Len(written) = Len(lines) /\ \A j \in 1 .. Len(written) : written[j] = lines[j]
      BY <2>1, <2>2 DEF Begins
    <3> QED
      BY <2>1, <3>1
  <2> QED
    BY <2>1, <2>2
<1>2. Spec => [](OwnInv /\ WholeInv)
  BY OwnInit, OwnStep, WholeInit, WholeStep, AlwaysInv, PTL DEF Spec
<1> QED
  BY <1>1, <1>2, AlwaysInv, PTL

\* Whatever the pages do, indices stay on their arrays, and no page prints more
\* than its banner, a line per backend and kernel, and its last line.
THEOREM TypeCorrect == Spec => []TypeOK
<1>1. Inv /\ PrintInv /\ ArrivalInv => TypeOK
  <2> SUFFICES ASSUME Inv, PrintInv, ArrivalInv PROVE TypeOK
    OBVIOUS
  <2> USE DEF Inv, HarnessInv
  <2>1. seen \in 0 .. 2 + Kernels * (1 + Max(Backends(lane)))
    BY LastBackendIsMax DEF ArrivalInv, Room
  <2>2. r \in 0 .. Max({0, reps})
    <3>1. r \in Nat /\ reps \in Int
      BY DEF TypeInv
    <3>2. \E v \in {0, reps} : \A u \in {0, reps} : v >= u
      <4>1. CASE reps >= 0
        BY <3>1, <4>1
      <4>2. CASE reps < 0
        BY <3>1, <4>2
      <4> QED
        BY <3>1, <4>1, <4>2
    <3>3. Max({0, reps}) \in {0, reps} /\ \A u \in {0, reps} : Max({0, reps}) >= u
      BY <3>2 DEF Max
    <3> QED
      BY <3>1, <3>3 DEF PrintInv
  <2> QED
    BY <2>1, <2>2 DEF TypeOK, TypeInv, RunnerInv, PrintInv, ArrivalInv
<1>2. Spec => [](PrintInv /\ ArrivalInv)
  BY TypesInit, TypesStep, AlwaysInv, PTL DEF Spec
<1> QED
  BY <1>1, <1>2, AlwaysInv, PTL
=============================================================================
