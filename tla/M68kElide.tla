----------------------------- MODULE M68kElide -----------------------------
(***************************************************************************)
(* What the flag-liveness pass of backend C promises, stated on            *)
(* M68kPredecode with three history variables that no action reads:        *)
(*   otab    the table as the decode sweep wrote it, before any elision;   *)
(*   shadow  the condition codes an eager run of that table would hold;    *)
(*   entry   m->pc at the start of the current call;                       *)
(*   modified  TRUE once the program has stored into the bytes the sweep    *)
(*           reads, until the next setup.                                  *)
(* With them the predecoded backends implement the switch backend.         *)
(***************************************************************************)
EXTENDS M68kPredecode

VARIABLES otab, shadow, entry, modified

hvars == <<otab, shadow, entry, modified>>
evars == <<vars, hvars>>

\* The bytes a sweep reads: the region, and the extension words after it.
Swept == 0..(2 * MPD_ENTRIES + 3)

InitH == Init /\ otab = tab /\ shadow = ccr /\ entry = mpc /\ modified = FALSE

SetupH ==
    /\ Setup
    /\ shadow' = ZeroFlags /\ modified' = FALSE
    /\ UNCHANGED <<otab, entry>>

EnterH(budget) ==
    /\ Enter(budget)
    /\ entry' = mpc
    /\ UNCHANGED <<otab, shadow, modified>>

DecodeStepH ==
    /\ DecodeStep
    /\ otab' = Fill(otab, at, Decoded.ent, Decoded.len)
    /\ UNCHANGED <<shadow, entry, modified>>

\* The eager run computes the flags of the entry the sweep decoded.
ExecuteH ==
    /\ Execute
    /\ shadow' = IF WritesAll(otab[cur]) THEN FlagsOf(otab[cur]) ELSE shadow
    /\ modified' = (modified \/ \E a \in Swept : ram'[a] # ram[a])
    /\ UNCHANGED <<otab, entry>>

\* The steps of a call in progress.
Work ==
    \/ DecodeStepH
    \/ ExecuteH
    \/ (DecodeEnd \/ ElideStep \/ ElideEnd \/ Illegal \/ BadAccess \/ BadSweep
        \/ Wild \/ Leave)
       /\ UNCHANGED hvars

NextH ==
    \/ SetupH
    \/ \E budget \in Budgets : EnterH(budget)
    \/ Work

SpecH == InitH /\ [][NextH]_evars

\* A call in progress is a sequential computation: it keeps going.
FairSpecH == SpecH /\ WF_evars(Work)
----------------------------------------------------------------------------
\* The instruction at entry i overwrites N, Z, V and C before anything reads
\* them, whether or not it was itself elided.
Kills(i) == i \in Entries /\ WritesAll(otab[i])

\* The state is well typed where the handlers depend on it: the table holds
\* entries, the sweep and the pass stay on it, the phase is known.
TypeOK ==
    /\ elide \in BOOLEAN
    /\ phase \in {"idle", "decode", "elide", "run", "exited", "wild"}
    /\ n \in Nat /\ at \in Nat
    /\ DOMAIN tab = Entries /\ DOMAIN otab = Entries
    /\ mlen \in [Entries -> 0..3]
    /\ \A i \in Entries : tab[i].nf \in BOOLEAN /\ otab[i].nf = FALSE

\* Backend C may hold stale N, Z, V, C, but only where the instruction about to
\* run overwrites all four (m68k_pd_impl.h:15-21): no branch ever reads a stale
\* flag, even when a sprint ends between the definer and the overwriter and the
\* next one starts there.  The exception is a program that stores into its own
\* code: the next sprint decodes another instruction where the flags are stale.
FlagsExactOrDead ==
    (phase = "run" /\ ~modified) => \/ ccr = shadow
                                    \/ elide /\ Kills(cur)

\* Backend B is exact at all times.
EagerIsExact == ~elide => ccr = shadow

\* An elided entry does what the decoded one did except for the flags, has the
\* same length, and its successor by that length overwrites the flags.
ElisionSound ==
    phase = "run" => \A i \in Entries :
        \/ tab[i] = otab[i]
        \/ /\ tab[i] = Retarget(otab[i])
           /\ Kills(i + HandlerLen(otab[i].id))

\* At the end of a sweep nothing of an earlier kernel is left in the static
\* table: every entry is the decoding of the word it stands for, or a filler
\* behind the instruction that covers it (m68k_pd_impl.h:303-311).
FreshAt(i) ==
    IF otab[i].id = "FILLER"
    THEN \E j \in Entries : j < i /\ i < j + mlen[j] /\ otab[j].id # "FILLER"
    ELSE otab[i] = DecodeAt(i).ent /\ mlen[i] = DecodeAt(i).len
TableIsFresh == (phase = "elide" /\ at = 0) => \A i \in Entries : FreshAt(i)

\* Every call ends, by returning, by a fatal diagnostic or in undefined
\* behaviour: the sweep and the elide pass, which walks the table by the stored
\* lengths, always move on.
SprintEnds == phase \in {"decode", "elide", "run"} ~> phase \in {"idle", "exited", "wild"}
----------------------------------------------------------------------------
\* The switch backend, run on the same guest: its local pc is the entry index
\* doubled, its condition codes are the shadow ones, and it does not write
\* m->pc before it dies on an illegal opcode.
SeenMpc   == IF phase = "exited" THEN entry ELSE mpc
SeenPc    == IF phase \in {"idle", "decode", "elide"} THEN mpc ELSE (2 * cur) % LongMod
SeenPhase == IF phase \in {"decode", "elide"} THEN "run" ELSE phase
Switch == INSTANCE M68kSwitch WITH
    ccr <- shadow, mpc <- SeenMpc, pc <- SeenPc, phase <- SeenPhase

\* What a guest owes the predecoding backends, for them to be the switch.
\* It does not store into its code; no immediate straddles a page and no
\* instruction the end of the region; and it runs at the first word of
\* instructions of the region only, none of which the switch accepts and
\* mpd_decode does not (BHI, BLS, BVC, BVS, DBcc but DBRA, and the MOVEs of
\* other sizes and modes), and branches to even addresses.
KeepsItsCode == ~modified
SweepsToTheEnd ==
    (phase = "decode" /\ at < MPD_ENTRIES) => SweepReads /\ at + Decoded.len <= MPD_ENTRIES

OpAt(i) == OpcodeOf[Load(ram, 2 * i, 2)]
Jumps == {"BRA", "DBRA"} \cup {BccId(cond) : cond \in Conds}
TargetAt(i) ==
    LET d8 == Disp8(OpAt(i))
    IN Add(Add(2 * i, 2),
           IF Line(OpAt(i)) = 6 /\ d8 # 0 THEN d8 ELSE D16Of(Load(ram, Add(2 * i, 2), 2)))
EvenAddress == {a \in Long : a % 2 = 0}
StaysOnInstructions ==
    (phase = "run" /\ n > 0) =>
        /\ cur \in Entries /\ otab[cur].id # "FILLER"
        /\ otab[cur].id = "ILLEGAL" => ~Switch!SwitchAccepts(OpAt(cur))
        /\ otab[cur].id \in Jumps => TargetAt(cur) \in EvenAddress

\* The guest keeps to all of it, as the kernels of bench_main.c do by the
\* choice of their instructions, addresses and branches (bench_main.c:83-184).
Tame == KeepsItsCode /\ SweepsToTheEnd /\ StaysOnInstructions

\* The decode sweep and the elide pass are invisible; every handler does what
\* the switch does at that pc, on registers, X, RAM and flags.
ImplementsSwitch == Switch!Spec
=============================================================================
