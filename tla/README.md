# Verification of emu-core-bench

emu-core-bench compares designs of an emulator's interpreter core: one guest
instruction set implemented several times, with the promise that every
implementation ("backend") computes the same architectural state. This
directory holds TLA+ modules translated from the code, the TLC configurations
that check them on small instances, and theorems proved with TLAPS for every
instance.

## 1. The system

### Components

| component | source | state | operations |
|---|---|---|---|
| guest memory | `common/mem_fastpath.h`, `mem_env.c` | RAM, page tables, address mask | 8/16/32-bit big-endian loads and stores; a page crossing goes to a slow path, which ends the process |
| M68K condition codes | `m68k/m68k_ops.h` | N, Z, V, C, X in `m68k_t` | flag helpers, condition evaluation |
| M68K backend A | `m68k/m68k_switch.c` | registers, flags, local pc, budget | fetch, decode and execute one instruction; end of the sprint |
| M68K backends B, C | `m68k/m68k_pd_impl.h` | the same, and the static tables `MPD_TAB`, `MPD_LEN` | decode the region into the table; C: the flag-liveness pass; execute from the table |
| M68K assembler, kernels | `m68k/bench_main.c` 39-203 | guest RAM | encode instructions; three kernels; reset |
| PPC semantics | `ppc/ppc_ops.h` | GPRs, LR, CTR, CR, CA in `ppc_t` | one inline body per instruction |
| PPC backends A-D | `ppc_switch.c`, `ppc_tail.c`, `ppc_call.c`, `ppc_predecode.c` | pc, budget, D: table | four dispatch shapes over the same bodies |
| PPC backends E, F | `ppc/ppc_pdx_impl.h` | table of pre-extracted entries | decode, execute with specialised ids |
| PPC assembler, kernels | `ppc/bench_main.c` 28-230 | guest RAM | as for M68K |
| harness | `main` of both `bench_main.c` | hashes, best times | set up, verify, warm up, time, print |
| byte-swap microbenchmark | `micro/be_micro.c` | arrays | timed loops |
| browser runner | `tools/run_browsers.mjs` | browser, log lines, a timeout | open the page, collect its lines until the last one or for five minutes |

Each benchmark program is sequential. The harness sets up a kernel (clears RAM
and CPU, assembles the code), calls one backend with a budget of instructions (a
"sprint"), and compares or times the result. Backends share guest RAM and the
CPU structure with the harness and keep nothing else between calls, except that
the tables of the predecoding backends are static and survive. The browser
runner is a second process: the page runs the benchmark by itself, its lines
arrive as console messages, and a timer runs beside both.

### What is hard here

The guest program is interpreted by different algorithms that must agree, and one
of them rewrites the program:

* The elide pass of backend C removes the computation of flags that the next
  instruction overwrites. It decides this for each instruction from its
  successor alone, while it is rewriting the table it reads, and a sprint may
  end between the two instructions.
* Length and target arithmetic is done three times on the M68K: by the switch's
  moving pc, by the decoder, and by a literal in each handler. The PPC formats E
  and F have no pc at all: targets become table indices when the region is
  decoded, operands become byte offsets, and a register number of zero becomes
  the offset of a word that must stay zero.
* Six PPC dispatch shapes count the budget in different places.
* The static tables carry entries of an earlier kernel into the next call.
* Every word of a 256 KiB region is decoded, data and unreachable code too, and
  reading it may itself be fatal at a page boundary.
* The random streams are legal by the luck of the draws: a skip must be followed
  by one word, no 32-bit immediate may straddle a page, the branch back must fit
  its displacement, and nothing may write the window registers.
* X and the flags of signed overflow are computed in more than one place, and
  the benchmark's own check leaves the flags out for backend C.
* The page prints while it is being loaded, its messages are late, it may die
  without a word, and a timer of five minutes outlives the race it was made for.

What makes each component correct: loads and stores are inverse and refuse
exactly the page crossings; the conditions mean signed and unsigned order; B
and C do what A does, and the six PPC backends what `ppc_ops.h` says; an elided
flag is never read; the tables hold nothing stale; every call ends after exactly
its budget; the kernels stay inside what the backends support; the harness
starts every backend from the same state and prints figures of verified backends
only; what the runner prints under a browser's name is what its page measured.

## 2. Modules

| module | models | by |
|---|---|---|
| `GuestMemory` | `mem_fastpath.h`, `mem_env.c` | operators on a RAM function: `Masked`, `Fast`, `Load`, `Store` |
| `M68kOps` | `m68k_ops.h`, opcode fields | `cc_*`, `m68k_cond`, 32-bit arithmetic and logic |
| `M68kImage` | `setup_kernel` | `Image(kernel)`, the cleared CPU; the constants of a guest |
| `M68kAsm` | the mini assembler | one operator per encoding macro |
| `M68kSwitch` | backend A | a state machine, one action per case of the opcode switch |
| `M68kDecode` | `mpd_decode`, the id lists, the classification of the elide pass | operators |
| `M68kPredecode` | backends B (`elide = FALSE`) and C (`TRUE`) | a state machine, one action per iteration of the sweep and of the pass, and per group of handlers |
| `M68kElide` | what B and C promise | history variables on `M68kPredecode`, the properties, the refinement to `M68kSwitch` |
| `M68kFlags` | what the conditions mean | two operands that never change |
| `M68kElide_proofs`, `M68kFlags_proofs`, `M68kSwitch_proofs`, `Streams_proofs`, `PpcOps_proofs`, `PpcPdx_proofs`, `PpcBackends_proofs`, `Browsers_proofs` | | theorems |
| `Words` | 32-bit arithmetic and logic of both lanes | operators |
| `Lcg` | `lcg` and the bits drawn from it | a draw is a record of two half-words, so that the real sequence is computed |
| `M68kKernels` | the three emitters of `m68k/bench_main.c` | sequences of instructions |
| `PpcOps` | the bodies and lists of `ppc_ops.h` | operators on a machine record |
| `PpcImage` | `ppc_t`, `setup_kernel` | the cleared machine, the constants of a guest, `Result(m)`: what the instruction at pc makes of a machine |
| `PpcMachine` | what `ppc_bench.h` promises of a backend | abstract fetch-execute machine, which knows neither tables nor formats: `SetUp` and `Result` are parameters |
| `PpcDispatch` | backends A to D | a state machine, one action per turn of a loop; the tail-call backend has one per handler and one per dispatch |
| `PpcPdx` | `ppc_pdx_impl.h` | decoder and one case per id |
| `PpcBackends` | all six in one process | composition, the properties, the refinement to `PpcMachine` through `SeenM`, `SeenN` and `SeenPhase` |
| `PpcAsm`, `PpcKernels` | assembler and emitters of `ppc/bench_main.c` | operators, sequences |
| `Streams` | the two stream generators at their real size | a state machine, one instruction a step |
| `Harness` | `main` of both programs | a state machine, one action per statement that calls, compares or prints |
| `Browsers` | `run_browsers.mjs` | composition with `Harness`, one action per statement between two awaits |
| `MC*` | | kernels and constants of the runs |

### How the state corresponds to the code

`regs` is `m->regs` (0-7 are D0-D7, 8-15 are A0-A7; the byte offsets of
`DR_OFF`/`AR_OFF` become indices), `ccr` and `x` the flags, with Booleans for
the 0/1 words, `mpc` is `m->pc` and changes only where the code writes it. In
`M68kSwitch`, `pc` is the local variable; in `M68kPredecode`, `cur` is the entry
pointer as an index, `tab` and `mlen` are the static tables, `at` is the loop
variable of the sweep and of the pass, `n` the instructions left. An entry's id
is the name in the enum; the no-flags twin at `id + 1` is the same entry with
`nf` set, which is why `WritesAll` and `IsElidable`, like the C switches over
stored ids, are false of a twin.

On the PPC side `m` is a record of `gpr` (32 registers and, as index 32, the word
`zero_base` behind them), `lr`, `ctr`, `cr` (the set of the bits that are one),
`ca`, RAM and the local pc; `fate` is what an instruction's body ended in. `cpc` is
`c->pc`. In backends E and F `m.pc` is four times the index of `cur`, and an
entry's `a` and `b` are the byte offsets of the code, kept modulo 256 as in its
`uint8_t`. The tail-call backend's `at` tells its three places apart: the entry
function, a handler body, which runs with pc and budget already advanced, and
`NEXT()`. `PpcMachine` sees the last two through a mapping that undoes the advance.

In `Harness`, `cpu` stands for guest RAM and CPU and holds the kernel it was set
up for, how many instructions ran since, and the mark of a defect. A build has at
most one defect: it shows in one backend on one kernel after some instructions, in
the flags, in the rest of the state, as a fatal diagnostic or as a trap of the
engine. `loaded` separates the two statements of each loop body, setup and call.
`written` is what has been printed. `measured` and `calls` are history variables.

In `Browsers`, `stage` is where the iteration stands, `lines` the array, `seen` how
many of the page's lines have arrived; `timers` holds the iterations whose timer is
still running, because nothing cancels them.

`phase` stands for the place in the code: between calls, in the sweep, in the
pass, in the loop, `exited` after `exit(1)`, or `wild` after an access outside
the table, which C leaves undefined and after which nothing is claimed.

Widths are parameters. A byte has `ByteBits` bits and everything else follows,
so a long is 16 bits wide in most runs; `LongMod` is what the code's `uint32_t`
wraps at. Opcodes keep their 16 bits: `OpcodeOf` maps a guest word, which may
be narrower, to the opcode it stands for, and is the identity at full width.
A decoder that fetches an immediate, a displacement or the wrong word fetches
it from the modelled RAM like the code.

Left out: the value trap on stores (nothing enables it), the text of
diagnostics, timing, and the host's page-table arithmetic (every entry is the
same nonzero base).

### The history variables of `M68kElide`

`otab` is the table as the sweep wrote it, `shadow` the flags an eager run of
`otab` would have, `entry` the pc at the start of the call, `modified` whether
the program has stored into bytes the sweep reads. No action of the model reads
them. The refinement `Switch` maps the switch's flags to `shadow`: this says that
B and C do what A does on registers, X, RAM, pc and budget, and
`FlagsExactOrDead` says when the flags themselves agree.

## 3. Runs

| run | what it asks | bounds |
|---|---|---|
| `m68k_elide` | do B and C implement A, and is elision sound, after any two instructions? | 48 instructions, all well-formed pairs and the triples of nine representative ones, between a prologue and an epilogue that branches on N, Z and V; one sprint of 8; 16-bit longs, 64 bytes of RAM, 16 entries |
| `m68k_sprints` | do the benchmark's own kernels run, wherever a sprint ends? | the two loops with six passes, the random stream of 8 instructions from three seeds, three kernels with a definer and its overwriter; two calls with budgets 0, 1, 5 and 40, with or without a new setup in between; 48 entries |
| `m68k_reload` | what do the static tables keep, and does every call end? | eight kernels that leave the table, straddle a page, branch into extension words, overwrite code; three calls; pages of 16 bytes |
| `m68k_opcodes` | does each decoded form use the right registers and constants? | 37 forms, four values of each register field, sixteen distinct registers, 28-bit longs |
| `m68k_flags` | do the conditions mean what their names say? | all pairs of 8-bit operands |
| `ppc_forms` | does every form do what `ppc_ops.h` says under all six backends, and is every other word refused? | some 500 straight-line instances with varied fields, 390 branches (every BO, taken and not, CTR 1 and more, AA and LK), 60 ways to end the process; 12-bit longs, 512 bytes of RAM, one sprint of 7 or 60 |
| `ppc_kernels` | do the PPC kernels run under any sequence of backends, and does every call return? | both loops and the stream of 14 instructions from three seeds; two calls of any backends with budgets 0 and 45, with or without a new setup in between |
| `streams` | is what the generators emit a legal program? | the two real streams (8192 and 16384 instructions, real seed, addresses and page size) and 60 streams of 12 instructions in each lane |
| `browsers` | is what is reported what was measured, and does the runner end? | two browsers; the M68K program with its three backends, the PPC one with two of six; two kernels; no repetition or two; times 1 and 2; any single defect, showing within the verification budget or after it |
| `m68k_conds` | is an opcode outside the subset always refused? Violated: finding 1 | one kernel |
| `m68k_slow_path` | does the slow path mean that the kernel left RAM? Violated: finding 2 | one kernel |
| `ppc_xoris` | is a PPC opcode outside the subset always refused? Violated: finding 3 | two kernels |

Why the bounds are enough for what is asked. Elision looks at one successor, so
a triple holds a definer, its overwriter and what follows, and every longer chain
is made of such triples; the theorems of section 4 cover all lengths. A 16-bit
long has all combinations of sign, carry and overflow and three sizes that
differ. Three calls give a table left by one kernel, used by another, and
reloaded. An instruction of the PPC subset depends on its own fields and on the
machine only, so one instance after each of the prologues exercises it; what
depends on neighbours is the budget, which `ppc_forms` and `ppc_kernels` cut in
different places. The defect of a build is one, because a second one could mask
the first: `FiguresAreVerified` would then say nothing of the code. Two browsers
are enough for a timer and for messages that outlive their iteration; the third
sees no more of the first than the second does.

The kernels of `m68k_elide`, `m68k_sprints` and `m68k_opcodes` stay inside the
table and do not modify their own code, as the benchmark's kernels do;
`m68k_reload` does all of that and therefore does not ask for the refinement,
which does not hold there: B and C see a store into the code only at the next
call, and refuse to run into an extension word. `ppc_forms` leaves out primary
opcode 27 (finding 3) and `lwzu` and `stwu` with rA = 0, where E and F read the
base from `gpr[0]` and A to D take zero; `KnownToAll` shows that the real stream
holds neither.

`CHECK_DEADLOCK FALSE` is set where the system stops: after `exit(1)`, after the
last call that `MaxSprints` allows, in `wild`, at the end of a stream, and when the
runner's process has ended.

**Safety, M68K.** `FlagsExactOrDead`: backend C's flags are those of an eager run,
or the instruction about to run overwrites all four. `ElisionSound`: an entry that
differs from the decoded one is its twin or a NOP of its length, and the
instruction behind it overwrites the flags. `EagerIsExact`: backend B is never
stale. `TableIsFresh`: after a sweep every entry is the decoding of its word or
a filler behind an instruction that covers it. `ConditionsCompare`,
`OverflowIsExact`: after a compare the conditions test equality, signed and unsigned
order and (MI, PL) the sign of the difference; V and C are true overflow. `KernelsRun`: no call
ends in a diagnostic or outside the table. `Tame`: what the refinement theorem asks
of a guest (section 4), which the benchmark's kernels keep to wherever a sprint ends.

**Safety, PPC.** `ZeroBaseStaysZero`: the word behind the registers is never a
destination. `TableIsRam`: what a predecoding backend runs is what RAM holds,
because no kernel's store reaches the region. `KernelsRun`, as for the M68K.
`OutsideSubsetIsFatal`: the step that executes a word outside the subset - a turn of a
loop or a handler of the tail-call backend - ends in the diagnostic. It holds on
`ppc_forms` and is finding 3 on `ppc_xoris`. `ImplementsMachine` does not say it: the
six backends and the machine share the bodies of `ppc_ops.h`, so a diagnostic
missing there is missing in both.

**Safety, streams.** `SkipLandsOnHead`, `ImmediateInPage`, `KnownToAll`,
`StaysInWindows` and `LoopCloses` are what the backends take for granted of the
random code. The real M68K stream is 22.5 KB long (the comment says some 26 KB),
holds 1074 skips and no immediate across a page; `ImmediateInPage` depends on the
seed and on nothing in the generator that would ensure it.

**Safety, harness and runner.** `FiguresAreVerified`: figures of a kernel follow its
verification, and what they may still hide is a defect that shows after the
verified instructions or, for the elision backend, in the flags. `FailIsJustified`:
a FAIL accuses the defective backend, or everyone if the first one is defective.
`RunsAreComparable`: times that are compared are of the same guest.
`BestIsLeastMeasured`. `ReportIsThePagesOwn`, `ReportIsWhole`: nothing of another
browser, and nothing missing if the page's last line won the race. `NotCutShort`:
no report is cut by a timer of an earlier browser.

**Refinement.** `ImplementsSwitch`: every step of B and C is a step of A on the
same guest or, in the sweep and the pass, no step at all. `ImplementsMachine`: every
step of any of the six PPC backends is a step of the machine that `ppc_bench.h`
promises, or no step.

**Liveness and fairness.** `SprintEnds`, `CallsReturn`: every call ends. The fairness
is `WF_evars(Work)` and `WF_vars(Step)`, weak fairness of the steps of a call in
progress and nothing else: a sequential computation that can continue does. The
harness is not obliged to call again. `RunnerEnds`: the runner's process ends. The
fairness is `WF_vars(Iteration)`, because Playwright answers or rejects every
awaited call, and `WF_vars(Timeout)`, because timers fire. Nothing is assumed of the
page: it may stop anywhere, and its messages need never arrive.

### Findings

1. Backend A treats `BHI`, `BLS`, `BVC` and `BVS` as branches never taken. The
   header promises a fatal diagnostic outside the subset, and B and C give one.
2. The slow path is called an escape from RAM, but any access across a page
   boundary takes it; and an escape is masked and never takes it.
3. Backends E and F execute `xoris` (primary opcode 27), which the subset's lists
   do not hold and A to D refuse.

None is reachable from the benchmark's kernels (`KnownToAll`; the offsets of the
stress kernel are multiples of four).

Met on the way and not run: the timer of `run_browsers.mjs` keeps the process alive
for up to five minutes after the last report; a page that was not found (the
default `bench_web.html` is not a target of the Makefile) also costs five minutes
and prints an empty report. The repository's README says that verification comes
before any timing; it does for each kernel, so figures of earlier kernels are
printed before a FAIL of a later one.

## 4. Proofs

All theorems hold for every kernel, every width, every table size and every
sequence of calls, from the assumptions named in the modules: sizes are
positive, the region and the words behind it fit in RAM, RAM fits a long, the
code base is even and fits a long. `WidthAssumption` (a long has an even, positive number of
values) and `PowerAssumption` (powers of two multiply by adding exponents, and a
set of bits sums to a long) are true of every `ByteBits` and are stated because the
provers know nothing of powers and of sums over sets; TLC evaluates them in every
run that uses them. `PpcAssumption` says that the data window holds bytes, that
a program is a sequence of words, and that the decoded region lies in RAM and is a
whole number of instructions. `HarnessAssumption` says that each
program has at least two backends and compares at least its first two on the full
hash, as both tables do. `JobsAssumption` says that a stream is of one of the two
lanes, starts from a 32-bit seed and has some length.

* `DecodeIsGood` (`M68kElide_proofs`): by cases of the opcode, `mpd_decode`
  returns one to three words, never a twin, and for every id the pass may touch
  the length by which its handler advances.
* `TypeCorrect`, `ElisionIsSound` (`M68kElide_proofs`). `ElisionSound` is not
  inductive: it speaks of the run only, and during the pass the table is half
  rewritten. The invariant `Inv` adds that in the sweep everything before `at` is
  as decoded; that in the pass entries before `at` are elided soundly and those
  from `at` on are untouched, so that testing the successor's stored id tests its
  original one; and that `mlen` of an instruction that writes flags is the
  handler's length, which ties the pass's walk to the execution.
* `EagerIsExactAlways`: backend B computes in each step what the shadow computes.
* `FlagsAreExactOrDead`, across sprints. A sprint may end on a stale flag, and
  the next call decodes the table again, entry by entry. `FlagInv` therefore
  also covers the states between calls and in the next sweep: where the flags
  are stale, the entry at which the program will resume is dead in the old table
  and lies on a head that the sweep has yet to reach or has already written back
  unchanged. `SweptTo(H, p)` says that `H` is the set of entries at which a sweep
  of the present RAM stops on its way to `p`; `SweepOn` extends it by one step
  and `SweepAgain` shows that a second sweep stops at the same entries. This is
  where `~modified` is needed: without it `m68k_reload` has a counterexample.
* `ConditionsCompareAlways`, `OverflowIsExactAlways` (`M68kFlags_proofs`): at
  every width, from the cases of the wrap.
* `FreshTable` (`M68kElide_proofs`): `FreshInv` says during the sweep what
  `TableIsFresh` says at its end, of the entries before `at`: each is the decoding of
  its word with the length the decoder gave it, or a filler behind a head that covers
  it. Nothing is assumed of what the static table held before.
* `PredecodedIsSwitch` (`M68kSwitch_proofs`): every step of backends B and C is a step
  of backend A, or one that A does not see. Each opcode is gone through twice: the case
  of the decoder that picks its entry (`LineOfId`, `MoveForms`, `MiscForms`,
  `QuickForms`, `BranchForms` give the opcode's fields back from the entry's id) and the
  case of the switch, which must be the same, read the same words, and leave the same
  registers, X, RAM, flags, budget and pc (`...Retires`, one lemma per group of
  handlers). The flags of A are `shadow`, so an elided handler is compared by what its
  eager form would have written, and a branch, which must read the real flags, by
  `FlagInv`: where they are stale it is not a branch that runs. The pc is a matter of
  arithmetic: A counts bytes modulo a long, B and C count words, and the target of a
  branch is halved when it is decoded and doubled when it is seen (`EvenTarget`,
  `EvenRemainder`). An illegal opcode and a bad access end both processes; A's
  `m->pc` is then still that of the start of the call, B and C have written theirs
  back, which is what `SeenMpc` undoes. The inductive invariant is `SimInv`: `Inv`, `FlagInv`,
  `PlaceInv` (m->pc is even and does not move during a call) and `HeadInv` (what
  the sweep has written is the decoding of what RAM holds now, at heads).

  The hypothesis is `[]Tame`, about the guest, not about the backends. `KeepsItsCode`:
  no store into what the sweep reads. `SweepsToTheEnd`: no immediate straddles a page
  and no instruction the end of the region, which stop B and C before they run
  anything. `StaysOnInstructions`: the guest runs inside the region, at first words of
  instructions, branches to even addresses, and meets no opcode that A accepts and the
  decoder does not (finding 1). Where one of these fails the backends do differ, as on
  the kernels of `m68k_reload` and `m68k_conds`. `m68k_sprints` checks `Tame` on the
  benchmark's kernels.
* The PPC lane. `FormatRunsTheBodies` (`PpcPdx_proofs`) is the core, and holds of one
  instruction on any machine: the case of the id that `pdx_decode` picks, on operands
  turned into byte offsets, masks and table indices, leaves the machine that the body of
  `ppc_ops.h` leaves, with both widths of entry. It goes by the cases of the decoder;
  the branches are where it is not a matter of looking: `bdnz` and the branches on one
  CR bit get ids of their own, whose test must be `bc_taken`'s, and whose target was
  computed at decode time from the entry's address. The forms it leaves out,
  `Divergent`, are those of finding 3 (primary opcode 27) and `lwzu`, `stwu` with
  rA = 0; for these the statement is false.
* `PpcBackends_proofs` lifts this to the six backends. The inductive invariant `IInv`
  has five parts. `TypeOK` and `ZeroBaseStaysZero` need each other: a body leaves a
  machine only on operands that are registers, and rA = 0 reads zero in E and F only
  because nothing writes the word behind the registers. `AlignedPcs`: a pc is a multiple
  of four, without which `cur`, an index, would not determine it. `Decoded`: each entry
  of the table of a running predecoder is the decoding of some word at that entry's
  address - whatever RAM holds by now. `Control`: the tail-call backend's place, and that
  the handler's `insn` is the word behind its advanced pc, even after the previous
  handler's store. From it follow `TypeCorrect`, `ZeroBase`, and the refinement
  `BackendsAreTheMachine`: `Init` maps to `Init`, a turn of a loop to `Execute` or `Die`,
  the tail-call backend's fetch to a stutter and its handler to the step, `Wild` to a
  stutter. It has two hypotheses, both on what the guest does. `SameForms`: no divergent
  form is about to run under E or F. `TableIsRam`: what a predecoder runs is what RAM
  holds. Without either it is false. `TableFollowsRam` derives the second from
  `KeepsRegion`, that no step of a predecoder stores below `REGION`, and
  `RegionKeptRefines` puts the two together. `FetchersAreTheMachine` needs neither: A, B
  and C are the machine on every program. `UnlistedIsFatal` is the promise that
  finding 3 refutes, `OutsideSubsetIsFatal` of the runs, for every program whose
  guest meets the same two hypotheses: a word with a primary or extended opcode, or a
  special register, that the bodies do not list ends in the diagnostic, in a turn of
  any of the five loops and in a handler of the tail-call backend alike. Primary
  opcode 27 is such a word and a divergent form under E and F, which `SameForms`
  excludes; under A to D it is refused.
* `Browsers_proofs`: eight theorems on the harness and the runner, for any number of
  backends (at least two, which both programs have), kernels, browsers and
  repetitions, all budgets and any single defect. `HarnessInv` holds of `main` alone,
  `RunnerInv` of the script, `OwnInv` of the lines between them.
  `FiguresAreVerifiedAlways` and `FailIsJustifiedAlways` need to know what the
  hashes stand for: during verification the hashes of the backends before `b` are
  those of `Ran(c)`, a fresh guest after the budget with the mark of the defect if it
  shows there (`FirstCall` - this is where the setup before each call is needed). If
  all agree, `AgreementClears` finds the defect elsewhere: the first backend is
  compared with a second one that is exact, and every exact one with the first. What
  is printed stays right because the defect of a build does not change.
  `BestIsLeastMeasuredAlways` carries the least measured time through the timed loop;
  `RunsAreComparableAlways` that the guest is a fresh one whenever a call begins.
  `NotCutShortAlways`: a timer of an iteration exists only once its race has begun,
  and once expired it is gone. `ReportIsThePagesOwnAlways`: the page only appends, and
  its last line is its last (`PageAppends`), so that dropping that line from the
  delivered ones leaves a prefix. `ReportIsWholeAlways`: the end of the race is the
  page's last line or the timer, and a line arrives behind all earlier ones
  (`WholeInv`). `TypeCorrect` bounds what a page prints by what the loops have passed
  (`PrintInv`).

* `Streams_proofs`: what the backends take for granted of the random streams holds of
  every seed and every length, not of the benchmark's two seeds only
  (`SkipsOneInstruction`, `StreamIsKnown`, `StreamStaysInWindows`). Nothing is
  computed of the sequence of draws, only that a draw has two 16-bit halves
  (`LcgType`) and what the fields cut out of one can be (`ShiftFacts`). Then, by the
  cases of the pick, every instruction has one of a few forms, and the form is decoded
  with the decoder of B and C, or looked up in the lists of `ppc_ops.h` (`PickedFits`,
  `StressFits`). `SkipLandsOnHead` relates an instruction to the one before it and is
  not inductive; `GenInv` adds that `force_short` is set exactly when the last
  instruction was a branch over the next word, and that the stream does not end in
  one. The second is where the tests for the last two instructions (M68K) and the last
  one (PPC) are needed: without them the branch back could be skipped.
* `ReachingLoopCloses`, `LoopOfAnySeedCloses` (`Streams_proofs`): the branch back.
  `LoopInv` says how far the code has got (`LaidOut`: four bytes for each PPC
  instruction, two to six for each M68K one) and, once the loop is closed, which branch was emitted for that distance. `ShortBranch`
  and `LongBranch` take the displacement through its encoding and the interpreter's
  sign extension, at 16 and at 26 bits. What remains is that the code is short enough:
  whatever is drawn, the PPC stream is for up to 64489 instructions, nearly four times
  what the benchmark asks for, where the region ends; the M68K stream for up to
  5461, where the longest instructions would exhaust the 16 bits. At the benchmark's 8192
  M68K instructions the result depends on the draws: were each of them the
  longest instruction, the branch could not reach, and nothing in the generator
  would notice. `ReachingLoopCloses` says that nothing but this length is at stake, and
  the run that the benchmark's seed stays within it.
* `LcgIsTheProduct` (`Streams_proofs`): the generator is modelled on 16-bit halves,
  because the product of two 32-bit numbers leaves TLC's integers. The theorem says that
  the halves are those of the C expression, for every seed.
* `LoadAfterStore` (`PpcOps_proofs`): the accessors of `mem_fastpath.h` under both
  lanes. A load and a store of a size walk the same bytes in the same order, so the
  load gives the value back cut to the size, and bytes that do not overlap are left
  alone. It is proved once by digits (`Quotient`, `TwoDigits`, `NestedDiv`), for every
  width of byte.

Only model-checked: `KernelsRun` and `Tame`, which are about the concrete programs of
the runs; `ImmediateInPage`, which depends on the draws of one seed, as does
`LoopCloses` for an M68K stream of the benchmark's length; and `SprintEnds`,
`CallsReturn` and `RunnerEnds` (liveness under fairness is out of the prover's reach).

## 5. Plan

Done, in this order: the M68K lane (memory, condition codes, backend A, decoder,
backends B and C, refinement, proofs), the PPC lane, the generators and kernels of
both, the harness, the browser runner and their proofs.

With `PredecodedIsSwitch` the M68K backends, and with `BackendsAreTheMachine` the PPC
backends, are proved to compute the same, under hypotheses on the guest that the
runs check of the benchmark's kernels. What remains open is out of the prover's reach
and listed at the end of section 4.

## 6. Not modelled

The byte-swap microbenchmark (`be_micro.c`) has no state but an array and a
checksum: there is no order of steps, no sharing and no protocol in it to get
wrong. The build files have nothing to check, and the static file server in
`run_browsers.mjs` keeps no state. Of the rest only data is left out: the text of
lines, the value of times, hash collisions. Host-level undefined behaviour other
than reading outside the table (unaligned host accesses, signed overflow of
`mulli`, which is modelled as the product modulo the word, a hazard that no property covers) is not modelled, nor is
the NO_TAIL build, in which backend B is backend A.
