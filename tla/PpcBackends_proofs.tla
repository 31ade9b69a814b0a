------------------------- MODULE PpcBackends_proofs -------------------------
(***************************************************************************)
(* The six PPC backends keep the machine a machine, and are the machine of *)
(* PpcMachine.                                                             *)
(***************************************************************************)
EXTENDS PpcBackends, PpcPdx_proofs

\* Instructions lie at multiples of four: where a call starts and where it is.
AlignedPcs == m.pc % 4 = 0 /\ cpc % 4 = 0

\* While a predecoding backend runs, every entry of its table is what the
\* decoder makes of some guest word at the entry's address.
Decoded ==
    phase = "run" =>
      /\ backend = "pd" => \A e \in Entries : \E w \in Long :
           tab[e] = [id |-> pd_decode(InsnOf[w]), insn |-> InsnOf[w]]
      /\ backend \in Formats => \A e \in Entries : \E w \in Long :
           tab[e] = pdx_decode(4 * e, InsnOf[w], backend = "pdx16")

\* Where control is, and what the tail-call backend holds there.
Control ==
    /\ at # "loop" => backend = "tail" /\ phase \notin {"idle", "wild"}
    /\ phase = "run" /\ backend = "tail" => at # "loop"
    /\ phase = "run" /\ at = "handler" => insn = Fetch(m, Sub(m.pc, 4))
    /\ phase = "run" /\ at = "entry" => m.pc = cpc

IInv == TypeOK /\ ZeroBaseStaysZero /\ AlignedPcs /\ Decoded /\ Control
----------------------------------------------------------------------------
LEMMA ImageType == ASSUME NEW k \in Kernels PROVE Image(k) \in [Address -> Byte]
<1> DEFINE p == Program(k)
<1>1. p \in Seq(Nat) /\ Data \in Seq(Byte) /\ CODE_BASE \in Nat /\ DATA_BASE \in Nat
  BY PpcAssumption
<1>2. 0 \in Byte /\ ByteMod \in Nat \ {0}
  BY ByteFacts DEF Byte
<1>3. ASSUME NEW w \in Nat, NEW b \in 0..3
      PROVE  (w \div SizeMod(3 - b)) % ByteMod \in Byte
  <2> DEFINE d == SizeMod(3 - b)
  <2>1. d \in Nat \ {0}
    <3>1. (3 - b) * ByteBits \in 0..LongBits
      BY MemoryAssumption DEF LongBits
    <3> QED
      BY <3>1, PowerAssumption DEF SizeMod
  <2> HIDE DEF d
  <2>2. w \div d \in Int
    BY <2>1
  <2> DEFINE q == w \div d
  <2> HIDE DEF q
  <2>3. q % ByteMod \in 0..(ByteMod - 1)
    BY <1>2, <2>2 DEF q
  <2> QED
    BY <2>3 DEF Byte, d, q
<1>4. ASSUME NEW a \in Address PROVE Image(k)[a] \in Byte
  <2>1. a \in Int
    BY DEF Address
  <2>2. CASE a - CODE_BASE \in 0..(4 * Len(p) - 1)
    <3>1. (a - CODE_BASE) \div 4 + 1 \in 1..Len(p) /\ (a - CODE_BASE) % 4 \in 0..3
      BY <1>1, <2>1, <2>2
    <3>2. p[(a - CODE_BASE) \div 4 + 1] \in Nat
      BY <1>1, <3>1
    <3> QED
      BY <1>3, <2>2, <3>1, <3>2 DEF Image
  <2>3. CASE a - CODE_BASE \notin 0..(4 * Len(p) - 1) /\ a - DATA_BASE \in 0..(Len(Data) - 1)
    <3>1. a - DATA_BASE + 1 \in 1..Len(Data)
      BY <1>1, <2>1, <2>3
    <3>2. Data[a - DATA_BASE + 1] \in Byte
      BY <1>1, <3>1
    <3> QED
      BY <2>3, <3>2 DEF Image
  <2>4. CASE a - CODE_BASE \notin 0..(4 * Len(p) - 1) /\ a - DATA_BASE \notin 0..(Len(Data) - 1)
    BY <1>2, <2>4 DEF Image
  <2> QED
    BY <2>2, <2>3, <2>4
<1> QED
  BY <1>4 DEF Image

LEMMA SetUpType ==
  ASSUME NEW k \in Kernels
  PROVE  /\ IsMachine(SetUp(k)) /\ SetUp(k).gpr[ZERO] = 0 /\ SetUp(k).fate = "ok"
         /\ SetUp(k).pc = CODE_BASE /\ CODE_BASE \in Long /\ CODE_BASE % 4 = 0
<1>1. CODE_BASE \in Long /\ CODE_BASE % 4 = 0
  BY PpcAssumption, LongFacts DEF Long
<1>2. 0 \in Long /\ Image(k) \in [Address -> Byte]
  BY LongFacts, ImageType
<1>3. IsMachine(SetUp(k))
  BY <1>1, <1>2 DEF SetUp, IsMachine, ZERO, Fates
<1> QED
  BY <1>1, <1>3 DEF SetUp, ZERO
----------------------------------------------------------------------------
LEMMA InitInv == Init => IInv
<1> SUFFICES ASSUME Init PROVE IInv
  OBVIOUS
<1>1. IsMachine(m) /\ m.fate = "ok" /\ m.gpr[ZERO] = 0 /\ m.pc = CODE_BASE
      /\ CODE_BASE \in Long /\ CODE_BASE % 4 = 0
  BY SetUpType DEF Init
<1>2. IsInsn(NoInsn)
  BY DEF IsInsn, NoInsn, Halfwords
<1>3. TypeOK
  BY <1>1, <1>2, PpcAssumption DEF TypeOK, Init
<1>4. ZeroBaseStaysZero /\ AlignedPcs /\ Decoded /\ Control
  BY <1>1 DEF Init, ZeroBaseStaysZero, AlignedPcs, Decoded, Control
<1> QED
  BY <1>3, <1>4 DEF IInv
----------------------------------------------------------------------------
\* What each backend makes of an entry is the instruction.
LEMMA LeafRuns ==
  ASSUME NEW mm, NEW i, IsInsn(i)
  PROVE  RunLeaf([id |-> pd_decode(i), insn |-> i], PastFetch(mm)) = Exec(mm, i)
<1> DEFINE e == [id |-> pd_decode(i), insn |-> i]
           p == PastFetch(mm)
<1>1. e.id = pd_decode(i) /\ e.insn = i
  OBVIOUS
<1> HIDE DEF e
<1>2. CASE i.op = 31
  <2>1. CASE Key31(i) \in PPC_OP31
    <3>1. e.id.list = "op31" /\ e.id.key = Key31(i)
      BY <1>1, <1>2, <2>1 DEF pd_decode, Leaf
    <3>2. RunLeaf(e, p) = Op31(Key31(i), p, i)
      BY <1>1, <3>1 DEF RunLeaf
    <3> QED
      BY <1>2, <2>1, <3>2, ExecOp31 DEF e
  <2>2. CASE Key31(i) \notin PPC_OP31
    <3>1. e.id.list = "bad"
      BY <1>1, <1>2, <2>2 DEF pd_decode, Leaf
    <3>2. RunLeaf(e, p) = ppc_illegal(p)
      BY <3>1 DEF RunLeaf
    <3> QED
      BY <1>2, <2>2, <3>2, ExecOp31 DEF e
  <2> QED
    BY <2>1, <2>2
<1>3. CASE i.op = 19
  <2>1. Exec(mm, i) = do_op19(p, i)
    BY <1>3, PrimaryIs DEF Exec, PPC_PRIMARY
  <2>2. CASE Key19(i) = 16
    <3>1. e.id.list = "op19" /\ e.id.key = 16
      BY <1>1, <1>3, <2>2 DEF pd_decode, Leaf
    <3>2. RunLeaf(e, p) = bclr(p, i)
      BY <1>1, <3>1 DEF RunLeaf
    <3> QED
      BY <2>1, <2>2, <3>2 DEF do_op19, e
  <2>3. CASE Key19(i) = 528
    <3>1. e.id.list = "op19" /\ e.id.key = 528
      BY <1>1, <1>3, <2>3 DEF pd_decode, Leaf
    <3>2. RunLeaf(e, p) = bcctr(p, i)
      BY <1>1, <3>1 DEF RunLeaf
    <3> QED
      BY <2>1, <2>3, <3>2 DEF do_op19, e
  <2>4. CASE Key19(i) \notin {16, 528}
    <3>1. e.id.list = "bad"
      BY <1>1, <1>3, <2>4 DEF pd_decode, Leaf
    <3>2. RunLeaf(e, p) = ppc_illegal(p)
      BY <3>1 DEF RunLeaf
    <3> QED
      BY <2>1, <2>4, <3>2 DEF do_op19, e
  <2> QED
    BY <2>2, <2>3, <2>4
<1>4. CASE i.op \notin {19, 31} /\ i.op \in PPC_PRIMARY
  <2>1. e.id.list = "primary" /\ e.id.key = i.op
    BY <1>1, <1>4 DEF pd_decode, Leaf
  <2>2. RunLeaf(e, p) = Primary(i.op, p, i)
    BY <1>1, <2>1 DEF RunLeaf
  <2> QED
    BY <1>4, <2>2 DEF Exec, e
<1>5. CASE i.op \notin {19, 31} /\ i.op \notin PPC_PRIMARY
  <2>1. e.id.list = "bad"
    BY <1>1, <1>5 DEF pd_decode, Leaf
  <2>2. RunLeaf(e, p) = ppc_illegal(p)
    BY <2>1 DEF RunLeaf
  <2> QED
    BY <1>5, <2>2 DEF Exec, e
<1> QED
  BY <1>2, <1>3, <1>4, <1>5

\* h_bad is no opcode.
LEMMA HandlerRuns ==
  ASSUME NEW mm, NEW i, IsInsn(i)
  PROVE  Handler(g_dispatch[i.op], PastFetch(mm), i) = Exec(mm, i)
<1>1. i.op \in 0..63
  BY DEF IsInsn
<1>2. CASE i.op \in PPC_PRIMARY
  <2>1. g_dispatch[i.op] = i.op /\ i.op # h_bad
    BY <1>1, <1>2 DEF g_dispatch, h_bad
  <2> QED
    BY <1>2, <2>1 DEF Handler, Exec
<1>3. CASE i.op \notin PPC_PRIMARY
  <2>1. g_dispatch[i.op] = h_bad
    BY <1>1, <1>3 DEF g_dispatch
  <2> QED
    BY <1>3, <2>1 DEF Handler, Exec
<1> QED
  BY <1>2, <1>3

\* The divergent forms of the formats go wrong in what they compute only.
LEMMA DivergentGood ==
  ASSUME NEW mm, Ready(mm), NEW i, IsInsn(i), NEW wide, Divergent(i)
  PROVE  Good(mm, PdxStep(mm, pdx_decode(mm.pc, i, wide), wide))
<1> DEFINE e == pdx_decode(mm.pc, i, wide)
           p == PastFetch(mm)
<1>1. Good(mm, p) /\ IsMachine(p) /\ Aligned4(p)
  BY PastFetchGood, GoodIs DEF Ready
<1>2. /\ i.rd \in Regs /\ i.ra \in Regs /\ i.rd \in 0..31 /\ i.ra \in 0..31
      /\ P_SIMM(i) \in Long /\ High(P_UIMM(i)) \in Long
  BY FieldTypes DEF Regs
<1>3. \A r \in Regs : mm.gpr[r] \in Long
  BY RegType DEF Ready, Regs
<1>4. CASE i.op = 27
  <2> DEFINE v == Immediate("XORI", mm.gpr[i.rd], High(P_UIMM(i)))
  <2>1. e = Entry(i, "XORI", RO(i.ra), RO(i.rd), High(P_UIMM(i)))
    BY <1>4, PdxDomains DEF pdx_decode
  <2>2. "XORI" \in AluI
    BY DEF AluI
  <2>3. PdxStep(mm, e, wide) = Write(p, i.ra, v, Plain)
    BY <1>2, <2>1, <2>2, RunImmediate
  <2>4. v = Eor(mm.gpr[i.rd], High(P_UIMM(i)))
    BY DEF Immediate
  <2>5. v \in Long
    BY <1>2, <1>3, <2>4, BitsType
  <2> HIDE DEF v
  <2>6. Good(p, Write(p, i.ra, v, FALSE))
    BY <1>1, <1>2, <2>5, WriteGood
  <2> QED
    BY <1>1, <2>3, <2>6, GoodThen DEF Plain
<1>5. CASE i.op \in {33, 37}
  <2> DEFINE ea == Add(mm.gpr[i.ra], P_SIMM(i))
  <2>1. e = MemEntry(i, PdxMemD[i.op], RO(i.ra), P_SIMM(i))
    BY <1>5, PdxDomains DEF pdx_decode, UpdateBase
  <2>2. e.id = PdxMemD[i.op] /\ e.a = RO(i.rd) /\ e.b = RO(i.ra) /\ e.c = P_SIMM(i)
    BY <2>1, MemFields
  <2>3. Add(GPRO(mm, e.b), e.c) = ea /\ e.a \div 4 = i.rd /\ e.b \div 4 = i.ra
    BY <1>2, <2>2, Operand
  <2>4. ea \in Long
    BY <1>2, <1>3, AddType, LongInt
  <2> HIDE DEF e, ea
  <2>5. CASE i.op = 33
    <3>1. PdxStep(mm, e, wide) = Update(LoadTo(p, i.rd, ea, 4), i.ra, ea)
      BY <2>2, <2>3, <2>5, PdxLists, StepMemD
    <3>2. Good(p, LoadTo(p, i.rd, ea, 4))
      BY <1>1, <1>2, <2>4, LoadToGood
    <3>3. Good(p, Update(LoadTo(p, i.rd, ea, 4), i.ra, ea))
      BY <1>1, <1>2, <2>4, <3>2, UpdateGood, GoodThen, GoodIs
    <3> QED
      BY <1>1, <3>1, <3>3, GoodThen DEF e
  <2>6. CASE i.op = 37
    <3>1. PdxStep(mm, e, wide) = Update(StoreFrom(p, i.rd, ea, 4), i.ra, ea)
      BY <2>2, <2>3, <2>6, PdxLists, StepMemD
    <3>2. Good(p, StoreFrom(p, i.rd, ea, 4))
      BY <1>1, <1>2, <2>4, StoreFromGood
    <3>3. Good(p, Update(StoreFrom(p, i.rd, ea, 4), i.ra, ea))
      BY <1>1, <1>2, <2>4, <3>2, UpdateGood, GoodThen, GoodIs
    <3> QED
      BY <1>1, <3>1, <3>3, GoodThen DEF e
  <2> QED
    BY <1>5, <2>5, <2>6
<1> QED
  BY <1>4, <1>5 DEF Divergent

LEMMA FormatGood ==
  ASSUME NEW mm, Ready(mm), NEW i, IsInsn(i), NEW wide
  PROVE  Good(mm, PdxStep(mm, pdx_decode(mm.pc, i, wide), wide))
<1>1. CASE Divergent(i)
  BY <1>1, DivergentGood
<1>2. CASE ~Divergent(i)
  <2>1. PdxStep(mm, pdx_decode(mm.pc, i, wide), wide) = Exec(mm, i)
    BY <1>2, FormatRunsTheBodies DEF Matches
  <2> QED
    BY <2>1, ExecGood DEF Ready
<1> QED
  BY <1>1, <1>2
----------------------------------------------------------------------------
\* What the invariant says to a step.
LEMMA RunFacts ==
  ASSUME IInv
  PROVE  /\ IsMachine(m) /\ Aligned4(m) /\ Ready(m) /\ m.fate = "ok" /\ m.gpr[ZERO] = 0
         /\ m.pc \in Nat /\ m.pc \in Long /\ m.pc % 4 = 0 /\ cpc \in Long /\ cpc % 4 = 0
         /\ IsInsn(insn) /\ IsInsn(Fetch(m, m.pc))
<1>1. IsMachine(m) /\ Aligned4(m) /\ m.gpr[ZERO] = 0
  BY DEF IInv, TypeOK, AlignedPcs, Aligned4, ZeroBaseStaysZero
<1>2. m.pc \in Long /\ m.pc \in Nat /\ m.pc % 4 = 0
  BY <1>1, RegType, LongInt DEF Aligned4
<1>3. IsInsn(Fetch(m, m.pc))
  BY <1>1, <1>2, FetchType
<1> QED
  BY <1>1, <1>2, <1>3 DEF IInv, TypeOK, AlignedPcs, Ready

\* What one decoding of the region leaves in the table.
LEMMA TableType ==
  ASSUME IInv
  PROVE  /\ \A e \in Entries : \E w \in Long :
              PdTable[e] = [id |-> pd_decode(InsnOf[w]), insn |-> InsnOf[w]]
         /\ \A wide : \A e \in Entries : \E w \in Long :
              PdxTable(wide)[e] = pdx_decode(4 * e, InsnOf[w], wide)
<1>1. ASSUME NEW e \in Entries
      PROVE  /\ e \in Nat /\ 4 * e \in Nat /\ (4 * e) % 4 = 0
             /\ \E w \in Long : Fetch(m, 4 * e) = InsnOf[w]
  <2>1. e \in Nat /\ 4 * e \in Int /\ 4 * e \in Nat /\ (4 * e) % 4 = 0
    BY PpcAssumption DEF Entries
  <2> DEFINE a == 4 * e
  <2> HIDE DEF a
  <2>2. Fast(a, 4)
    BY <2>1, AlignedIsFast DEF a
  <2>3. m.ram \in [Address -> Byte]
    BY RunFacts, RegType
  <2>4. Load(m.ram, a, 4) \in Long
    BY <2>1, <2>2, <2>3, LoadType DEF a
  <2> QED
    BY <2>1, <2>4 DEF Fetch, a
<1>2. ASSUME NEW e \in Entries
      PROVE  \E w \in Long : PdTable[e] = [id |-> pd_decode(InsnOf[w]), insn |-> InsnOf[w]]
  BY <1>1 DEF PdTable
<1>3. ASSUME NEW wide, NEW e \in Entries
      PROVE  \E w \in Long : PdxTable(wide)[e] = pdx_decode(4 * e, InsnOf[w], wide)
  BY <1>1 DEF PdxTable
<1> QED
  BY <1>2, <1>3

LEMMA SetupInv == IInv /\ Setup => IInv'
<1> SUFFICES ASSUME IInv, Setup PROVE IInv'
  OBVIOUS
<1>1. PICK k \in Kernels : kernel' = k /\ m' = SetUp(k)
  BY DEF Setup
<1>2. /\ IsMachine(m') /\ m'.gpr[ZERO] = 0 /\ m'.fate = "ok" /\ m'.pc = CODE_BASE
      /\ CODE_BASE \in Long /\ CODE_BASE % 4 = 0
  BY <1>1, SetUpType
<1>3. TypeOK'
  BY <1>1, <1>2 DEF IInv, TypeOK, Setup
<1>4. ZeroBaseStaysZero' /\ AlignedPcs'
  BY <1>2 DEF ZeroBaseStaysZero, AlignedPcs, Setup
<1>5. Decoded' /\ Control'
  BY DEF IInv, Decoded, Control, Setup
<1> QED
  BY <1>3, <1>4, <1>5 DEF IInv

LEMMA CallInv ==
  ASSUME IInv, NEW b \in {"switch", "tail", "call", "pd"} \cup Formats, NEW budget \in Budgets, NEW t,
         Call(b, budget, t),
         b = "pd" => t = PdTable, b \in Formats => t = PdxTable(b = "pdx16")
  PROVE  IInv'
<1>1. /\ m' = [m EXCEPT !.pc = cpc] /\ cpc' = cpc /\ backend' = b /\ n' = budget
      /\ tab' = t /\ phase' = "run" /\ at' = IF b = "tail" THEN "entry" ELSE "loop"
      /\ sprints' = sprints + 1 /\ sprints < MaxSprints /\ kernel' = kernel /\ insn' = insn
  BY DEF Call
<1>2. IsMachine(m') /\ m'.gpr[ZERO] = 0 /\ m'.fate = "ok" /\ m'.pc = cpc /\ cpc \in Long /\ cpc % 4 = 0
  BY <1>1, RunFacts DEF IsMachine
<1>3. TypeOK'
  <2>1. budget \in Nat /\ n' \in 0..budget
    BY <1>1, PpcAssumption
  <2>2. sprints' \in 0..MaxSprints
    BY <1>1, PpcAssumption DEF IInv, TypeOK
  <2> QED
    BY <1>1, <1>2, <2>1, <2>2 DEF IInv, TypeOK
<1>4. ZeroBaseStaysZero' /\ AlignedPcs'
  BY <1>1, <1>2 DEF ZeroBaseStaysZero, AlignedPcs
<1>5. Decoded'
  BY <1>1, TableType DEF Decoded, Formats
<1>6. Control'
  BY <1>1, <1>2 DEF Control
<1> QED
  BY <1>3, <1>4, <1>5, <1>6 DEF IInv

LEMMA StartInv == ASSUME IInv, NEW budget \in Budgets, Start(budget) PROVE IInv'
<1>1. CASE CallSwitch(budget)
  BY <1>1, CallInv DEF CallSwitch, Formats
<1>2. CASE CallTail(budget)
  BY <1>2, CallInv DEF CallTail, Formats
<1>3. CASE CallCall(budget)
  BY <1>3, CallInv DEF CallCall, Formats
<1>4. CASE CallPd(budget)
  BY <1>4, CallInv DEF CallPd, Formats
<1>5. ASSUME NEW b \in Formats, CallPdx(b, budget) PROVE IInv'
  BY <1>5, CallInv DEF CallPdx, Formats
<1> QED
  BY <1>1, <1>2, <1>3, <1>4, <1>5 DEF Start
----------------------------------------------------------------------------
\* The number of instructions left only falls.
LEMMA CountDown ==
  ASSUME IInv, n > 0
  PROVE  n \in Nat /\ n - 1 \in Nat /\ \E b \in Budgets \cup {0} : n - 1 \in 0..b
<1>1. PICK b \in Budgets \cup {0} : n \in 0..b
  BY DEF IInv, TypeOK
<1>2. b \in Nat
  BY PpcAssumption
<1> QED
  BY <1>1, <1>2

LEMMA RetireInv ==
  ASSUME IInv, phase = "run", n > 0, at = "loop", NEW r, Good(m, r),
         Retire(r, n - 1), Same, UNCHANGED <<at, insn>>
  PROVE  IInv'
<1>1. /\ m' = r /\ r.fate = "ok" /\ n' = n - 1 /\ cpc' = cpc /\ phase' = phase
      /\ backend' = backend /\ kernel' = kernel /\ tab' = tab /\ sprints' = sprints
      /\ at' = at /\ insn' = insn
  BY DEF Retire, Same
<1>2. IsMachine(r) /\ r.gpr[ZERO] = 0 /\ r.pc % 4 = 0
  BY RunFacts DEF Good, Aligned4
<1>3. TypeOK'
  BY <1>1, <1>2, CountDown DEF IInv, TypeOK
<1>4. ZeroBaseStaysZero' /\ AlignedPcs'
  BY <1>1, <1>2, RunFacts DEF ZeroBaseStaysZero, AlignedPcs
<1>5. Decoded' /\ Control'
  BY <1>1 DEF IInv, Decoded, Control
<1> QED
  BY <1>3, <1>4, <1>5 DEF IInv

LEMMA DieInv ==
  ASSUME IInv, phase = "run", NEW r, Good(m, r), NEW n1, n1 \in {n, n - 1}, n1 = n \/ n > 0,
         NEW p \in {cpc, m.pc}, Die(r, n1, p), Same, UNCHANGED <<at, insn>>
  PROVE  IInv'
<1>1. /\ m' = m /\ phase' = r.fate /\ r.fate # "ok" /\ n' = n1 /\ cpc' = p
      /\ backend' = backend /\ kernel' = kernel /\ tab' = tab /\ sprints' = sprints
      /\ at' = at /\ insn' = insn
  BY DEF Die, Same
<1>2. r.fate \in {"illegal", "bad_access"}
  <2>1. r.fate \in Fates
    BY RegType DEF Good
  <2> QED
    BY <1>1, <2>1 DEF Fates
<1>3. p \in Long /\ p % 4 = 0
  BY RunFacts
<1>4. \E b \in Budgets \cup {0} : n1 \in 0..b
  BY CountDown DEF IInv, TypeOK
<1>5. TypeOK'
  BY <1>1, <1>2, <1>3, <1>4 DEF IInv, TypeOK
<1>6. ZeroBaseStaysZero' /\ AlignedPcs'
  BY <1>1, <1>3, RunFacts DEF ZeroBaseStaysZero, AlignedPcs
<1>7. Decoded' /\ Control'
  BY <1>1, <1>2 DEF IInv, Decoded, Control
<1> QED
  BY <1>5, <1>6, <1>7 DEF IInv

\* One turn of a loop.
LEMMA TurnInv ==
  ASSUME IInv, NEW b, b # "tail", NEW r, Good(m, r), Turn(b, r)
  PROVE  IInv'
<1>1. phase = "run" /\ n > 0 /\ backend = b /\ Same /\ UNCHANGED <<at, insn>>
  BY DEF Turn, InLoop, Running
<1>2. at = "loop"
  BY <1>1 DEF IInv, Control
<1>3. CASE Retire(r, n - 1)
  BY <1>1, <1>2, <1>3, RetireInv
<1>4. CASE Die(r, n - 1, cpc)
  BY <1>1, <1>4, DieInv
<1> QED
  BY <1>3, <1>4 DEF Turn
----------------------------------------------------------------------------
\* The entry under the pc, in the address space of the machine.
LEMMA EntryOf ==
  ASSUME IInv, m.pc \div 4 \in Entries
  PROVE  4 * (m.pc \div 4) = m.pc
BY RunFacts

\* Each backend's turn leaves a good machine: the bodies do, and the formats do
\* even where they differ from them.
LEMMA LoopGood ==
  ASSUME IInv
  PROVE  /\ Good(m, Result(m))
         /\ CallTurn => Good(m, Handler(g_dispatch[Fetch(m, m.pc).op], PastFetch(m), Fetch(m, m.pc)))
         /\ PdTurn => Good(m, RunLeaf(tab[m.pc \div 4], PastFetch(m)))
         /\ \A b \in Formats : PdxTurn(b) => Good(m, PdxStep(m, tab[m.pc \div 4], b = "pdx16"))
<1>1. /\ IsMachine(m) /\ Aligned4(m) /\ Ready(m) /\ IsInsn(Fetch(m, m.pc))
  BY RunFacts
<1>2. Good(m, Result(m))
  BY <1>1, ExecGood DEF Result
<1>3. Good(m, Handler(g_dispatch[Fetch(m, m.pc).op], PastFetch(m), Fetch(m, m.pc)))
  BY <1>1, HandlerRuns, ExecGood
<1>4. ASSUME PdTurn PROVE Good(m, RunLeaf(tab[m.pc \div 4], PastFetch(m)))
  <2>1. backend = "pd" /\ phase = "run" /\ m.pc \div 4 \in Entries
    BY <1>4 DEF PdTurn, Turn, InLoop, Running
  <2>2. PICK w \in Long : tab[m.pc \div 4] = [id |-> pd_decode(InsnOf[w]), insn |-> InsnOf[w]]
    BY <2>1 DEF IInv, Decoded
  <2>3. IsInsn(InsnOf[w])
    BY PpcAssumption
  <2>4. RunLeaf(tab[m.pc \div 4], PastFetch(m)) = Exec(m, InsnOf[w])
    BY <2>2, <2>3, LeafRuns
  <2> QED
    BY <1>1, <2>3, <2>4, ExecGood
<1>5. ASSUME NEW b \in Formats, PdxTurn(b)
      PROVE  Good(m, PdxStep(m, tab[m.pc \div 4], b = "pdx16"))
  <2>1. backend = b /\ phase = "run" /\ m.pc \div 4 \in Entries
    BY <1>5 DEF PdxTurn, InLoop, Running
  <2> DEFINE wide == b = "pdx16"
  <2>2. PICK w \in Long : tab[m.pc \div 4] = pdx_decode(4 * (m.pc \div 4), InsnOf[w], wide)
    BY <2>1 DEF IInv, Decoded
  <2>3. IsInsn(InsnOf[w])
    BY PpcAssumption
  <2>4. tab[m.pc \div 4] = pdx_decode(m.pc, InsnOf[w], wide)
    BY <2>1, <2>2, EntryOf
  <2> HIDE DEF wide
  <2>5. Good(m, PdxStep(m, tab[m.pc \div 4], wide))
    BY <1>1, <2>3, <2>4, FormatGood
  <2> QED
    BY <2>5 DEF wide
<1> QED
  BY <1>2, <1>3, <1>4, <1>5

LEMMA LoopInv ==
  ASSUME IInv, SwitchTurn \/ CallTurn \/ PdTurn \/ \E b \in Formats : PdxTurn(b)
  PROVE  IInv'
<1>1. CASE SwitchTurn
  BY <1>1, LoopGood, TurnInv DEF SwitchTurn
<1>2. CASE CallTurn
  BY <1>2, LoopGood, TurnInv DEF CallTurn
<1>3. CASE PdTurn
  BY <1>3, LoopGood, TurnInv DEF PdTurn
<1>4. ASSUME NEW b \in Formats, PdxTurn(b) PROVE IInv'
  <2> DEFINE r == PdxStep(m, tab[m.pc \div 4], b = "pdx16")
             p == IF tab[m.pc \div 4].id = "ILLEGAL" THEN m.pc ELSE cpc
  <2>1. Good(m, r)
    BY <1>4, LoopGood
  <2>2. /\ phase = "run" /\ n > 0 /\ backend = b /\ Same /\ UNCHANGED <<at, insn>>
        /\ Retire(r, n - 1) \/ Die(r, n - 1, p)
    BY <1>4 DEF PdxTurn, InLoop, Running
  <2>3. p \in {cpc, m.pc}
    OBVIOUS
  <2> HIDE DEF r, p
  <2>4. at = "loop"
    BY <2>2 DEF IInv, Control, Formats
  <2>5. CASE Retire(r, n - 1)
    BY <2>1, <2>2, <2>4, <2>5, RetireInv
  <2>6. CASE Die(r, n - 1, p)
    BY <2>1, <2>2, <2>3, <2>6, DieInv
  <2> QED
    BY <2>2, <2>5, <2>6
<1> QED
  BY <1>1, <1>2, <1>3, <1>4
----------------------------------------------------------------------------
\* Stepping back over the instruction just fetched, and forward again.
LEMMA ForthAgain ==
  ASSUME NEW v \in Long
  PROVE  Sub(v, 4) \in Long /\ Add(Sub(v, 4), 4) = v
<1> DEFINE mod == LongMod
<1>1. mod \in Nat /\ mod >= 4 /\ v \in Nat /\ v < mod /\ v \in Int
  BY LongFacts DEF Long
<1>2. Sub(v, 4) \in Long
  BY <1>1, AddType
<1> HIDE DEF mod
<1>3. CASE v >= 4
  <2>1. (v - 4) % mod = v - 4
    BY <1>1, <1>3
  <2>2. ((v - 4) + 4) % mod = v
    BY <1>1
  <2> QED
    BY <1>2, <2>1, <2>2 DEF Add, Sub, mod
<1>4. CASE v < 4
  <2>1. (v - 4) % mod = v - 4 + mod
    BY <1>1, <1>4
  <2>2. ((v - 4 + mod) + 4) % mod = v
    <3>1. (v - 4 + mod) + 4 = v + mod
      BY <1>1
    <3>2. (v + mod) % mod = v
      BY <1>1
    <3> QED
      BY <3>1, <3>2
  <2> QED
    BY <1>2, <2>1, <2>2 DEF Add, Sub, mod
<1> QED
  BY <1>1, <1>3, <1>4

\* The machine a tail handler was called from.
Before == [m EXCEPT !.pc = Sub(m.pc, 4)]

LEMMA BeforeHandler ==
  ASSUME IInv
  PROVE  /\ IsMachine(Before) /\ Aligned4(Before) /\ Before.gpr[ZERO] = 0
         /\ Before.pc = Sub(m.pc, 4) /\ PastFetch(Before) = m
<1>1. m.pc \in Long /\ m.pc \in Int /\ m.pc % 4 = 0 /\ IsMachine(m) /\ m.gpr[ZERO] = 0
  BY RunFacts
<1>2. Sub(m.pc, 4) \in Long /\ Sub(m.pc, 4) % 4 = 0 /\ Add(Sub(m.pc, 4), 4) = m.pc
  BY <1>1, ForthAgain, AddAligned
<1>3. IsMachine(Before) /\ Before.pc = Sub(m.pc, 4) /\ Before.gpr = m.gpr
  BY <1>1, <1>2 DEF Before, IsMachine
<1>4. PastFetch(Before) = m
  BY <1>1, <1>2 DEF Before, IsMachine, PastFetch
<1> QED
  BY <1>1, <1>2, <1>3, <1>4 DEF Aligned4

\* What a tail handler makes of the machine is what its instruction makes of
\* the one it was fetched in.
LEMMA TailRuns ==
  ASSUME IInv, Running("tail"), at = "handler"
  PROVE  /\ Handler(g_dispatch[insn.op], m, insn) = Result(Before)
         /\ Good(m, Handler(g_dispatch[insn.op], m, insn))
<1>1. insn = Fetch(m, Sub(m.pc, 4)) /\ IsInsn(insn)
  BY DEF IInv, TypeOK, Control, Running
<1>2. /\ IsMachine(Before) /\ Aligned4(Before) /\ Before.pc = Sub(m.pc, 4)
      /\ PastFetch(Before) = m /\ Before.gpr[ZERO] = 0 /\ m.gpr[ZERO] = 0
  BY BeforeHandler, RunFacts
<1>3. Fetch(Before, Before.pc) = insn
  <2>1. Before.ram = m.ram
    BY RunFacts DEF Before, IsMachine
  <2> QED
    BY <1>1, <1>2, <2>1 DEF Fetch
<1>4. Handler(g_dispatch[insn.op], m, insn) = Exec(Before, insn)
  BY <1>1, <1>2, HandlerRuns
<1>5. Good(Before, Exec(Before, insn))
  BY <1>1, <1>2, ExecGood
<1>6. Good(m, Exec(Before, insn))
  BY <1>2, <1>5 DEF Good
<1> QED
  BY <1>3, <1>4, <1>6 DEF Result

LEMMA TailInv == ASSUME IInv, TailHandler \/ TailFetch \/ TailReturn PROVE IInv'
<1>1. CASE TailHandler
  <2> DEFINE r == Handler(g_dispatch[insn.op], m, insn)
  <2>1. /\ backend = "tail" /\ phase = "run" /\ at = "handler" /\ Same /\ UNCHANGED insn
        /\ (Retire(r, n) /\ at' = "next") \/ (Die(r, n, cpc) /\ UNCHANGED at)
    BY <1>1 DEF TailHandler, Running
  <2>2. Good(m, r)
    BY <2>1, TailRuns DEF Running
  <2> HIDE DEF r
  <2>3. CASE Retire(r, n) /\ at' = "next"
    <3>1. /\ m' = r /\ r.fate = "ok" /\ n' = n /\ cpc' = cpc /\ phase' = phase
          /\ backend' = backend /\ kernel' = kernel /\ tab' = tab /\ sprints' = sprints
          /\ at' = "next" /\ insn' = insn
      BY <2>1, <2>3 DEF Retire, Same
    <3>2. IsMachine(r) /\ r.gpr[ZERO] = 0 /\ r.pc % 4 = 0
      BY <2>2, RunFacts DEF Good, Aligned4
    <3>3. TypeOK'
      BY <3>1, <3>2 DEF IInv, TypeOK
    <3>4. ZeroBaseStaysZero' /\ AlignedPcs'
      BY <3>1, <3>2, RunFacts DEF ZeroBaseStaysZero, AlignedPcs
    <3>5. Decoded' /\ Control'
      BY <2>1, <3>1 DEF IInv, Decoded, Control
    <3> QED
      BY <3>3, <3>4, <3>5 DEF IInv
  <2>4. CASE Die(r, n, cpc) /\ UNCHANGED at
    BY <2>1, <2>2, <2>4, DieInv
  <2> QED
    BY <2>1, <2>3, <2>4
<1>2. CASE TailFetch
  <2>1. /\ backend = "tail" /\ phase = "run" /\ n > 0
        /\ insn' = Fetch(m, m.pc) /\ m' = PastFetch(m) /\ n' = n - 1 /\ at' = "handler"
        /\ backend' = backend /\ kernel' = kernel /\ tab' = tab /\ sprints' = sprints
        /\ cpc' = cpc /\ phase' = phase
    BY <1>2 DEF TailFetch, Running, Same
  <2>2. Good(m, PastFetch(m)) /\ PastFetch(m).fate = "ok" /\ PastFetch(m).ram = m.ram
        /\ PastFetch(m).pc = Add(m.pc, 4) /\ IsInsn(Fetch(m, m.pc))
    BY RunFacts, PastFetchGood, PastFields
  <2>3. IsMachine(m') /\ m'.gpr[ZERO] = 0 /\ m'.pc % 4 = 0 /\ m'.fate = "ok"
    BY <2>1, <2>2, RunFacts DEF Good, Aligned4
  <2>4. TypeOK'
    BY <2>1, <2>2, <2>3, CountDown DEF IInv, TypeOK
  <2>5. ZeroBaseStaysZero' /\ AlignedPcs'
    BY <2>1, <2>3, RunFacts DEF ZeroBaseStaysZero, AlignedPcs
  <2>6. Sub(m'.pc, 4) = m.pc /\ m'.ram = m.ram
    BY <2>1, <2>2, RunFacts, BackAgain
  <2>7. insn' = Fetch(m', Sub(m'.pc, 4))
    BY <2>1, <2>6 DEF Fetch
  <2>8. Decoded' /\ Control'
    BY <2>1, <2>7 DEF IInv, Decoded, Control, Formats
  <2> QED
    BY <2>4, <2>5, <2>8 DEF IInv
<1>3. CASE TailReturn
  <2>1. /\ backend = "tail" /\ phase' = "idle" /\ at' = "loop" /\ cpc' \in {cpc, m.pc}
        /\ backend' = backend /\ kernel' = kernel /\ tab' = tab /\ sprints' = sprints
        /\ m' = m /\ insn' = insn /\ n' = n
    BY <1>3 DEF TailReturn, Running, Same
  <2>2. cpc' \in Long /\ cpc' % 4 = 0
    BY <2>1, RunFacts
  <2> QED
    BY <2>1, <2>2 DEF IInv, TypeOK, ZeroBaseStaysZero, AlignedPcs, Decoded, Control
<1> QED
  BY <1>1, <1>2, <1>3

LEMMA NextInv == IInv /\ [Next]_vars => IInv'
<1> SUFFICES ASSUME IInv, [Next]_vars PROVE IInv'
  OBVIOUS
<1>1. CASE Setup
  BY <1>1, SetupInv
<1>2. CASE \E budget \in Budgets : Start(budget)
  BY <1>2, StartInv
<1>3. CASE Step
  <2>1. CASE Return
    <3>1. /\ at = "loop" /\ phase' = "idle" /\ cpc' = m.pc
          /\ backend' = backend /\ kernel' = kernel /\ tab' = tab /\ sprints' = sprints
          /\ m' = m /\ at' = at /\ insn' = insn /\ n' = n
      BY <2>1 DEF Return, Same
    <3>2. cpc' \in Long /\ cpc' % 4 = 0
      BY <3>1, RunFacts
    <3> QED
      BY <3>1, <3>2 DEF IInv, TypeOK, ZeroBaseStaysZero, AlignedPcs, Decoded, Control
  <2> QED
    BY <1>3, <2>1, LoopInv, TailInv DEF Step
<1>4. CASE Wild
  <2>1. /\ backend # "tail" /\ phase = "run" /\ phase' = "wild" /\ Same
        /\ UNCHANGED <<m, cpc, at, insn, n>>
    BY <1>4 DEF Wild
  <2>2. at = "loop"
    BY <2>1 DEF IInv, Control
  <2> QED
    BY <2>1, <2>2 DEF Same, IInv, TypeOK, ZeroBaseStaysZero, AlignedPcs, Decoded, Control
<1>5. CASE UNCHANGED vars
  BY <1>5 DEF vars, IInv, TypeOK, ZeroBaseStaysZero, AlignedPcs, Decoded, Control, PdTable, PdxTable
<1> QED
  BY <1>1, <1>2, <1>3, <1>4, <1>5 DEF Next

LEMMA InvHolds == Spec => []IInv
<1>1. Init => IInv
  BY InitInv
<1>2. IInv /\ [Next]_vars => IInv'
  BY NextInv
<1> QED
  BY <1>1, <1>2, PTL DEF Spec

\* Whatever runs, on any of the six backends, the machine stays a machine, the
\* budget only counts down from one the harness gave, and a process that ended
\* ended in one of the two diagnostics.
THEOREM TypeCorrect == Spec => []TypeOK
<1>1. IInv => TypeOK
  BY DEF IInv
<1> QED
  BY <1>1, InvHolds, PTL

\* No instruction of any backend, decoded from any word, writes the zero behind
\* gpr[31] (ppc_bench.h:19, zero_base).
THEOREM ZeroBase == Spec => []ZeroBaseStaysZero
<1>1. IInv => ZeroBaseStaysZero
  BY DEF IInv
<1> QED
  BY <1>1, InvHolds, PTL
----------------------------------------------------------------------------
\* Where the formats are the machine: on no instruction that is about to run do
\* they differ from the bodies.
SameForms ==
    (InLoop(backend) /\ backend \in Formats /\ m.pc \div 4 \in Entries)
      => ~Divergent(Fetch(m, m.pc))

\* Outside a handler the machine is seen as it is.
LEMMA SeenPlain ==
  /\ at # "handler" => SeenM = m /\ SeenN = n
  /\ at' # "handler" => SeenM' = m' /\ SeenN' = n'
  /\ phase # "wild" => SeenPhase = phase
  /\ phase' # "wild" => SeenPhase' = phase'
BY DEF SeenM, SeenN, SeenPhase

\* The turn of a loop that leaves what the instruction at pc makes of m.
LEMMA TurnRefines ==
  ASSUME IInv, at = "loop", phase = "run", n > 0, NEW r, r = Result(m), NEW p \in {cpc, m.pc},
         Retire(r, n - 1) \/ Die(r, n - 1, p), Same, UNCHANGED <<at, insn>>
  PROVE  Machine!Execute \/ Machine!Die
<1>1. kernel' = kernel /\ sprints' = sprints /\ at' = at
  BY DEF Same
<1>2. SeenM = m /\ SeenN = n /\ SeenM' = m' /\ SeenN' = n' /\ SeenPhase = "run"
  BY <1>1, SeenPlain
<1>3. CASE Retire(r, n - 1)
  <2>1. m' = r /\ n' = n - 1 /\ cpc' = cpc /\ phase' = phase /\ r.fate = "ok"
    BY <1>3 DEF Retire
  <2>2. SeenPhase' = SeenPhase
    BY <2>1 DEF SeenPhase
  <2> QED
    BY <1>1, <1>2, <2>1, <2>2 DEF Machine!Execute
<1>4. CASE Die(r, n - 1, p)
  <2>1. m' = m /\ n' = n - 1 /\ cpc' = p /\ phase' = r.fate /\ r.fate # "ok"
    BY <1>4 DEF Die
  <2>2. r.fate # "wild"
    <3>1. Good(m, r)
      BY LoopGood
    <3> QED
      BY <3>1, RegType DEF Good, Fates
  <2>3. SeenPhase' = r.fate
    BY <2>1, <2>2 DEF SeenPhase
  <2> QED
    BY <1>1, <1>2, <2>1, <2>3 DEF Machine!Die
<1> QED
  BY <1>3, <1>4

LEMMA LoopRefines ==
  ASSUME IInv, TableIsRam, SameForms,
         SwitchTurn \/ CallTurn \/ PdTurn \/ \E b \in Formats : PdxTurn(b)
  PROVE  Machine!Execute \/ Machine!Die
<1>1. IsInsn(Fetch(m, m.pc)) /\ Ready(m)
  BY RunFacts
<1>2. ASSUME NEW b, b # "tail", NEW r, r = Result(m), Turn(b, r)
      PROVE  Machine!Execute \/ Machine!Die
  <2>1. /\ phase = "run" /\ n > 0 /\ backend = b /\ Same /\ UNCHANGED <<at, insn>>
        /\ Retire(r, n - 1) \/ Die(r, n - 1, cpc)
    BY <1>2 DEF Turn, InLoop, Running
  <2>2. at = "loop"
    BY <1>2, <2>1 DEF IInv, Control
  <2> QED
    BY <1>2, <2>1, <2>2, TurnRefines
<1>3. CASE SwitchTurn
  BY <1>2, <1>3 DEF SwitchTurn
<1>4. CASE CallTurn
  <2>1. Handler(g_dispatch[Fetch(m, m.pc).op], PastFetch(m), Fetch(m, m.pc)) = Result(m)
    BY <1>1, HandlerRuns DEF Result
  <2> QED
    BY <1>2, <1>4, <2>1 DEF CallTurn
<1>5. CASE PdTurn
  <2>1. backend = "pd" /\ phase = "run" /\ m.pc \div 4 \in Entries
    BY <1>5 DEF PdTurn, Turn, InLoop, Running
  <2>2. tab = PdTable
    BY <2>1 DEF TableIsRam, IInv, Control, Formats
  <2>3. tab[m.pc \div 4] = [id |-> pd_decode(Fetch(m, m.pc)), insn |-> Fetch(m, m.pc)]
    BY <2>1, <2>2, EntryOf DEF PdTable
  <2>4. RunLeaf(tab[m.pc \div 4], PastFetch(m)) = Result(m)
    BY <1>1, <2>3, LeafRuns DEF Result
  <2> QED
    BY <1>2, <1>5, <2>4 DEF PdTurn
<1>6. ASSUME NEW b \in Formats, PdxTurn(b) PROVE Machine!Execute \/ Machine!Die
  <2> DEFINE r == PdxStep(m, tab[m.pc \div 4], b = "pdx16")
             p == IF tab[m.pc \div 4].id = "ILLEGAL" THEN m.pc ELSE cpc
             wide == b = "pdx16"
  <2>1. /\ phase = "run" /\ n > 0 /\ backend = b /\ m.pc \div 4 \in Entries
        /\ Same /\ UNCHANGED <<at, insn>> /\ InLoop(backend)
        /\ Retire(r, n - 1) \/ Die(r, n - 1, p)
    BY <1>6 DEF PdxTurn, InLoop, Running
  <2>2. p \in {cpc, m.pc}
    OBVIOUS
  <2>3. at = "loop" /\ b # "pd"
    BY <2>1 DEF IInv, Control, Formats
  <2>4. tab = PdxTable(wide)
    BY <2>1, <2>3 DEF TableIsRam
  <2> HIDE DEF wide
  <2>5. tab[m.pc \div 4] = pdx_decode(m.pc, Fetch(m, m.pc), wide)
    BY <2>1, <2>4, EntryOf DEF PdxTable
  <2>6. ~Divergent(Fetch(m, m.pc))
    BY <2>1 DEF SameForms
  <2>7. PdxStep(m, tab[m.pc \div 4], wide) = Result(m)
    BY <1>1, <2>5, <2>6, FormatRunsTheBodies DEF Matches, Result
  <2>8. r = Result(m)
    BY <2>7 DEF wide
  <2> HIDE DEF r, p
  <2> QED
    BY <2>1, <2>2, <2>3, <2>8, TurnRefines
<1> QED
  BY <1>3, <1>4, <1>5, <1>6

\* A tail handler is the instruction fetched before it; the fetch itself and
\* the return are invisible, or the end of the call.
LEMMA TailRefines ==
  ASSUME IInv, TailHandler \/ TailFetch \/ TailReturn
  PROVE  \/ Machine!Execute \/ Machine!Die \/ Machine!Leave
         \/ UNCHANGED Machine!vars
<1>1. CASE TailHandler
  <2> DEFINE r == Handler(g_dispatch[insn.op], m, insn)
  <2>1. /\ backend = "tail" /\ phase = "run" /\ at = "handler" /\ kernel' = kernel
        /\ sprints' = sprints
        /\ (Retire(r, n) /\ at' = "next") \/ (Die(r, n, cpc) /\ at' = at)
    BY <1>1 DEF TailHandler, Running, Same
  <2>2. Good(m, r) /\ r = Result(Before) /\ n \in Nat
    BY <2>1, TailRuns, PpcAssumption DEF Running, IInv, TypeOK
  <2> HIDE DEF r
  <2>3. SeenM = Before /\ SeenN = n + 1 /\ SeenPhase = "run" /\ n + 1 > 0 /\ (n + 1) - 1 = n
    BY <2>1, <2>2 DEF SeenM, SeenN, SeenPhase, Before
  <2>4. CASE Retire(r, n) /\ at' = "next"
    <3>1. m' = r /\ n' = n /\ cpc' = cpc /\ phase' = "run" /\ r.fate = "ok"
      BY <2>1, <2>4 DEF Retire
    <3>2. SeenM' = r /\ SeenN' = n /\ SeenPhase' = "run"
      BY <2>4, <3>1 DEF SeenM, SeenN, SeenPhase
    <3> QED
      BY <2>1, <2>2, <2>3, <3>1, <3>2 DEF Machine!Execute
  <2>5. CASE Die(r, n, cpc) /\ at' = at
    <3>1. m' = m /\ n' = n /\ cpc' = cpc /\ phase' = r.fate /\ r.fate # "ok"
      BY <2>5 DEF Die
    <3>2. r.fate \in {"illegal", "bad_access"}
      BY <2>2, <3>1, RegType DEF Good, Fates
    <3>3. SeenM' = SeenM /\ SeenN' = n /\ SeenPhase' = r.fate
      BY <2>1, <2>5, <3>1, <3>2 DEF SeenM, SeenN, SeenPhase
    <3> QED
      BY <2>1, <2>2, <2>3, <3>1, <3>3 DEF Machine!Die
  <2> QED
    BY <2>1, <2>4, <2>5
<1>2. CASE TailFetch
  <2>1. /\ phase = "run" /\ at # "handler" /\ n > 0 /\ kernel' = kernel /\ sprints' = sprints
        /\ m' = PastFetch(m) /\ n' = n - 1 /\ at' = "handler" /\ cpc' = cpc /\ phase' = phase
    BY <1>2 DEF TailFetch, Running, Same
  <2>2. SeenM' = [m' EXCEPT !.pc = Sub(m'.pc, 4)] /\ SeenN' = n' + 1
    BY <2>1 DEF SeenM, SeenN
  <2>3. m'.pc = Add(m.pc, 4) /\ Sub(Add(m.pc, 4), 4) = m.pc
    BY <2>1, RunFacts, PastFields, BackAgain
  <2>4. [m' EXCEPT !.pc = m.pc] = m
    <3>1. IsMachine(m) /\ m' = [m EXCEPT !.pc = Add(m.pc, 4)]
      BY <2>1, RunFacts, PastFetchGood
    <3> QED
      BY <3>1 DEF IsMachine
  <2>5. SeenM' = SeenM /\ SeenN' = SeenN /\ SeenPhase' = SeenPhase
    BY <2>1, <2>2, <2>3, <2>4, CountDown, SeenPlain DEF SeenPhase
  <2> QED
    BY <2>1, <2>5 DEF Machine!vars
<1>3. CASE TailReturn
  <2>1. /\ phase = "run" /\ at # "handler" /\ n = 0 /\ kernel' = kernel /\ sprints' = sprints
        /\ phase' = "idle" /\ at' = "loop" /\ m' = m /\ n' = n
        /\ at \in {"entry", "next"} /\ cpc' = IF at = "next" THEN m.pc ELSE cpc
    BY <1>3 DEF TailReturn, Running, Same
  <2>2. cpc' = m.pc
    BY <2>1 DEF IInv, Control
  <2>3. SeenM = m /\ SeenN = n /\ SeenM' = m' /\ SeenN' = n' /\ SeenPhase = "run" /\ SeenPhase' = "idle"
    BY <2>1, SeenPlain
  <2> QED
    BY <2>1, <2>2, <2>3 DEF Machine!Leave
<1> QED
  BY <1>1, <1>2, <1>3

LEMMA StepRefines ==
  ASSUME IInv, TableIsRam, SameForms, [Next]_vars
  PROVE  [Machine!Next]_(Machine!vars)
<1>1. CASE Setup
  <2>1. /\ phase = "idle" /\ sprints \in 1..(MaxSprints - 1) /\ kernel' \in Kernels
        /\ m' = SetUp(kernel') /\ cpc' = CODE_BASE
        /\ at' = at /\ n' = n /\ phase' = phase /\ sprints' = sprints
    BY <1>1 DEF Setup
  <2>2. at # "handler"
    BY <2>1 DEF IInv, Control
  <2>3. SeenM' = m' /\ SeenN = n /\ SeenN' = n' /\ SeenPhase = "idle" /\ SeenPhase' = "idle"
    BY <2>1, <2>2, SeenPlain
  <2> QED
    BY <2>1, <2>3 DEF Machine!Setup, Machine!Next
<1>2. ASSUME NEW budget \in Budgets, Start(budget) PROVE [Machine!Next]_(Machine!vars)
  <2>1. PICK b, t : Call(b, budget, t)
    BY <1>2 DEF Start, CallSwitch, CallTail, CallCall, CallPd, CallPdx
  <2>2. /\ phase = "idle" /\ sprints < MaxSprints /\ m' = [m EXCEPT !.pc = cpc] /\ n' = budget
        /\ phase' = "run" /\ sprints' = sprints + 1 /\ kernel' = kernel /\ cpc' = cpc
        /\ at' # "handler"
    BY <2>1 DEF Call
  <2>3. at # "handler"
    BY <2>2 DEF IInv, Control
  <2>4. SeenM = m /\ SeenM' = m' /\ SeenN' = n' /\ SeenPhase = "idle" /\ SeenPhase' = "run"
    BY <2>2, <2>3, SeenPlain
  <2>5. Machine!Enter(budget)
    BY <2>2, <2>4 DEF Machine!Enter
  <2> QED
    BY <2>5 DEF Machine!Next
<1>3. CASE Step
  <2>1. CASE Return
    <3>1. /\ phase = "run" /\ at = "loop" /\ n = 0 /\ phase' = "idle" /\ cpc' = m.pc
          /\ kernel' = kernel /\ sprints' = sprints /\ m' = m /\ at' = at /\ n' = n
      BY <2>1 DEF Return, Same
    <3>2. SeenM = m /\ SeenM' = m' /\ SeenN = n /\ SeenN' = n' /\ SeenPhase = "run" /\ SeenPhase' = "idle"
      BY <3>1, SeenPlain
    <3> QED
      BY <3>1, <3>2 DEF Machine!Leave, Machine!Next
  <2> QED
    BY <1>3, <2>1, LoopRefines, TailRefines DEF Step, Machine!Next
<1>4. CASE Wild
  <2>1. /\ phase = "run" /\ phase' = "wild" /\ backend # "tail" /\ kernel' = kernel
        /\ sprints' = sprints /\ m' = m /\ cpc' = cpc /\ at' = at /\ n' = n
    BY <1>4 DEF Wild, Same
  <2>2. at # "handler"
    BY <2>1 DEF IInv, Control
  <2>3. SeenM' = SeenM /\ SeenN' = SeenN /\ SeenPhase' = SeenPhase
    BY <2>1, <2>2 DEF SeenM, SeenN, SeenPhase
  <2> QED
    BY <2>1, <2>3 DEF Machine!vars
<1>5. CASE UNCHANGED vars
  BY <1>5 DEF vars, Machine!vars, SeenM, SeenN, SeenPhase
<1> QED
  BY <1>1, <1>2, <1>3, <1>4, <1>5 DEF Next

\* Every one of the six backends is the machine of PpcMachine: what it does to
\* the registers, to RAM, to c->pc and to the budget is what the bodies of
\* ppc_ops.h do one instruction at a time, for as long as the decoded region
\* is what RAM holds and no divergent form is about to run.
THEOREM BackendsAreTheMachine == Spec /\ []TableIsRam /\ []SameForms => ImplementsMachine
<1>1. Init => Machine!Init
  BY DEF Init, Machine!Init, SeenM, SeenN, SeenPhase
<1>2. IInv /\ TableIsRam /\ SameForms /\ [Next]_vars => [Machine!Next]_(Machine!vars)
  BY StepRefines
<1> QED
  BY <1>1, <1>2, InvHolds, PTL DEF Spec, ImplementsMachine, Machine!Spec

\* The backends that read RAM for every instruction are the machine on any
\* program, one that rewrites itself included.
THEOREM FetchersAreTheMachine ==
  Spec /\ [](backend \in {"switch", "tail", "call"}) => ImplementsMachine
<1>1. backend \in {"switch", "tail", "call"} => TableIsRam /\ SameForms
  BY DEF TableIsRam, SameForms, Formats
<1> QED
  BY <1>1, BackendsAreTheMachine, PTL
----------------------------------------------------------------------------
Predecoding == {"pd"} \cup Formats

\* A step that writes nothing below REGION while a predecoding backend runs.
KeepsRegion ==
    (phase = "run" /\ backend \in Predecoding) =>
        \A a \in 0..(REGION - 1) : m'.ram[a] = m.ram[a]

\* An entry's word lies inside the region.
LEMMA RegionLoad ==
  ASSUME NEW ram, NEW ram2, \A a \in 0..(REGION - 1) : ram2[a] = ram[a], NEW e \in Entries
  PROVE  Load(ram2, 4 * e, 4) = Load(ram, 4 * e, 4)
<1>1. /\ REGION \in Nat /\ REGION <= RamSize /\ RamSize \in Nat
      /\ e \in Nat /\ 4 * e + 3 <= REGION - 1
  BY PpcAssumption, MemoryAssumption DEF Entries
<1>2. Masked(4 * e) = 4 * e
  BY <1>1 DEF Masked
<1> DEFINE a == 4 * e
<1>3. /\ a \in 0..(REGION - 1) /\ a + 1 \in 0..(REGION - 1)
      /\ a + 2 \in 0..(REGION - 1) /\ a + 3 \in 0..(REGION - 1)
  BY <1>1
<1>4. /\ ram2[a] = ram[a] /\ ram2[a + 1] = ram[a + 1]
      /\ ram2[a + 2] = ram[a + 2] /\ ram2[a + 3] = ram[a + 3]
  BY <1>3
<1> HIDE DEF a
<1>5. Masked(a) = a
  BY <1>2 DEF a
<1>6. Load(ram2, a, 4) = Load(ram, a, 4)
  BY <1>4, <1>5 DEF Load
<1> QED
  BY <1>6 DEF a

\* The table a decoding would leave depends on the region alone.
LEMMA SameTables ==
  ASSUME \A a \in 0..(REGION - 1) : m'.ram[a] = m.ram[a]
  PROVE  PdTable' = PdTable /\ \A wide : PdxTable(wide)' = PdxTable(wide)
<1>1. ASSUME NEW e \in Entries PROVE Fetch(m', 4 * e) = Fetch(m, 4 * e)
  BY <1>1, RegionLoad DEF Fetch
<1>2. PdTable' = PdTable
  BY <1>1 DEF PdTable
<1>3. ASSUME NEW wide PROVE PdxTable(wide)' = PdxTable(wide)
  BY <1>1 DEF PdxTable
<1> QED
  BY <1>2, <1>3

LEMMA TableStaysRam ==
  ASSUME IInv, TableIsRam, [Next /\ KeepsRegion]_vars
  PROVE  TableIsRam'
<1> SUFFICES ASSUME phase' = "run", at' = "loop", backend' \in Predecoding
             PROVE  /\ backend' = "pd" => tab' = PdTable'
                    /\ \A b \in Formats : backend' = b => tab' = PdxTable(b = "pdx16")'
  BY DEF TableIsRam, Predecoding, Formats
<1>1. ASSUME NEW budget \in Budgets, Start(budget)
      PROVE  /\ backend' = "pd" => tab' = PdTable'
             /\ \A b \in Formats : backend' = b => tab' = PdxTable(b = "pdx16")'
  <2>1. /\ backend' = "pd" => Call("pd", budget, PdTable)
        /\ \A b \in Formats : backend' = b => Call(b, budget, PdxTable(b = "pdx16"))
    BY <1>1 DEF Start, CallSwitch, CallTail, CallCall, CallPd, CallPdx, Call, Formats
  <2>2. PICK b0, t : Call(b0, budget, t)
    BY <1>1 DEF Start, CallSwitch, CallTail, CallCall, CallPd, CallPdx
  <2>3. m'.ram = m.ram
    BY <2>2, RunFacts DEF Call, IsMachine
  <2>4. PdTable' = PdTable /\ \A wide : PdxTable(wide)' = PdxTable(wide)
    BY <2>3, SameTables
  <2> QED
    BY <2>1, <2>4 DEF Call
<1>2. CASE phase = "run" /\ at = "loop" /\ backend' = backend /\ tab' = tab
           /\ \A a \in 0..(REGION - 1) : m'.ram[a] = m.ram[a]
  <2>1. PdTable' = PdTable /\ \A wide : PdxTable(wide)' = PdxTable(wide)
    BY <1>2, SameTables
  <2>2. /\ backend = "pd" => tab = PdTable
        /\ \A b \in Formats : backend = b => tab = PdxTable(b = "pdx16")
    BY <1>2 DEF TableIsRam, Formats
  <2> QED
    BY <1>2, <2>1, <2>2
<1>3. CASE Step /\ KeepsRegion
  <2>1. phase = "run" /\ backend' = backend /\ tab' = tab
    BY <1>3 DEF Step, SwitchTurn, CallTurn, PdTurn, Turn, TailHandler, TailFetch, TailReturn,
                PdxTurn, Return, InLoop, Running, Same
  <2>2. at = "loop"
    BY <2>1 DEF IInv, Control, Predecoding, Formats
  <2> QED
    BY <1>2, <1>3, <2>1, <2>2 DEF KeepsRegion
<1>4. CASE Setup \/ Wild
  BY <1>4 DEF Setup, Wild
<1>5. CASE UNCHANGED vars
  BY <1>2, <1>5 DEF vars
<1> QED
  BY <1>1, <1>3, <1>4, <1>5 DEF Next

\* A table that a predecoding backend made at the start of its call is what RAM
\* holds for as long as the guest does not write into the decoded region.
THEOREM TableFollowsRam == Spec /\ [][KeepsRegion]_vars => []TableIsRam
<1>1. Init => TableIsRam
  BY DEF Init, TableIsRam
<1>2. IInv /\ TableIsRam /\ [Next /\ KeepsRegion]_vars => TableIsRam'
  BY TableStaysRam
<1>3. [Next]_vars /\ [KeepsRegion]_vars => [Next /\ KeepsRegion]_vars
  OBVIOUS
<1> QED
  BY <1>1, <1>2, <1>3, InvHolds, PTL DEF Spec

\* A program that leaves its region alone runs alike under all six backends.
THEOREM RegionKeptRefines ==
  Spec /\ [][KeepsRegion]_vars /\ []SameForms => ImplementsMachine
BY TableFollowsRam, BackendsAreTheMachine, PTL
----------------------------------------------------------------------------
LEMMA UnlistedIsIllegal ==
  ASSUME NEW mm, IsMachine(PastFetch(mm)), Unlisted(Fetch(mm, mm.pc))
  PROVE  Result(mm).fate = "illegal"
<1> DEFINE i == Fetch(mm, mm.pc)
           p == PastFetch(mm)
<1>1. Exec(mm, i) = ppc_illegal(p)
  <2> HIDE DEF i, p
  <2>1. CASE i.op \notin PPC_PRIMARY
    BY <2>1 DEF Exec, p
  <2>2. CASE i.op = 31 /\ Key31(i) \notin PPC_OP31
    BY <2>2, ExecOp31 DEF p
  <2>3. CASE i.op = 31 /\ Key31(i) \in {678, 934} /\ Spr(i) \notin {8, 9}
    <3>1. i.op = 31 /\ (Key31(i) = KeyMfspr \/ Key31(i) = KeyMtspr)
      BY <2>3 DEF KeyMfspr, KeyMtspr
    <3>2. Exec(mm, i) = gen_mspr(p, i, FALSE) \/ Exec(mm, i) = gen_mspr(p, i, TRUE)
      BY <3>1, ExecLiteral, Zenon DEF p
    <3>3. Spr(i) \notin {8, 9}
      BY <2>3
    <3>4. gen_mspr(p, i, FALSE) = ppc_illegal(p) /\ gen_mspr(p, i, TRUE) = ppc_illegal(p)
      BY <3>3, MsprElse, Zenon
    <3> QED
      BY <3>2, <3>4, Zenon
  <2>4. CASE i.op = 19 /\ Key19(i) \notin {16, 528}
    <3>1. Exec(mm, i) = do_op19(p, i)
      BY <2>4, PrimaryIs DEF Exec, PPC_PRIMARY, p
    <3> QED
      BY <2>4, <3>1 DEF do_op19
  <2> QED
    BY <2>1, <2>2, <2>3, <2>4 DEF Unlisted, i
<1>2. Result(mm) = ppc_illegal(p)
  BY <1>1 DEF Result
<1> QED
  BY <1>2 DEF ppc_illegal, Stop, IsMachine

LEMMA UnlistedDies ==
  ASSUME IInv, TableIsRam, SameForms, [Next]_vars, vars' # vars,
         Executing, Unlisted(Fetch(SeenM, SeenM.pc))
  PROVE  phase' = "illegal"
<1>1. IsMachine(PastFetch(SeenM)) /\ phase = "run" /\ at \in {"loop", "handler"}
  BY RunFacts, PastFetchGood, BeforeHandler DEF Executing, SeenM, Before, Good
<1>2. Result(SeenM).fate = "illegal"
  BY <1>1, UnlistedIsIllegal
<1>3. CASE at = "loop"
  <2>1. SeenM = m /\ SeenN = n /\ SeenPhase = "run" /\ n > 0
        /\ (backend \in {"pd"} \cup Formats => m.pc \div 4 \in Entries)
    BY <1>1, <1>3, SeenPlain DEF Executing
  <2>2. SwitchTurn \/ CallTurn \/ PdTurn \/ \E b \in Formats : PdxTurn(b)
    BY <1>1, <1>3, <2>1
       DEF Next, Setup, Start, CallSwitch, CallTail, CallCall, CallPd, CallPdx, Call, Step,
           TailHandler, TailFetch, TailReturn, Return, Wild, Formats
  <2>3. ~Machine!Execute
    BY <1>2 DEF Machine!Execute
  <2>4. SeenPhase' = "illegal"
    BY <1>2, <2>2, <2>3, LoopRefines DEF Machine!Die
  <2> QED
    BY <2>4 DEF SeenPhase
<1>4. CASE at = "handler"
  <2>1. TailHandler
    BY <1>1, <1>4 DEF Next, Setup, Start, CallSwitch, CallTail, CallCall, CallPd, CallPdx, Call,
                      Step, SwitchTurn, CallTurn, PdTurn, PdxTurn, Turn, InLoop, Running,
                      TailFetch, TailReturn, Return, Wild, IInv, Control, Formats
  <2>2. Handler(g_dispatch[insn.op], m, insn).fate = "illegal"
    BY <1>2, <1>4, <2>1, TailRuns DEF TailHandler, SeenM, Before
  <2> QED
    BY <2>1, <2>2 DEF TailHandler, Retire, Die
<1> QED
  BY <1>1, <1>3, <1>4

\* ppc_bench.h:43: under all six backends a word outside the lists of ppc_ops.h
\* ends the process with the diagnostic - under D, E and F as long as the table
\* is what RAM holds, under E and F if the word is no divergent form (opcode 27).
THEOREM UnlistedIsFatal == Spec /\ []TableIsRam /\ []SameForms => OutsideSubsetIsFatal
<1>1. IInv /\ TableIsRam /\ SameForms /\ [Next]_vars =>
        [Executing /\ Unlisted(Fetch(SeenM, SeenM.pc)) => phase' = "illegal"]_vars
  BY UnlistedDies
<1> QED
  BY <1>1, InvHolds, PTL DEF Spec, OutsideSubsetIsFatal
=============================================================================
