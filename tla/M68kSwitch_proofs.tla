-------------------------- MODULE M68kSwitch_proofs --------------------------
(***************************************************************************)
(* Backends B and C are backend A, on every guest that keeps to Tame: the  *)
(* refinement ImplementsSwitch of M68kElide.                               *)
(***************************************************************************)
EXTENDS M68kElide_proofs

\* The switch computes with the same operators.
LEMMA SameWidths ==
  /\ Switch!ByteMod = ByteMod /\ Switch!WordMod = WordMod
  /\ Switch!LongBits = LongBits /\ Switch!LongMod = LongMod
  /\ \A size : Switch!SizeMod(size) = SizeMod(size)
BY DEF Switch!ByteMod, ByteMod, Switch!WordMod, WordMod, Switch!LongBits, LongBits,
       Switch!LongMod, LongMod, Switch!SizeMod, SizeMod

\* Loads, stores and the test for the fast path.
LEMMA SameMemory ==
  /\ \A a : Switch!Masked(a) = Masked(a)
  /\ \A a, size : Switch!Fast(a, size) = Fast(a, size)
  /\ \A r, a, size : Switch!Load(r, a, size) = Load(r, a, size)
  /\ \A r, a, size, v : Switch!Store(r, a, size, v) = Store(r, a, size, v)
  /\ Switch!Address = Address
<1>1. \A a : Switch!Masked(a) = Masked(a)
  BY DEF Switch!Masked, Masked
<1>2. \A a, size : Switch!Fast(a, size) = Fast(a, size)
  BY <1>1 DEF Switch!Fast, Fast
<1>3. \A r, a, size : Switch!Load(r, a, size) = Load(r, a, size)
  BY <1>1, SameWidths DEF Switch!Load, Load
<1>4. \A r, a, size, v : Switch!Store(r, a, size, v) = Store(r, a, size, v)
  BY <1>1, SameWidths DEF Switch!Store, Store
<1>5. Switch!Address = Address
  BY DEF Switch!Address, Address
<1> QED
  BY <1>1, <1>2, <1>3, <1>4, <1>5

LEMMA SameArithmetic ==
  /\ \A a, b : Switch!Add(a, b) = Add(a, b) /\ Switch!Sub(a, b) = Sub(a, b)
  /\ \A v, mod : Switch!SignExtend(v, mod) = SignExtend(v, mod)
  /\ \A old, v, mod : Switch!Merge(old, v, mod) = Merge(old, v, mod)
BY SameWidths DEF Switch!Add, Add, Switch!Sub, Sub, Switch!SignExtend, SignExtend, Switch!Merge, Merge

LEMMA SameLogic ==
  \A a, b : /\ Switch!And(a, b) = And(a, b) /\ Switch!Or(a, b) = Or(a, b)
            /\ Switch!Eor(a, b) = Eor(a, b)
<1>1. \A a : Switch!Ones(a) = Ones(a)
  BY SameWidths DEF Switch!Ones, Ones
<1>2. \A f, T : Switch!SumFunctionOnSet(f, T) = SumFunctionOnSet(f, T)
  BY DEF SumFunctionOnSet, Switch!SumFunctionOnSet, FoldFunctionOnSet,
         Switch!FoldFunctionOnSet, MapThenFoldSet, Switch!MapThenFoldSet
<1>3. \A T : Switch!OfOnes(T) = OfOnes(T)
  BY <1>2, SameWidths DEF Switch!OfOnes, OfOnes
<1> QED
  BY <1>1, <1>3 DEF Switch!And, And, Switch!Or, Or, Switch!Eor, Eor

\* The flag helpers and the conditions.
LEMMA SameFlags ==
  /\ \A r, mod : Switch!cc_nz(r, mod) = cc_nz(r, mod)
  /\ \A r : /\ Switch!cc_nz_l(r) = cc_nz_l(r) /\ Switch!cc_nz_w(r) = cc_nz_w(r)
            /\ Switch!cc_nz_b(r) = cc_nz_b(r)
  /\ \A s, d, r : /\ Switch!cc_add_l(s, d, r) = cc_add_l(s, d, r)
                  /\ Switch!cc_sub_l(s, d, r) = cc_sub_l(s, d, r)
                  /\ Switch!cc_cmp_l(s, d, r) = cc_cmp_l(s, d, r)
  /\ \A r, out : Switch!cc_shift(r, out) = cc_shift(r, out)
  /\ \A f, cond : Switch!m68k_cond(f, cond) = m68k_cond(f, cond)
<1>1. \A r : Switch!Msb(r) = Msb(r)
  BY SameWidths DEF Switch!Msb, Msb
<1>2. \A r, mod : Switch!cc_nz(r, mod) = cc_nz(r, mod)
  BY DEF Switch!cc_nz, cc_nz
<1>3. \A r : /\ Switch!cc_nz_l(r) = cc_nz_l(r) /\ Switch!cc_nz_w(r) = cc_nz_w(r)
             /\ Switch!cc_nz_b(r) = cc_nz_b(r)
  BY <1>2, SameWidths
     DEF Switch!cc_nz_l, cc_nz_l, Switch!cc_nz_w, cc_nz_w, Switch!cc_nz_b, cc_nz_b
<1>4. \A s, d, r : Switch!cc_sub_l(s, d, r) = cc_sub_l(s, d, r)
  BY <1>1 DEF Switch!cc_sub_l, cc_sub_l
<1>5. \A s, d, r : /\ Switch!cc_add_l(s, d, r) = cc_add_l(s, d, r)
                   /\ Switch!cc_cmp_l(s, d, r) = cc_cmp_l(s, d, r)
  BY <1>1, <1>4 DEF Switch!cc_add_l, cc_add_l, Switch!cc_cmp_l, cc_cmp_l
<1>6. \A r, out : Switch!cc_shift(r, out) = cc_shift(r, out)
  BY <1>1 DEF Switch!cc_shift, cc_shift
<1>7. \A f, cond : Switch!m68k_cond(f, cond) = m68k_cond(f, cond)
  BY DEF Switch!m68k_cond, m68k_cond
<1> QED
  BY <1>2, <1>3, <1>4, <1>5, <1>6, <1>7

\* The fields of an opcode.
LEMMA SameFields ==
  \A op : /\ Switch!Line(op) = Line(op) /\ Switch!Dr(op) = Dr(op) /\ Switch!Opmode(op) = Opmode(op)
          /\ Switch!Mode(op) = Mode(op) /\ Switch!Sr(op) = Sr(op) /\ Switch!Size(op) = Size(op)
          /\ Switch!Cond(op) = Cond(op) /\ Switch!Dir(op) = Dir(op)
          /\ Switch!Disp8(op) = Disp8(op) /\ Switch!Quick(op) = Quick(op)
<1>1. \A op, low, width : Switch!Field(op, low, width) = Field(op, low, width)
  BY DEF Switch!Field, Field
<1>2. \A op : /\ Switch!Line(op) = Line(op) /\ Switch!Dr(op) = Dr(op) /\ Switch!Opmode(op) = Opmode(op)
              /\ Switch!Mode(op) = Mode(op) /\ Switch!Sr(op) = Sr(op) /\ Switch!Size(op) = Size(op)
              /\ Switch!Cond(op) = Cond(op) /\ Switch!Dir(op) = Dir(op)
  BY <1>1 DEF Switch!Line, Line, Switch!Dr, Dr, Switch!Opmode, Opmode, Switch!Mode, Mode,
              Switch!Sr, Sr, Switch!Size, Size, Switch!Cond, Cond, Switch!Dir, Dir
<1>3. \A op : Switch!Disp8(op) = Disp8(op)
  BY <1>1, SameArithmetic DEF Switch!Disp8, Disp8
<1>4. \A op : Switch!Quick(op) = Quick(op)
  BY <1>2 DEF Switch!Quick, Quick
<1> QED
  BY <1>2, <1>3, <1>4

LEMMA SameRegisters == \A i : Switch!DReg(i) = DReg(i) /\ Switch!AReg(i) = AReg(i)
BY DEF Switch!DReg, DReg, Switch!AReg, AReg

LEMMA SameImage ==
  /\ Switch!ZeroRegs = ZeroRegs /\ Switch!ZeroFlags = ZeroFlags
  /\ \A k : Switch!Image(k) = Image(k)
<1>1. Switch!ZeroRegs = ZeroRegs /\ Switch!ZeroFlags = ZeroFlags
  BY DEF Switch!ZeroRegs, ZeroRegs, Switch!ZeroFlags, ZeroFlags
<1>2. \A k : Switch!Image(k) = Image(k)
  BY SameWidths, SameMemory DEF Switch!Image, Image
<1> QED
  BY <1>1, <1>2
----------------------------------------------------------------------------
\* The remainder of an even number by an even number.
LEMMA EvenRemainder ==
  ASSUME NEW k \in Nat, NEW h \in Nat \ {0}
  PROVE  (2 * k) % (2 * h) = 2 * (k % h)
<1> DEFINE q == k \div h
           r == k % h
<1>1. q \in Nat /\ r \in 0..(h - 1) /\ k = h * q + r
  OBVIOUS
<1> HIDE DEF q, r
<1>2. 2 * k = (2 * h) * q + 2 * r
  BY <1>1
<1>3. 2 * r \in 0..(2 * h - 1)
  BY <1>1
<1> DEFINE m == 2 * h
           s == 2 * r
<1>4. m \in Nat \ {0} /\ s \in 0..(m - 1) /\ 2 * k = m * q + s
  BY <1>2, <1>3
<1> HIDE DEF m, s
<1>5. (m * q + s) % m = s
  BY <1>1, <1>4
<1> QED
  BY <1>4, <1>5 DEF m, s, r

\* The addresses the switch forms behind entry i are those of the next entries.
LEMMA EntryAddress ==
  ASSUME NEW i \in Entries
  PROVE  /\ i \in Nat /\ (2 * i) % LongMod = 2 * i
         /\ Add(2 * i, 2) = (2 * (i + 1)) % LongMod
         /\ Add(2 * i, 4) = (2 * (i + 2)) % LongMod
         /\ Add(2 * i, 6) = (2 * (i + 3)) % LongMod
         /\ Add(Add(2 * i, 2), 0) = Add(2 * i, 2)
         /\ Add(Add(2 * i, 2), 2) = Add(2 * i, 4)
         /\ Add(Add(2 * i, 2), 4) = Add(2 * i, 6)
         /\ Add(Add(2 * i, 4), 0) = Add(2 * i, 4)
         /\ Add(Add(2 * i, 6), 0) = Add(2 * i, 6)
         /\ Add(2 * i, 2) = 2 * i + 2
         /\ Fast(2 * i, 2) /\ Fast(Add(2 * i, 2), 2)
<1>1. /\ MPD_ENTRIES \in Nat /\ 2 * MPD_ENTRIES + 4 <= RamSize /\ RamSize <= LongMod
      /\ RamSize \in Nat \ {0} /\ LongMod \in Nat \ {0} /\ i \in Nat /\ i < MPD_ENTRIES
  BY RegionAssumption, MemoryAssumption, WidthAssumption DEF Entries
<1>2. PICK l \in Nat \ {0} : l = LongMod
  BY <1>1
<1>3. 2 * i + 4 < l /\ 2 * i + 6 <= l
  BY <1>1, <1>2
<1>4. \A a, b : Add(a, b) = (a + b) % l
  BY <1>2 DEF Add
<1>5. \A a \in Nat : a < l => a % l = a
  BY <1>2
<1>6. PICK q \in Nat : q = (2 * i + 6) % l /\ q < l
  BY <1>1, <1>2
<1>7. /\ (2 * i) % l = 2 * i /\ (2 * i + 2) % l = 2 * i + 2 /\ (2 * i + 4) % l = 2 * i + 4
      /\ q % l = q
  <2>1. 2 * i \in Nat /\ 2 * i + 2 \in Nat /\ 2 * i + 4 \in Nat
    BY <1>1
  <2>2. 2 * i < l /\ 2 * i + 2 < l /\ 2 * i + 4 < l
    BY <1>1, <1>3
  <2> QED
    BY <2>1, <2>2, <1>5, <1>6
<1>8. /\ 2 * (i + 1) = 2 * i + 2 /\ 2 * (i + 2) = 2 * i + 4 /\ 2 * (i + 3) = 2 * i + 6
      /\ 2 * i + 2 + 0 = 2 * i + 2 /\ 2 * i + 4 + 0 = 2 * i + 4 /\ q + 0 = q
      /\ 2 * i + 2 + 2 = 2 * i + 4 /\ 2 * i + 2 + 4 = 2 * i + 6
  BY <1>1, <1>6
<1>9. /\ Add(2 * i, 2) = 2 * i + 2 /\ Add(2 * i, 4) = 2 * i + 4 /\ Add(2 * i, 6) = q
  BY <1>4, <1>6, <1>7
<1>10. /\ Add(2 * i + 2, 0) = 2 * i + 2 /\ Add(2 * i + 4, 0) = 2 * i + 4 /\ Add(q, 0) = q
       /\ Add(2 * i + 2, 2) = 2 * i + 4 /\ Add(2 * i + 2, 4) = q
  BY <1>4, <1>6, <1>7, <1>8
<1>11. Fast(2 * i, 2) /\ Fast(2 * i + 2, 2)
  <2>1. /\ PageSize \in Nat \ {0} /\ PageSize % 4 = 0 /\ 2 * i + 2 < RamSize
    BY <1>1, MemoryAssumption
  <2>2. Masked(2 * i) = 2 * i /\ Masked(2 * i + 2) = 2 * i + 2
    BY <1>1, <2>1 DEF Masked
  <2>3. PICK h \in Nat \ {0} : PageSize = 2 * h
    <3>1. PageSize = 4 * (PageSize \div 4) /\ PageSize \div 4 \in Nat
      BY <2>1
    <3>2. PICK u \in Nat : PageSize = 4 * u
      BY <3>1
    <3>3. PageSize = 2 * (2 * u) /\ 2 * u \in Nat \ {0}
      BY <2>1, <3>2
    <3> QED
      BY <3>3
  <2>4. ASSUME NEW k \in Nat PROVE (2 * k) % PageSize <= PageSize - 2
    <3>1. (2 * k) % (2 * h) = 2 * (k % h)
      BY <2>3, EvenRemainder
    <3>2. k % h \in 0..(h - 1)
      BY <2>3
    <3> QED
      BY <2>3, <3>1, <3>2
  <2>5. (2 * i) % PageSize <= PageSize - 2 /\ (2 * (i + 1)) % PageSize <= PageSize - 2
    <3>1. i \in Nat /\ i + 1 \in Nat
      BY <1>1
    <3>2. (2 * i) % PageSize <= PageSize - 2
      BY <3>1, <2>4
    <3>3. (2 * (i + 1)) % PageSize <= PageSize - 2
      <4> DEFINE j == i + 1
      <4>1. j \in Nat
        BY <3>1
      <4> HIDE DEF j
      <4>2. (2 * j) % PageSize <= PageSize - 2
        BY <4>1, <2>4
      <4> QED
        BY <4>2 DEF j
    <3> QED
      BY <3>2, <3>3
  <2> QED
    BY <1>8, <2>2, <2>5 DEF Fast
<1> QED
  BY <1>1, <1>2, <1>6, <1>7, <1>8, <1>9, <1>10, <1>11
----------------------------------------------------------------------------
\* The first word of an instruction that the sweep decoded in the present code.
HeadAt(i) ==
    otab[i].id # "FILLER" =>
        /\ otab[i] = DecodeAt(i).ent
        /\ DecodeAt(i).len = 3 => Fast(Add(2 * i, 2), 4)

\* An instruction is about to run, at a head of the table.
Ready ==
    /\ phase = "run" /\ n \in Nat /\ n > 0 /\ cur \in Entries /\ entry = mpc
    /\ otab[cur].id # "FILLER" /\ HeadAt(cur)

\* What the decoder and the switch see there.
Opc == OpAt(cur)
W16 == Load(ram, Add(2 * cur, 2), 2)
W32 == Load(ram, Add(2 * cur, 2), 4)
Ent == otab[cur]

\* The switch fetches the words that the sweep decoded.
LEMMA Fetches ==
  ASSUME Ready
  PROVE  /\ SeenPc = 2 * cur /\ SeenPhase = "run" /\ SeenMpc = mpc
         /\ Switch!Running /\ Switch!Fast(SeenPc, 2)
         /\ Switch!Op = Opc /\ Switch!pc2 = Add(2 * cur, 2)
         /\ Switch!Ext16 = W16 /\ Switch!Ext32 = W32 /\ Switch!D16 = D16Of(W16)
         /\ Ent = Decode(Opc, W16, W32, 2 * cur).ent
         /\ Decode(Opc, W16, W32, 2 * cur).len = 3 => Fast(Add(2 * cur, 2), 4)
<1>1. SeenPc = 2 * cur /\ SeenPhase = "run" /\ SeenMpc = mpc
  BY EntryAddress DEF Ready, SeenPc, SeenPhase, SeenMpc
<1>2. Switch!Running /\ Switch!Fast(SeenPc, 2)
  BY <1>1, EntryAddress, SameMemory DEF Ready, Switch!Running
<1>3. Switch!Op = Opc /\ Switch!pc2 = Add(2 * cur, 2)
  BY <1>1, SameMemory, SameArithmetic DEF Switch!Op, Switch!pc2, Opc, OpAt
<1>4. Switch!Ext16 = W16 /\ Switch!Ext32 = W32 /\ Switch!D16 = D16Of(W16)
  BY <1>3, SameMemory, SameArithmetic, SameWidths
     DEF Switch!Ext16, Switch!Ext32, Switch!D16, W16, W32, D16Of
<1>5. /\ Ent = Decode(Opc, W16, W32, 2 * cur).ent
      /\ Decode(Opc, W16, W32, 2 * cur).len = 3 => Fast(Add(2 * cur, 2), 4)
  BY DEF Ready, HeadAt, Ent, DecodeAt, Opc, OpAt, W16, W32
<1> QED
  BY <1>1, <1>2, <1>3, <1>4, <1>5

\* An executed instruction retires in the switch.
LEMMA Retires ==
  ASSUME Inv, Ready, ExecuteH, NEW r, NEW f, NEW x1, NEW m, NEW next,
         regs' = r, shadow' = f, x' = x1, ram' = m, (2 * cur') % LongMod = next
  PROVE  Switch!Retire(r, f, x1, m, next)
<1>1. /\ phase' = "run" /\ n' = n - 1 /\ UNCHANGED <<kernel, mpc, sprints, entry>>
  BY ExecuteEffect DEF ExecuteH, HandlerEffect
<1>2. SeenPc' = next /\ SeenPhase' = "run" /\ SeenMpc' = mpc
  BY <1>1 DEF SeenPc, SeenPhase, SeenMpc
<1> QED
  BY <1>1, <1>2, Fetches DEF Switch!Retire

\* The entry that runs has the operands of the one the sweep decoded, and its id
\* but for a compare or a test whose flags are dead.
LEMMA TwinOperands ==
  ASSUME Inv, Ready
  PROVE  /\ IsEntry(Ent) /\ E.a = Ent.a /\ E.b = Ent.b /\ E.c = Ent.c
         /\ E.id = Ent.id \/ (Ent.id \in PureFlag /\ E.id = IF Ent.id = "CMPI_L_DN" THEN "NOP3" ELSE "NOP1")
<1>1. IsEntry(Ent) /\ (E = Ent \/ E = Retarget(Ent)) /\ Ent.nf = FALSE
  BY DEF Inv, TypeOK, TableInv, Ready, E, Ent
<1>2. /\ Retarget(Ent).id = Ent.id
         \/ (Ent.id \in PureFlag /\ Retarget(Ent).id = IF Ent.id = "CMPI_L_DN" THEN "NOP3" ELSE "NOP1")
  BY <1>1 DEF Retarget, IsEntry, IsElidable, PureFlag, Elidable
<1> QED
  BY <1>1, <1>2, RetargetKeeps
----------------------------------------------------------------------------
\* Which ids each line of the opcode map decodes to.
MoveIds ==
    {"MOVEA_L_IMM", "MV_L_IMM_DN", "MV_W_IMM_DN", "MV_L_DD", "MV_L_ANP_DN", "MV_L_DN_ANP",
     "MV_L_D16_DN", "MV_W_D16_DN", "MV_B_D16_DN", "MV_L_DN_D16", "MV_W_DN_D16", "MV_B_DN_D16"}
MiscIds   == {"TST_L_DN", "TST_W_DN", "TST_B_DN", "LEA_D16", "NOP"}
QuickIds  == {"DBRA", "SUBQ_L_DN", "ADDQ_L_DN", "ADDQ_L_AN"}
BranchIds == {"BRA", "BCC", "BCS", "BNE", "BEQ", "BPL", "BMI", "BGE", "BLT", "BGT", "BLE"}

\* Each part of the decoder picks ids of its own, or refuses.
LEMMA IdsOfParts ==
  /\ \A o, w1, w2 : DecodeMove(o, w1, w2).ent.id \in MoveIds \cup {"ILLEGAL"}
  /\ \A o, w1 : DecodeMisc(o, w1).ent.id \in MiscIds \cup {"ILLEGAL"}
  /\ \A o, w1, addr : DecodeQuick(o, w1, addr).ent.id \in QuickIds \cup {"ILLEGAL"}
  /\ \A o, w1, addr : DecodeBranch(o, w1, addr).ent.id \in BranchIds \cup {"ILLEGAL"}
  /\ \A id, o : DecodeAlu(id, o).ent.id \in {id, "ILLEGAL"}
<1>1. ASSUME NEW o, NEW w1, NEW w2 PROVE DecodeMove(o, w1, w2).ent.id \in MoveIds \cup {"ILLEGAL"}
  BY DEF DecodeMove, SizedId, Is, Undecoded, Entry, MoveIds
<1>2. ASSUME NEW o, NEW w1 PROVE DecodeMisc(o, w1).ent.id \in MiscIds \cup {"ILLEGAL"}
  BY DEF DecodeMisc, Is, Undecoded, Entry, MiscIds
<1>3. ASSUME NEW o, NEW w1, NEW addr PROVE DecodeQuick(o, w1, addr).ent.id \in QuickIds \cup {"ILLEGAL"}
  BY DEF DecodeQuick, Is, Undecoded, Entry, QuickIds
<1>4. ASSUME NEW o, NEW w1, NEW addr PROVE DecodeBranch(o, w1, addr).ent.id \in BranchIds \cup {"ILLEGAL"}
  <2>1. BccId(Cond(o)) \in BranchIds \cup {"ILLEGAL"}
    BY DEF BccId, BranchIds
  <2> QED
    BY <2>1 DEF DecodeBranch, Is, Undecoded, Entry
<1>5. ASSUME NEW id, NEW o PROVE DecodeAlu(id, o).ent.id \in {id, "ILLEGAL"}
  BY DEF DecodeAlu, Is, Undecoded, Entry
<1> QED
  BY <1>1, <1>2, <1>3, <1>4, <1>5

\* The line of the opcode an id was decoded from, and what decoded it.
LEMMA LineOfId ==
  ASSUME NEW o, NEW w1, NEW w2, NEW addr, NEW e, e = Decode(o, w1, w2, addr).ent
  PROVE  /\ e.id \notin {"NOP1", "NOP2", "NOP3"}
         /\ e.id \in MoveIds => Line(o) \in {1, 2, 3} /\ e = DecodeMove(o, w1, w2).ent
         /\ e.id \in MiscIds => Line(o) = 4 /\ e = DecodeMisc(o, w1).ent
         /\ e.id \in QuickIds => Line(o) = 5 /\ e = DecodeQuick(o, w1, addr).ent
         /\ e.id \in BranchIds => Line(o) = 6 /\ e = DecodeBranch(o, w1, addr).ent
         /\ e.id = "MOVEQ" => Line(o) = 7 /\ e = Entry("MOVEQ", DReg(Dr(o)), 0, Disp8(o))
         /\ e.id = "CMPI_L_DN" =>
              Line(o) = 0 /\ Dr(o) = 6 /\ IsDD(o) /\ e = Entry("CMPI_L_DN", DReg(Sr(o)), 0, w2)
         /\ e.id \in {"OR_L_DD", "SUB_L_DD", "CMP_L_DD", "AND_L_DD", "ADD_L_DD"} =>
              /\ IsDD(o) /\ e = Entry(e.id, DReg(Dr(o)), DReg(Sr(o)), o)
              /\ Line(o) = CASE e.id = "OR_L_DD" -> 8 [] e.id = "SUB_L_DD" -> 9
                             [] e.id = "CMP_L_DD" -> 11 [] e.id = "AND_L_DD" -> 12
                             [] OTHER -> 13
         /\ e.id = "EOR_L_DD" =>
              /\ Line(o) = 11 /\ Mode(o) = 0 /\ Opmode(o) = 6
              /\ e = Entry("EOR_L_DD", DReg(Sr(o)), DReg(Dr(o)), o)
         /\ e.id \in {"LSL_L_IMM", "LSR_L_IMM"} =>
              /\ Line(o) = 14 /\ Size(o) = 2 /\ Mode(o) = 1
              /\ e = Entry(IF Dir(o) = 1 THEN "LSL_L_IMM" ELSE "LSR_L_IMM", DReg(Sr(o)), Quick(o), o)
<1> DEFINE ln == Line(o)
           plain == {"MOVEQ", "CMPI_L_DN", "OR_L_DD", "SUB_L_DD", "CMP_L_DD", "AND_L_DD",
                     "ADD_L_DD", "EOR_L_DD", "LSL_L_IMM", "LSR_L_IMM"}
<1>1. CASE ln \in {1, 2, 3}
  <2>1. e = DecodeMove(o, w1, w2).ent
    BY <1>1 DEF Decode
  <2>2. e.id \in MoveIds \cup {"ILLEGAL"}
    BY <2>1, IdsOfParts
  <2> QED
    BY <1>1, <2>1, <2>2 DEF MoveIds, MiscIds, QuickIds, BranchIds
<1>2. CASE ln = 4
  <2>1. e = DecodeMisc(o, w1).ent
    BY <1>2 DEF Decode
  <2>2. e.id \in MiscIds \cup {"ILLEGAL"}
    BY <2>1, IdsOfParts
  <2> QED
    BY <1>2, <2>1, <2>2 DEF MoveIds, MiscIds, QuickIds, BranchIds
<1>3. CASE ln = 5
  <2>1. e = DecodeQuick(o, w1, addr).ent
    BY <1>3 DEF Decode
  <2>2. e.id \in QuickIds \cup {"ILLEGAL"}
    BY <2>1, IdsOfParts
  <2> QED
    BY <1>3, <2>1, <2>2 DEF MoveIds, MiscIds, QuickIds, BranchIds
<1>4. CASE ln = 6
  <2>1. e = DecodeBranch(o, w1, addr).ent
    BY <1>4 DEF Decode
  <2>2. e.id \in BranchIds \cup {"ILLEGAL"}
    BY <2>1, IdsOfParts
  <2> QED
    BY <1>4, <2>1, <2>2 DEF MoveIds, MiscIds, QuickIds, BranchIds
<1>5. CASE ln \notin {1, 2, 3, 4, 5, 6}
  <2>1. e.id \notin MoveIds \cup MiscIds \cup QuickIds \cup BranchIds \cup {"NOP1", "NOP2", "NOP3"}
    <3>1. e.id \in plain \cup {"ILLEGAL"}
      BY <1>5 DEF Decode, DecodeAlu, Is, Undecoded, Entry
    <3> QED
      BY <3>1 DEF MoveIds, MiscIds, QuickIds, BranchIds
  <2>2. e.id = "MOVEQ" => ln = 7 /\ e = Entry("MOVEQ", DReg(Dr(o)), 0, Disp8(o))
    BY <1>5 DEF Decode, DecodeAlu, Is, Undecoded, Entry
  <2>3. e.id = "CMPI_L_DN" =>
           ln = 0 /\ Dr(o) = 6 /\ IsDD(o) /\ e = Entry("CMPI_L_DN", DReg(Sr(o)), 0, w2)
    BY <1>5 DEF Decode, DecodeAlu, Is, Undecoded, Entry
  <2>4. e.id \in {"OR_L_DD", "SUB_L_DD", "CMP_L_DD", "AND_L_DD", "ADD_L_DD"} =>
           /\ IsDD(o) /\ e = Entry(e.id, DReg(Dr(o)), DReg(Sr(o)), o)
           /\ ln = CASE e.id = "OR_L_DD" -> 8 [] e.id = "SUB_L_DD" -> 9
                     [] e.id = "CMP_L_DD" -> 11 [] e.id = "AND_L_DD" -> 12 [] OTHER -> 13
    <3>1. e.id = "OR_L_DD" =>
            ln = 8 /\ IsDD(o) /\ e = Entry("OR_L_DD", DReg(Dr(o)), DReg(Sr(o)), o)
      BY <1>5 DEF Decode, DecodeAlu, Is, Undecoded, Entry
    <3>2. e.id = "SUB_L_DD" =>
            ln = 9 /\ IsDD(o) /\ e = Entry("SUB_L_DD", DReg(Dr(o)), DReg(Sr(o)), o)
      BY <1>5 DEF Decode, DecodeAlu, Is, Undecoded, Entry
    <3>3. e.id = "CMP_L_DD" =>
            ln = 11 /\ IsDD(o) /\ e = Entry("CMP_L_DD", DReg(Dr(o)), DReg(Sr(o)), o)
      BY <1>5 DEF Decode, DecodeAlu, Is, Undecoded, Entry
    <3>4. e.id = "AND_L_DD" =>
            ln = 12 /\ IsDD(o) /\ e = Entry("AND_L_DD", DReg(Dr(o)), DReg(Sr(o)), o)
      BY <1>5 DEF Decode, DecodeAlu, Is, Undecoded, Entry
    <3>5. e.id = "ADD_L_DD" =>
            ln = 13 /\ IsDD(o) /\ e = Entry("ADD_L_DD", DReg(Dr(o)), DReg(Sr(o)), o)
      BY <1>5 DEF Decode, DecodeAlu, Is, Undecoded, Entry
    <3> QED
      BY <3>1, <3>2, <3>3, <3>4, <3>5
  <2>5. e.id = "EOR_L_DD" =>
           /\ ln = 11 /\ Mode(o) = 0 /\ Opmode(o) = 6
           /\ e = Entry("EOR_L_DD", DReg(Sr(o)), DReg(Dr(o)), o)
    BY <1>5 DEF Decode, DecodeAlu, Is, Undecoded, Entry
  <2>6. e.id \in {"LSL_L_IMM", "LSR_L_IMM"} =>
           /\ ln = 14 /\ Size(o) = 2 /\ Mode(o) = 1
           /\ e = Entry(IF Dir(o) = 1 THEN "LSL_L_IMM" ELSE "LSR_L_IMM", DReg(Sr(o)), Quick(o), o)
    BY <1>5 DEF Decode, DecodeAlu, Is, Undecoded, Entry
  <2> QED
    BY <2>1, <2>2, <2>3, <2>4, <2>5, <2>6
<1> QED
  BY <1>1, <1>2, <1>3, <1>4, <1>5

\* The operands of a decoded MOVE or MOVEA, by its modes and its size.
LEMMA MoveForms ==
  ASSUME NEW o, NEW w1, NEW w2, NEW e, Line(o) \in {1, 2, 3}, e = DecodeMove(o, w1, w2).ent
  PROVE  /\ e.id = "MOVEA_L_IMM" =>
              /\ Line(o) = 2 /\ Opmode(o) = 1 /\ IsImm(o) /\ e.a = AReg(Dr(o)) /\ e.c = w2
              /\ DecodeMove(o, w1, w2).len = 3
         /\ e.id = "MV_L_IMM_DN" =>
              /\ Line(o) = 2 /\ Opmode(o) = 0 /\ IsImm(o) /\ e.a = DReg(Dr(o)) /\ e.c = w2
              /\ DecodeMove(o, w1, w2).len = 3
         /\ e.id = "MV_W_IMM_DN" =>
              Line(o) = 3 /\ Opmode(o) = 0 /\ IsImm(o) /\ e.a = DReg(Dr(o)) /\ e.c = w1
         /\ e.id = "MV_L_DD" =>
              Line(o) = 2 /\ Opmode(o) = 0 /\ Mode(o) = 0 /\ e.a = DReg(Dr(o)) /\ e.b = DReg(Sr(o))
         /\ e.id = "MV_L_ANP_DN" =>
              Line(o) = 2 /\ Opmode(o) = 0 /\ Mode(o) = 3 /\ e.a = DReg(Dr(o)) /\ e.b = AReg(Sr(o))
         /\ e.id = "MV_L_DN_ANP" =>
              Line(o) = 2 /\ Opmode(o) = 3 /\ Mode(o) = 0 /\ e.a = DReg(Sr(o)) /\ e.b = AReg(Dr(o))
         /\ e.id \in {"MV_L_D16_DN", "MV_W_D16_DN", "MV_B_D16_DN"} =>
              /\ e.id = SizedId(o, "MV_L_D16_DN", "MV_W_D16_DN", "MV_B_D16_DN")
              /\ Opmode(o) = 0 /\ Mode(o) = 5
              /\ e.a = DReg(Dr(o)) /\ e.b = AReg(Sr(o)) /\ e.c = D16Of(w1)
         /\ e.id \in {"MV_L_DN_D16", "MV_W_DN_D16", "MV_B_DN_D16"} =>
              /\ e.id = SizedId(o, "MV_L_DN_D16", "MV_W_DN_D16", "MV_B_DN_D16")
              /\ Opmode(o) = 5 /\ Mode(o) = 0
              /\ e.a = DReg(Sr(o)) /\ e.b = AReg(Dr(o)) /\ e.c = D16Of(w1)
BY DEF DecodeMove, SizedId, Is, Undecoded, Entry

\* The operands of TST, LEA and NOP.
LEMMA MiscForms ==
  ASSUME NEW o, NEW w1, NEW e, e = DecodeMisc(o, w1).ent
  PROVE  /\ e.id \in {"TST_L_DN", "TST_W_DN", "TST_B_DN"} =>
              /\ Dr(o) = 5 /\ Dir(o) = 0 /\ Mode(o) = 0 /\ e.a = DReg(Sr(o))
              /\ Size(o) = CASE e.id = "TST_L_DN" -> 2 [] e.id = "TST_W_DN" -> 1 [] OTHER -> 0
         /\ e.id = "LEA_D16" =>
              /\ Opmode(o) = 7 /\ Mode(o) = 5
              /\ e.a = AReg(Dr(o)) /\ e.b = AReg(Sr(o)) /\ e.c = D16Of(w1)
         /\ e.id = "NOP" => o = 20081
BY DEF DecodeMisc, Is, Undecoded, Entry

\* The operands of ADDQ, SUBQ and DBRA.
LEMMA QuickForms ==
  ASSUME NEW o, NEW w1, NEW addr, NEW e, e = DecodeQuick(o, w1, addr).ent
  PROVE  /\ e.id = "DBRA" =>
              /\ Size(o) = 3 /\ Mode(o) = 1 /\ Cond(o) = 1
              /\ e.b = DReg(Sr(o)) /\ e.c = Add(Add(addr, 2), D16Of(w1)) \div 2
         /\ e.id \in {"ADDQ_L_DN", "SUBQ_L_DN"} =>
              /\ Size(o) = 2 /\ Mode(o) = 0 /\ (e.id = "SUBQ_L_DN" <=> Dir(o) = 1)
              /\ e.a = DReg(Sr(o)) /\ e.b = Quick(o)
         /\ e.id = "ADDQ_L_AN" =>
              Size(o) = 2 /\ Mode(o) = 1 /\ Dir(o) = 0 /\ e.a = AReg(Sr(o)) /\ e.b = Quick(o)
BY DEF DecodeQuick, Is, Undecoded, Entry

\* The condition, the length and the target of BRA and Bcc.
LEMMA BranchForms ==
  ASSUME NEW o, NEW w1, NEW addr, NEW e, e = DecodeBranch(o, w1, addr).ent, e.id \in BranchIds
  PROVE  /\ e.id = BccId(Cond(o))
         /\ e.a = IF Disp8(o) = 0 THEN 2 ELSE 1
         /\ e.c = Add(Add(addr, 2), IF Disp8(o) = 0 THEN D16Of(w1) ELSE Disp8(o)) \div 2
BY DEF DecodeBranch, Is, Undecoded, Entry, BranchIds

\* The condition a branch tests is the one its id names.
LEMMA ConditionOfId ==
  ASSUME NEW k PROVE /\ BccId(k) = "BRA" => k = 0
                     /\ \A c \in Conds : BccId(k) = BccId(c) => k = c
<1>1. BccId(k) = "BRA" => k = 0
  BY DEF BccId
<1>2. ASSUME NEW c \in Conds, BccId(k) = BccId(c) PROVE k = c
  <2>1. /\ BccId(4) = "BCC" /\ BccId(5) = "BCS" /\ BccId(6) = "BNE" /\ BccId(7) = "BEQ"
        /\ BccId(10) = "BPL" /\ BccId(11) = "BMI" /\ BccId(12) = "BGE" /\ BccId(13) = "BLT"
        /\ BccId(14) = "BGT" /\ BccId(15) = "BLE"
    BY DEF BccId
  <2>2. /\ BccId(k) = "BCC" => k = 4 
        /\ BccId(k) = "BCS" => k = 5
        /\ BccId(k) = "BNE" => k = 6
        /\ BccId(k) = "BEQ" => k = 7
        /\ BccId(k) = "BPL" => k = 10
        /\ BccId(k) = "BMI" => k = 11
        /\ BccId(k) = "BGE" => k = 12
        /\ BccId(k) = "BLT" => k = 13
        /\ BccId(k) = "BGT" => k = 14
        /\ BccId(k) = "BLE" => k = 15
    BY DEF BccId
  <2> QED
    BY <1>2, <2>1, <2>2 DEF Conds
<1> QED
  BY <1>1, <1>2
----------------------------------------------------------------------------
\* The eager flags after an instruction are those of the decoded entry.
LEMMA Shadows ==
  ASSUME Inv, Ready, ExecuteH
  PROVE  shadow' = IF Ent.id \in Elidable \cup PureFlag THEN FlagsOf(Ent) ELSE shadow
BY DEF ExecuteH, Inv, TypeOK, Ready, Ent, WritesAll

\* What the MOVE case of the switch computes for an opcode it is given.
LEMMA MoveParts ==
  ASSUME Ready, NEW o
  PROVE  /\ Switch!MoveSize(o) = IF Line(o) = 2 THEN 4 ELSE IF Line(o) = 3 THEN 2 ELSE 1
         /\ Mode(o) = 0 => /\ Switch!SrcExt(o) = 0 /\ Switch!SrcValue(o) = regs[DReg(Sr(o))]
         /\ Mode(o) = 3 => /\ Switch!SrcExt(o) = 0 /\ Switch!SrcAddr(o) = regs[AReg(Sr(o))]
         /\ Mode(o) = 5 => /\ Switch!SrcExt(o) = 2
                           /\ Switch!SrcAddr(o) = Add(regs[AReg(Sr(o))], D16Of(W16))
         /\ Mode(o) = 7 => /\ Switch!SrcExt(o) = IF Line(o) = 2 THEN 4 ELSE 2
                           /\ Switch!SrcAddr(o) = Add(2 * cur, 2)
         /\ Mode(o) # 7 => Switch!SrcSize(o) = Switch!MoveSize(o)
         /\ Mode(o) = 7 => Switch!SrcSize(o) = IF Line(o) = 2 THEN 4 ELSE 2
         /\ Mode(o) # 0 =>
              Switch!SrcValue(o) = Load(ram, Switch!SrcAddr(o), Switch!SrcSize(o))
         /\ Switch!DstExt(o) = Add(Add(2 * cur, 2), Switch!SrcExt(o))
         /\ \A r, mode, i, size : Switch!PostInc(r, mode, i, size) =
              IF mode = 3 THEN [r EXCEPT ![AReg(i)] = Add(@, size)] ELSE r
         /\ \A old, val : /\ Switch!PutReg(old, val, 4) = val
                          /\ Switch!PutReg(old, val, 2) = Merge(old, val, WordMod)
                          /\ Switch!PutReg(old, val, 1) = Merge(old, val, SizeMod(1))
<1>1. Switch!MoveSize(o) = IF Line(o) = 2 THEN 4 ELSE IF Line(o) = 3 THEN 2 ELSE 1
  BY SameFields DEF Switch!MoveSize
<1>2. /\ Mode(o) \in {0, 3} => Switch!SrcExt(o) = 0
      /\ Mode(o) = 5 => Switch!SrcExt(o) = 2
      /\ Mode(o) = 7 => Switch!SrcExt(o) = IF Line(o) = 2 THEN 4 ELSE 2
  BY <1>1, SameFields DEF Switch!SrcExt
<1>3. /\ Mode(o) = 3 => Switch!SrcAddr(o) = regs[AReg(Sr(o))]
      /\ Mode(o) = 5 => Switch!SrcAddr(o) = Add(regs[AReg(Sr(o))], D16Of(W16))
      /\ Mode(o) = 7 => Switch!SrcAddr(o) = Add(2 * cur, 2)
  BY Fetches, SameFields, SameRegisters, SameArithmetic DEF Switch!SrcAddr
<1>4. /\ Mode(o) # 7 => Switch!SrcSize(o) = Switch!MoveSize(o)
      /\ Mode(o) = 7 => Switch!SrcSize(o) = IF Line(o) = 2 THEN 4 ELSE 2
  BY <1>1, SameFields DEF Switch!SrcSize
<1>5. /\ Mode(o) = 0 => Switch!SrcValue(o) = regs[DReg(Sr(o))]
      /\ Mode(o) # 0 => Switch!SrcValue(o) = Load(ram, Switch!SrcAddr(o), Switch!SrcSize(o))
  BY SameFields, SameMemory DEF Switch!SrcValue, DReg
<1>6. Switch!DstExt(o) = Add(Add(2 * cur, 2), Switch!SrcExt(o))
  BY Fetches, SameArithmetic DEF Switch!DstExt
<1>7. \A r, mode, i, size : Switch!PostInc(r, mode, i, size) =
         IF mode = 3 THEN [r EXCEPT ![AReg(i)] = Add(@, size)] ELSE r
  BY SameRegisters, SameArithmetic DEF Switch!PostInc
<1>8. SizeMod(2) = WordMod
  BY DEF SizeMod, WordMod
<1>9. \A old, val : /\ Switch!PutReg(old, val, 4) = val
                    /\ Switch!PutReg(old, val, 2) = Merge(old, val, WordMod)
                    /\ Switch!PutReg(old, val, 1) = Merge(old, val, SizeMod(1))
  <2>1. Switch!SizeMod(2) = WordMod /\ Switch!SizeMod(1) = SizeMod(1)
    BY <1>8, SameWidths
  <2>2. ASSUME NEW old, NEW val
        PROVE  /\ Switch!PutReg(old, val, 4) = val
               /\ Switch!PutReg(old, val, 2) = Switch!Merge(old, val, Switch!SizeMod(2))
               /\ Switch!PutReg(old, val, 1) = Switch!Merge(old, val, Switch!SizeMod(1))
    BY DEF Switch!PutReg
  <2>3. \A old, v, mod : Switch!Merge(old, v, mod) = Merge(old, v, mod)
    BY SameArithmetic
  <2> QED
    BY <2>1, <2>2, <2>3
<1> QED
  BY <1>1, <1>2, <1>3, <1>4, <1>5, <1>6, <1>7, <1>9

\* N and Z by the size of the operand.
LEMMA NZBySize ==
  ASSUME NEW val
  PROVE  /\ Switch!cc_nz(val, Switch!SizeMod(4)) = cc_nz_l(val)
         /\ Switch!cc_nz(val, Switch!SizeMod(2)) = cc_nz_w(val)
         /\ Switch!cc_nz(val, Switch!SizeMod(1)) = cc_nz_b(val)
<1>1. SizeMod(4) = LongMod /\ SizeMod(2) = WordMod
  BY DEF SizeMod, LongMod, LongBits, WordMod
<1>2. SizeMod(1) = ByteMod
  <2>1. 1 * ByteBits = ByteBits
    BY MemoryAssumption
  <2> QED
    BY <2>1 DEF SizeMod, ByteMod
<1> QED
  BY <1>1, <1>2, SameWidths, SameFlags DEF cc_nz_l, cc_nz_w, cc_nz_b
----------------------------------------------------------------------------
\* A decoded MOVE is one the switch executes.
LEMMA MovesAccepted ==
  ASSUME Line(Opc) \in {1, 2, 3}, Mode(Opc) \in {0, 3, 5} \/ IsImm(Opc), Opmode(Opc) \in {0, 1, 3, 5}
  PROVE  Switch!IsMove(Opc)
BY SameFields DEF Switch!IsMove, IsImm

\* A MOVE to Dn or An: the sources differ, the destination is written last.
LEMMA MoveToRegister ==
  ASSUME Ready, Switch!IsMove(Opc), Switch!Mode(Opc) = 5 => Switch!Fast(Switch!pc2, 2),
         Switch!Mode(Opc) = 0 \/ Switch!Fast(Switch!SrcAddr(Opc), Switch!SrcSize(Opc)),
         NEW size, NEW val, NEW r1, NEW r, NEW f, NEW next,
         size = Switch!MoveSize(Opc), val = Switch!SrcValue(Opc),
         r1 = Switch!PostInc(regs, Mode(Opc), Sr(Opc), size),
         \/ /\ Opmode(Opc) = 0 /\ r = [r1 EXCEPT ![DReg(Dr(Opc))] = Switch!PutReg(@, val, size)]
            /\ f = Switch!cc_nz(val, Switch!SizeMod(size))
         \/ /\ Opmode(Opc) = 1 /\ r = [r1 EXCEPT ![AReg(Dr(Opc))] = val] /\ f = shadow,
         next = Add(Switch!DstExt(Opc), 0), Switch!Retire(r, f, x, ram, next)
  PROVE  Switch!Move
<1>1. Switch!Op = Opc
  BY Fetches
<1>2. /\ Switch!Mode(Opc) = Mode(Opc) /\ Switch!Sr(Opc) = Sr(Opc) /\ Switch!Dr(Opc) = Dr(Opc)
      /\ Switch!Opmode(Opc) = Opmode(Opc)
      /\ \A i : Switch!DReg(i) = DReg(i) /\ Switch!AReg(i) = AReg(i)
      /\ \A a, b : Switch!Add(a, b) = Add(a, b)
  BY SameFields, SameRegisters, SameArithmetic
<1>3. Switch!MoveIsFast(Opc)
  BY <1>2 DEF Switch!MoveIsFast
<1>4. CASE Opmode(Opc) = 0
  BY <1>1, <1>2, <1>3, <1>4 DEF Switch!Move, Switch!Retire
<1>5. CASE Opmode(Opc) = 1
  BY <1>1, <1>2, <1>3, <1>5 DEF Switch!Move, Switch!Retire
<1> QED
  BY <1>4, <1>5

\* A MOVE from Dn to memory.
LEMMA MoveToMemory ==
  ASSUME Ready, Switch!IsMove(Opc), Mode(Opc) = 0, Opmode(Opc) \in {3, 5},
         Switch!Fast(Switch!DstExt(Opc), 2),
         NEW size, NEW val, NEW addr, NEW r, NEW next,
         size = Switch!MoveSize(Opc), val = regs[DReg(Sr(Opc))],
         addr = Switch!DstAddr(Opc), Switch!Fast(addr, size),
         r = Switch!PostInc(regs, Opmode(Opc), Dr(Opc), size),
         next = Add(Switch!DstExt(Opc), IF Opmode(Opc) = 5 THEN 2 ELSE 0),
         Switch!Retire(r, Switch!cc_nz(val, Switch!SizeMod(size)), x, Store(ram, addr, size, val), next)
  PROVE  Switch!Move
<1>1. Switch!Op = Opc
  BY Fetches
<1>2. /\ Switch!Mode(Opc) = Mode(Opc) /\ Switch!Sr(Opc) = Sr(Opc) /\ Switch!Dr(Opc) = Dr(Opc)
      /\ Switch!Opmode(Opc) = Opmode(Opc)
      /\ \A a, b : Switch!Add(a, b) = Add(a, b)
      /\ Switch!Store(ram, addr, size, val) = Store(ram, addr, size, val)
  BY SameFields, SameRegisters, SameArithmetic, SameMemory
<1>3. Switch!MoveIsFast(Opc)
  BY <1>2 DEF Switch!MoveIsFast
<1>4. Switch!PostInc(regs, Mode(Opc), Sr(Opc), size) = regs
  BY MoveParts
<1>5. val = Switch!SrcValue(Opc)
  BY MoveParts
<1> QED
  BY <1>1, <1>2, <1>3, <1>4, <1>5 DEF Switch!Move
----------------------------------------------------------------------------
\* What a handler leaves behind, apart from the condition codes.
Did(id, r, x1, m, next) ==
    E.id = id /\ regs' = r /\ x' = x1 /\ ram' = m /\ cur' = next

\* A pair of handlers, eager and no-flags, did what its body says.
LEMMA PairDid ==
  ASSUME NEW id, NEW len, NEW r, NEW x1, NEW m, HPair(id, len, r, x1, m)
  PROVE  Did(id, r, x1, m, cur + len)
BY DEF HPair, Step, Did

\* Such an instruction was decoded under the same id.
LEMMA PairIsEnt ==
  ASSUME Inv, Ready, E.id \notin {"NOP1", "NOP3"}
  PROVE  E.id = Ent.id
BY TwinOperands

\* MOVE and MOVEA of an immediate are the switch's Move.
LEMMA MoveImmRetires ==
  ASSUME Inv, Ready, ExecuteH, MoveImm
  PROVE  Switch!Move \/ Switch!Moveq
<1> DEFINE a == Ent.a
           b == Ent.b
           c == Ent.c
<1>1. /\ E.a = a /\ E.b = b /\ E.c = c
      /\ Ent = Decode(Opc, W16, W32, 2 * cur).ent
      /\ Switch!Op = Opc /\ Switch!pc2 = Add(2 * cur, 2)
  BY TwinOperands, Fetches
<1>2. CASE SetReg("MOVEQ", 1, E.c)
  <2>1. Did("MOVEQ", [regs EXCEPT ![a] = c], x, ram, cur + 1)
    BY <1>1, <1>2, PairDid DEF SetReg
  <2>2. Ent.id = "MOVEQ"
    BY <2>1, PairIsEnt DEF Did
  <2>3. Line(Opc) = 7 /\ a = DReg(Dr(Opc)) /\ c = Disp8(Opc)
    BY <1>1, <2>2, LineOfId DEF Entry
  <2>4. shadow' = cc_nz_l(c)
    BY <2>2, Shadows DEF FlagsOf, Elidable
  <2>5. Switch!Retire([regs EXCEPT ![a] = c], cc_nz_l(c), x, ram, Add(2 * cur, 2))
    BY <2>1, <2>4, Retires, EntryAddress DEF Did, Ready
  <2>6. Switch!Moveq
    BY <1>1, <2>3, <2>5, SameFields, SameFlags DEF Switch!Moveq, Switch!IsMoveq, Switch!Write, DReg
  <2> QED
    BY <2>6
<1>3. CASE SetReg("MV_L_IMM_DN", 3, E.c)
  <2>1. Did("MV_L_IMM_DN", [regs EXCEPT ![a] = c], x, ram, cur + 3)
    BY <1>1, <1>3, PairDid DEF SetReg
  <2>2. Ent.id = "MV_L_IMM_DN"
    BY <2>1, PairIsEnt DEF Did
  <2>3. /\ Line(Opc) = 2 /\ Opmode(Opc) = 0 /\ Mode(Opc) = 7 /\ IsImm(Opc)
        /\ a = DReg(Dr(Opc)) /\ c = W32
        /\ DecodeMove(Opc, W16, W32).len = 3
    BY <1>1, <2>2, LineOfId, MoveForms DEF MoveIds, IsImm
  <2>4. shadow' = cc_nz_l(c)
    BY <2>2, Shadows DEF FlagsOf, Elidable
  <2>5. Fast(Add(2 * cur, 2), 4)
    BY <1>1, <2>3, Fetches DEF Decode
  <2>6. Switch!Retire([regs EXCEPT ![a] = c], cc_nz_l(c), x, ram, Add(2 * cur, 6))
    BY <2>1, <2>4, Retires, EntryAddress DEF Did, Ready
  <2>7. /\ Switch!IsMove(Opc) /\ Switch!MoveSize(Opc) = 4 /\ Switch!SrcValue(Opc) = c
        /\ Switch!Fast(Switch!SrcAddr(Opc), Switch!SrcSize(Opc))
        /\ Add(Switch!DstExt(Opc), 0) = Add(2 * cur, 6)
        /\ Switch!PostInc(regs, Mode(Opc), Sr(Opc), 4) = regs
    BY <2>3, <2>5, MoveParts, MovesAccepted, SameMemory, EntryAddress DEF Ready, W32
  <2>8. [regs EXCEPT ![a] = c] = [regs EXCEPT ![DReg(Dr(Opc))] = Switch!PutReg(@, c, 4)]
    <3>1. Switch!PutReg(regs[DReg(Dr(Opc))], c, 4) = c
      BY MoveParts
    <3> QED
      BY <2>3, <3>1, Zenon
  <2>9. Switch!Move
    BY <2>3, <2>6, <2>7, <2>8, MoveToRegister, NZBySize, SameFields
  <2> QED
    BY <2>9
<1>4. CASE SetReg("MV_W_IMM_DN", 2, Merge(D, E.c, WordMod))
  <2>1. Did("MV_W_IMM_DN", [regs EXCEPT ![a] = Merge(regs[a], c, WordMod)], x, ram, cur + 2)
    BY <1>1, <1>4, PairDid DEF SetReg, D
  <2>2. Ent.id = "MV_W_IMM_DN"
    BY <2>1, PairIsEnt DEF Did
  <2>3. /\ Line(Opc) = 3 /\ Opmode(Opc) = 0 /\ Mode(Opc) = 7 /\ IsImm(Opc)
        /\ a = DReg(Dr(Opc)) /\ c = W16
    BY <1>1, <2>2, LineOfId, MoveForms DEF MoveIds, IsImm
  <2>4. shadow' = cc_nz_w(c)
    BY <2>2, Shadows DEF FlagsOf, Elidable
  <2>6. Switch!Retire([regs EXCEPT ![a] = Merge(regs[a], c, WordMod)], cc_nz_w(c), x, ram, Add(2 * cur, 4))
    BY <2>1, <2>4, Retires, EntryAddress DEF Did, Ready
  <2>7. /\ Switch!IsMove(Opc) /\ Switch!MoveSize(Opc) = 2 /\ Switch!SrcValue(Opc) = c
        /\ Switch!Fast(Switch!SrcAddr(Opc), Switch!SrcSize(Opc))
        /\ Add(Switch!DstExt(Opc), 0) = Add(2 * cur, 4)
        /\ Switch!PostInc(regs, Mode(Opc), Sr(Opc), 2) = regs
    BY <2>3, MoveParts, MovesAccepted, SameMemory, EntryAddress DEF Ready, W16
  <2>8. [regs EXCEPT ![a] = Merge(regs[a], c, WordMod)]
          = [regs EXCEPT ![DReg(Dr(Opc))] = Switch!PutReg(@, c, 2)]
    <3>1. Switch!PutReg(regs[DReg(Dr(Opc))], c, 2) = Merge(regs[DReg(Dr(Opc))], c, WordMod)
      BY MoveParts
    <3> QED
      BY <2>3, <3>1, Zenon
  <2>9. Switch!Move
    BY <2>3, <2>6, <2>7, <2>8, MoveToRegister, NZBySize, SameFields
  <2> QED
    BY <2>9
<1>5. CASE SetReg("MV_L_DD", 1, S)
  <2>1. Did("MV_L_DD", [regs EXCEPT ![a] = regs[b]], x, ram, cur + 1)
    BY <1>1, <1>5, PairDid DEF SetReg, S
  <2>2. Ent.id = "MV_L_DD"
    BY <2>1, PairIsEnt DEF Did
  <2>3. /\ Line(Opc) = 2 /\ Opmode(Opc) = 0 /\ Mode(Opc) = 0
        /\ a = DReg(Dr(Opc)) /\ b = DReg(Sr(Opc))
    BY <1>1, <2>2, LineOfId, MoveForms DEF MoveIds
  <2>4. shadow' = cc_nz_l(regs[b])
    BY <2>2, Shadows DEF FlagsOf, Elidable
  <2>6. Switch!Retire([regs EXCEPT ![a] = regs[b]], cc_nz_l(regs[b]), x, ram, Add(2 * cur, 2))
    BY <2>1, <2>4, Retires, EntryAddress DEF Did, Ready
  <2>7. /\ Switch!IsMove(Opc) /\ Switch!MoveSize(Opc) = 4 /\ Switch!SrcValue(Opc) = regs[b]
        /\ Add(Switch!DstExt(Opc), 0) = Add(2 * cur, 2)
        /\ Switch!PostInc(regs, Mode(Opc), Sr(Opc), 4) = regs
    BY <2>3, MoveParts, MovesAccepted, EntryAddress DEF Ready
  <2>8. [regs EXCEPT ![a] = regs[b]] = [regs EXCEPT ![DReg(Dr(Opc))] = Switch!PutReg(@, regs[b], 4)]
    <3>1. Switch!PutReg(regs[DReg(Dr(Opc))], regs[b], 4) = regs[b]
      BY MoveParts
    <3> QED
      BY <2>3, <3>1, Zenon
  <2>9. Switch!Move
    BY <2>3, <2>6, <2>7, <2>8, MoveToRegister, NZBySize, SameFields
  <2> QED
    BY <2>9
<1> QED
  BY <1>2, <1>3, <1>4, <1>5 DEF MoveImm

\* So are the moves through (An)+, to and from memory,
LEMMA MovePostIncRetires ==
  ASSUME Inv, Ready, ExecuteH, MovePostInc
  PROVE  Switch!Move
<1> DEFINE a == Ent.a
           b == Ent.b
<1>1. /\ E.a = a /\ E.b = b
      /\ Ent = Decode(Opc, W16, W32, 2 * cur).ent
      /\ Fast(regs[b], 4)
  BY TwinOperands, Fetches DEF MovePostInc, S
<1>2. CASE HPair("MV_L_ANP_DN", 1,
                 [regs EXCEPT ![E.b] = Add(S, 4), ![E.a] = Load(ram, S, 4)], x, ram)
  <2> DEFINE r1 == [regs EXCEPT ![b] = Add(regs[b], 4)]
             val == Load(ram, regs[b], 4)
             r == [r1 EXCEPT ![a] = val]
  <2>1. Did("MV_L_ANP_DN", r, x, ram, cur + 1)
    BY <1>1, <1>2, PairDid DEF S
  <2>2. Ent.id = "MV_L_ANP_DN"
    BY <2>1, PairIsEnt DEF Did
  <2>3. /\ Line(Opc) = 2 /\ Opmode(Opc) = 0 /\ Mode(Opc) = 3
        /\ a = DReg(Dr(Opc)) /\ b = AReg(Sr(Opc))
    BY <1>1, <2>2, LineOfId, MoveForms DEF MoveIds
  <2>4. shadow' = cc_nz_l(val)
    BY <2>2, Shadows DEF FlagsOf, Elidable
  <2> HIDE DEF r
  <2>6. Switch!Retire(r, cc_nz_l(val), x, ram, Add(2 * cur, 2))
    BY <2>1, <2>4, Retires, EntryAddress DEF Did, Ready
  <2>7. /\ Switch!IsMove(Opc) /\ Switch!MoveSize(Opc) = 4
        /\ Switch!SrcAddr(Opc) = regs[b] /\ Switch!SrcSize(Opc) = 4 /\ Switch!SrcValue(Opc) = val
        /\ Add(Switch!DstExt(Opc), 0) = Add(2 * cur, 2)
        /\ Switch!PostInc(regs, Mode(Opc), Sr(Opc), 4) = r1
    BY <2>3, MoveParts, MovesAccepted, EntryAddress DEF Ready
  <2>8. r = [r1 EXCEPT ![DReg(Dr(Opc))] = Switch!PutReg(@, val, 4)]
    <3>1. Switch!PutReg(r1[DReg(Dr(Opc))], val, 4) = val
      BY MoveParts
    <3> HIDE DEF r1, val
    <3> QED
      BY <2>3, <3>1, Zenon DEF r
  <2>9. /\ Switch!Mode(Opc) # 5 /\ Switch!Fast(Switch!SrcAddr(Opc), Switch!SrcSize(Opc))
        /\ cc_nz_l(val) = Switch!cc_nz(val, Switch!SizeMod(4))
    BY <1>1, <2>3, <2>7, NZBySize, SameFields, SameMemory
  <2> HIDE DEF r1, val
  <2> QED
    BY <2>3, <2>6, <2>7, <2>8, <2>9, MoveToRegister
<1>3. CASE HPair("MV_L_DN_ANP", 1, [regs EXCEPT ![E.b] = Add(S, 4)], x, Store(ram, S, 4, D))
  <2> DEFINE r == [regs EXCEPT ![b] = Add(regs[b], 4)]
             val == regs[a]
             addr == regs[b]
  <2>1. Did("MV_L_DN_ANP", r, x, Store(ram, addr, 4, val), cur + 1)
    BY <1>1, <1>3, PairDid DEF S, D
  <2>2. Ent.id = "MV_L_DN_ANP"
    BY <2>1, PairIsEnt DEF Did
  <2>3. /\ Line(Opc) = 2 /\ Opmode(Opc) = 3 /\ Mode(Opc) = 0
        /\ a = DReg(Sr(Opc)) /\ b = AReg(Dr(Opc))
    BY <1>1, <2>2, LineOfId, MoveForms DEF MoveIds
  <2>4. shadow' = cc_nz_l(val)
    BY <2>2, Shadows DEF FlagsOf, Elidable
  <2>6. Switch!Retire(r, cc_nz_l(val), x, Store(ram, addr, 4, val), Add(2 * cur, 2))
    BY <2>1, <2>4, Retires, EntryAddress DEF Did, Ready
  <2>7. /\ Switch!IsMove(Opc) /\ Switch!MoveSize(Opc) = 4
        /\ Switch!DstExt(Opc) = Add(2 * cur, 2) /\ Add(Switch!DstExt(Opc), 0) = Add(2 * cur, 2)
        /\ Switch!PostInc(regs, Mode(Opc), Sr(Opc), 4) = regs
    BY <2>3, MoveParts, MovesAccepted, EntryAddress DEF Ready
  <2>8. Switch!DstAddr(Opc) = addr /\ r = Switch!PostInc(regs, Opmode(Opc), Dr(Opc), 4)
    BY <2>3, <2>7, MoveParts, SameFields, SameRegisters DEF Switch!DstAddr
  <2>9. Switch!Fast(addr, 4) /\ Switch!Fast(Switch!DstExt(Opc), 2)
    BY <1>1, <2>7, SameMemory, EntryAddress DEF Ready
  <2> HIDE DEF r, val, addr
  <2> QED
    BY <2>3, <2>6, <2>7, <2>8, <2>9, MoveToMemory, NZBySize DEF val
<1> QED
  BY <1>2, <1>3 DEF MovePostInc

\* The size a displacement MOVE is decoded for.
SizeOfLine(o) == IF Line(o) = 2 THEN 4 ELSE IF Line(o) = 3 THEN 2 ELSE 1

\* those from d16(An), of three sizes,
LEMMA LoadRetires ==
  ASSUME Inv, Ready, ExecuteH, NEW id, NEW size, LoadD16(id, size),
         <<id, size>> \in {<<"MV_L_D16_DN", 4>>, <<"MV_W_D16_DN", 2>>, <<"MV_B_D16_DN", 1>>}
  PROVE  Switch!Move
<1> DEFINE a == Ent.a
           b == Ent.b
           addr == Add(regs[b], Ent.c)
           val == Load(ram, addr, size)
           r == [regs EXCEPT ![a] = IF size = 4 THEN val ELSE Merge(regs[a], val, SizeMod(size))]
           f == IF size = 4 THEN cc_nz_l(val) ELSE IF size = 2 THEN cc_nz_w(val) ELSE cc_nz_b(val)
<1>0. size \in {1, 2, 4} /\ id \in {"MV_L_D16_DN", "MV_W_D16_DN", "MV_B_D16_DN"}
  OBVIOUS
<1>1. /\ E.a = a /\ E.b = b /\ E.c = Ent.c
      /\ Ent = Decode(Opc, W16, W32, 2 * cur).ent
  BY TwinOperands, Fetches
<1>2. Fast(addr, size) /\ Did(id, r, x, ram, cur + 2)
  <2>1. Fast(addr, size) /\ HPair(id, 2, [regs EXCEPT ![E.a] = IF size = 4 THEN Load(ram, EA, 4) ELSE Merge(D, Load(ram, EA, size), SizeMod(size))], x, ram)
    BY <1>1 DEF LoadD16, SetReg, EA, S
  <2>2. [regs EXCEPT ![E.a] = IF size = 4 THEN Load(ram, EA, 4) ELSE Merge(D, Load(ram, EA, size), SizeMod(size))] = r
    BY <1>1 DEF EA, S, D
  <2> QED
    BY <2>1, <2>2, PairDid
<1>3. Ent.id = id
  BY <1>0, <1>2, PairIsEnt DEF Did
<1>4. /\ Line(Opc) \in {1, 2, 3} /\ size = SizeOfLine(Opc) /\ Opmode(Opc) = 0 /\ Mode(Opc) = 5
      /\ a = DReg(Dr(Opc)) /\ b = AReg(Sr(Opc)) /\ Ent.c = D16Of(W16)
  BY <1>1, <1>3, LineOfId, MoveForms DEF MoveIds, SizedId, SizeOfLine
<1>5. shadow' = f
  BY <1>3, Shadows DEF FlagsOf, Elidable
<1> HIDE DEF r, f
<1>6. Switch!Retire(r, f, x, ram, Add(2 * cur, 4))
  BY <1>2, <1>5, Retires, EntryAddress DEF Did, Ready
<1>7. /\ Switch!IsMove(Opc) /\ Switch!MoveSize(Opc) = size
      /\ Switch!SrcAddr(Opc) = addr /\ Switch!SrcSize(Opc) = size /\ Switch!SrcValue(Opc) = val
      /\ Add(Switch!DstExt(Opc), 0) = Add(2 * cur, 4)
      /\ Switch!PostInc(regs, Mode(Opc), Sr(Opc), size) = regs
  BY <1>4, MoveParts, MovesAccepted, EntryAddress DEF Ready, SizeOfLine
<1> HIDE DEF addr, val
<1>8. r = [regs EXCEPT ![DReg(Dr(Opc))] = Switch!PutReg(@, val, size)]
  <2> DEFINE old == regs[DReg(Dr(Opc))]
  <2>1. SizeMod(2) = WordMod
    BY DEF SizeMod, WordMod
  <2>2. Switch!PutReg(old, val, size) = IF size = 4 THEN val ELSE Merge(old, val, SizeMod(size))
    BY <1>0, <2>1, MoveParts
  <2> QED
    BY <1>4, <2>2, Zenon DEF r
<1>9. f = Switch!cc_nz(val, Switch!SizeMod(size))
  BY <1>0, NZBySize DEF f
<1>10. /\ Switch!Mode(Opc) = 5 /\ Switch!Fast(Switch!pc2, 2)
       /\ Switch!Fast(Switch!SrcAddr(Opc), Switch!SrcSize(Opc))
  BY <1>2, <1>4, <1>7, Fetches, SameMemory, SameFields, EntryAddress DEF Ready
<1> QED
  BY <1>4, <1>6, <1>7, <1>8, <1>9, <1>10, MoveToRegister

\* and those to d16(An).
LEMMA StoreRetires ==
  ASSUME Inv, Ready, ExecuteH, NEW id, NEW size, StoreD16(id, size),
         <<id, size>> \in {<<"MV_L_DN_D16", 4>>, <<"MV_W_DN_D16", 2>>, <<"MV_B_DN_D16", 1>>}
  PROVE  Switch!Move
<1> DEFINE a == Ent.a
           b == Ent.b
           addr == Add(regs[b], Ent.c)
           val == regs[a]
           f == IF size = 4 THEN cc_nz_l(val) ELSE IF size = 2 THEN cc_nz_w(val) ELSE cc_nz_b(val)
<1>0. size \in {1, 2, 4} /\ id \in {"MV_L_DN_D16", "MV_W_DN_D16", "MV_B_DN_D16"}
  OBVIOUS
<1>1. /\ E.a = a /\ E.b = b /\ E.c = Ent.c
      /\ Ent = Decode(Opc, W16, W32, 2 * cur).ent
  BY TwinOperands, Fetches
<1>2. Fast(addr, size) /\ Did(id, regs, x, Store(ram, addr, size, val), cur + 2)
  BY <1>1, PairDid DEF StoreD16, EA, S, D
<1>3. Ent.id = id
  BY <1>0, <1>2, PairIsEnt DEF Did
<1>4. /\ Line(Opc) \in {1, 2, 3} /\ size = SizeOfLine(Opc) /\ Opmode(Opc) = 5 /\ Mode(Opc) = 0
      /\ a = DReg(Sr(Opc)) /\ b = AReg(Dr(Opc)) /\ Ent.c = D16Of(W16)
  BY <1>1, <1>3, LineOfId, MoveForms DEF MoveIds, SizedId, SizeOfLine
<1>5. shadow' = f
  BY <1>3, Shadows DEF FlagsOf, Elidable
<1> HIDE DEF f
<1>6. Switch!Retire(regs, f, x, Store(ram, addr, size, val), Add(2 * cur, 4))
  BY <1>2, <1>5, Retires, EntryAddress DEF Did, Ready
<1>7. /\ Switch!IsMove(Opc) /\ Switch!MoveSize(Opc) = size
      /\ Switch!DstExt(Opc) = Add(2 * cur, 2) /\ Add(Switch!DstExt(Opc), 2) = Add(2 * cur, 4)
      /\ Switch!PostInc(regs, Mode(Opc), Sr(Opc), size) = regs
      /\ Switch!PostInc(regs, Opmode(Opc), Dr(Opc), size) = regs
  BY <1>4, MoveParts, MovesAccepted, EntryAddress DEF Ready, SizeOfLine
<1>8. Switch!DstAddr(Opc) = addr
  BY <1>4, <1>7, MoveParts, SameFields, SameRegisters, SameMemory, SameArithmetic, SameWidths
     DEF Switch!DstAddr, W16, D16Of
<1>9. f = Switch!cc_nz(val, Switch!SizeMod(size))
  BY <1>0, NZBySize DEF f
<1>10. Switch!Fast(addr, size) /\ Switch!Fast(Switch!DstExt(Opc), 2)
  BY <1>2, <1>7, SameMemory, EntryAddress DEF Ready
<1> HIDE DEF addr, val
<1> QED
  BY <1>4, <1>6, <1>7, <1>8, <1>9, <1>10, MoveToMemory DEF val

LEMMA MoveD16Retires ==
  ASSUME Inv, Ready, ExecuteH, MoveD16
  PROVE  Switch!Move
BY LoadRetires, StoreRetires DEF MoveD16
----------------------------------------------------------------------------
\* A case of the switch that writes one register and the condition codes.
LEMMA WritesRegister ==
  ASSUME Inv, Ready, ExecuteH, NEW id, NEW i, NEW r, NEW f, NEW x1,
         Did(id, [regs EXCEPT ![i] = r], x1, ram, cur + 1), shadow' = f
  PROVE  Switch!Write(i, r, f, x1)
<1>1. Switch!Retire([regs EXCEPT ![i] = r], f, x1, ram, Add(2 * cur, 2))
  BY Retires, EntryAddress DEF Did, Ready
<1> QED
  BY <1>1, Fetches DEF Switch!Write

\* A case of the switch that writes the condition codes only.
LEMMA WritesFlags ==
  ASSUME Inv, Ready, ExecuteH, NEW f, UNCHANGED <<regs, x, ram>>, shadow' = f
  PROVE  /\ cur' = cur + 1 => Switch!Retire(regs, f, x, ram, Add(2 * cur, 2))
         /\ cur' = cur + 2 => Switch!Retire(regs, f, x, ram, Add(2 * cur, 4))
         /\ cur' = cur + 3 => Switch!Retire(regs, f, x, ram, Add(2 * cur, 6))
BY Retires, EntryAddress DEF Ready

LEMMA RegisterDid ==
  ASSUME Inv, Ready, NEW id, NEW r, NEW x1, SetRegX(id, r, x1), id \notin {"NOP1", "NOP3"}
  PROVE  Did(id, [regs EXCEPT ![Ent.a] = r], x1, ram, cur + 1) /\ Ent.id = id
<1>1. Did(id, [regs EXCEPT ![E.a] = r], x1, ram, cur + 1)
  BY PairDid DEF SetRegX
<1> QED
  BY <1>1, TwinOperands DEF Did

LEMMA RegisterDidToo ==
  ASSUME Inv, Ready, NEW id, NEW r, SetReg(id, 1, r), id \notin {"NOP1", "NOP3"}
  PROVE  Did(id, [regs EXCEPT ![Ent.a] = r], x, ram, cur + 1) /\ Ent.id = id
<1>1. SetRegX(id, r, x)
  BY DEF SetReg, SetRegX
<1> QED
  BY <1>1, RegisterDid

\* ADD, SUB, ADDQ and SUBQ on a data register.
LEMMA ArithRetires ==
  ASSUME Inv, Ready, ExecuteH, Arith
  PROVE  Switch!Alu \/ Switch!AddqSubq
<1> DEFINE a == Ent.a
           b == Ent.b
           dst == regs[a]
           src == regs[b]
<1>1. /\ S = src /\ D = dst /\ E.b = b
      /\ Ent = Decode(Opc, W16, W32, 2 * cur).ent
      /\ Switch!Op = Opc
  BY TwinOperands, Fetches DEF S, D
<1>2. CASE SetRegX("ADD_L_DD", Add(D, S), Add(D, S) < S)
  <2>1. /\ Did("ADD_L_DD", [regs EXCEPT ![a] = Add(dst, src)], Add(dst, src) < src, ram, cur + 1)
        /\ Ent.id = "ADD_L_DD"
    BY <1>1, <1>2, RegisterDid
  <2>2. shadow' = cc_add_l(src, dst, Add(dst, src))
    BY <2>1, Shadows DEF FlagsOf, Elidable
  <2>3. /\ Line(Opc) = 13 /\ Mode(Opc) = 0 /\ Opmode(Opc) = 2
        /\ a = DReg(Dr(Opc)) /\ b = DReg(Sr(Opc))
    BY <1>1, <2>1, LineOfId DEF Entry, IsDD
  <2>4. Switch!Write(a, Add(dst, src), cc_add_l(src, dst, Add(dst, src)), Add(dst, src) < src)
    BY <2>1, <2>2, WritesRegister
  <2>5. cc_add_l(src, dst, Add(dst, src)).c = (Add(dst, src) < src)
    BY DEF cc_add_l
  <2> QED
    BY <1>1, <2>3, <2>4, <2>5, SameFields, SameArithmetic, SameFlags
       DEF Switch!Alu, Switch!IsAlu, DReg
<1>3. CASE SetRegX("SUB_L_DD", Sub(D, S), S > D)
  <2>1. /\ Did("SUB_L_DD", [regs EXCEPT ![a] = Sub(dst, src)], src > dst, ram, cur + 1)
        /\ Ent.id = "SUB_L_DD"
    BY <1>1, <1>3, RegisterDid
  <2>2. shadow' = cc_sub_l(src, dst, Sub(dst, src))
    BY <2>1, Shadows DEF FlagsOf, Elidable
  <2>3. /\ Line(Opc) = 9 /\ Mode(Opc) = 0 /\ Opmode(Opc) = 2
        /\ a = DReg(Dr(Opc)) /\ b = DReg(Sr(Opc))
    BY <1>1, <2>1, LineOfId DEF Entry, IsDD
  <2>4. Switch!Write(a, Sub(dst, src), cc_sub_l(src, dst, Sub(dst, src)), src > dst)
    BY <2>1, <2>2, WritesRegister
  <2>5. cc_sub_l(src, dst, Sub(dst, src)).c = (src > dst)
    BY DEF cc_sub_l
  <2> QED
    BY <1>1, <2>3, <2>4, <2>5, SameFields, SameArithmetic, SameFlags
       DEF Switch!Alu, Switch!IsAlu, DReg
<1>4. CASE SetRegX("ADDQ_L_DN", Add(D, E.b), Add(D, E.b) < E.b)
  <2>1. /\ Did("ADDQ_L_DN", [regs EXCEPT ![a] = Add(dst, b)], Add(dst, b) < b, ram, cur + 1)
        /\ Ent.id = "ADDQ_L_DN"
    BY <1>1, <1>4, RegisterDid
  <2>2. shadow' = cc_add_l(b, dst, Add(dst, b))
    BY <2>1, Shadows DEF FlagsOf, Elidable
  <2>3. /\ Line(Opc) = 5 /\ Size(Opc) = 2 /\ Mode(Opc) = 0 /\ Dir(Opc) # 1
        /\ a = DReg(Sr(Opc)) /\ b = Quick(Opc)
    BY <1>1, <2>1, LineOfId, QuickForms DEF QuickIds
  <2>4. Switch!Write(a, Add(dst, b), cc_add_l(b, dst, Add(dst, b)), Add(dst, b) < b)
    BY <2>1, <2>2, WritesRegister
  <2>5. cc_add_l(b, dst, Add(dst, b)).c = (Add(dst, b) < b)
    BY DEF cc_add_l
  <2> QED
    BY <1>1, <2>3, <2>4, <2>5, SameFields, SameArithmetic, SameFlags
       DEF Switch!AddqSubq, Switch!IsQuick, DReg
<1>5. CASE SetRegX("SUBQ_L_DN", Sub(D, E.b), E.b > D)
  <2>1. /\ Did("SUBQ_L_DN", [regs EXCEPT ![a] = Sub(dst, b)], b > dst, ram, cur + 1)
        /\ Ent.id = "SUBQ_L_DN"
    BY <1>1, <1>5, RegisterDid
  <2>2. shadow' = cc_sub_l(b, dst, Sub(dst, b))
    BY <2>1, Shadows DEF FlagsOf, Elidable
  <2>3. /\ Line(Opc) = 5 /\ Size(Opc) = 2 /\ Mode(Opc) = 0 /\ Dir(Opc) = 1
        /\ a = DReg(Sr(Opc)) /\ b = Quick(Opc)
    BY <1>1, <2>1, LineOfId, QuickForms DEF QuickIds
  <2>4. Switch!Write(a, Sub(dst, b), cc_sub_l(b, dst, Sub(dst, b)), b > dst)
    BY <2>1, <2>2, WritesRegister
  <2>5. cc_sub_l(b, dst, Sub(dst, b)).c = (b > dst)
    BY DEF cc_sub_l
  <2> QED
    BY <1>1, <2>3, <2>4, <2>5, SameFields, SameArithmetic, SameFlags
       DEF Switch!AddqSubq, Switch!IsQuick, DReg
<1> QED
  BY <1>2, <1>3, <1>4, <1>5 DEF Arith

\* AND, OR and EOR.
LEMMA LogicRetires ==
  ASSUME Inv, Ready, ExecuteH, Logic
  PROVE  Switch!Alu
<1> DEFINE a == Ent.a
           b == Ent.b
           dst == regs[a]
           src == regs[b]
<1>1. /\ S = src /\ D = dst
      /\ Ent = Decode(Opc, W16, W32, 2 * cur).ent
      /\ Switch!Op = Opc
  BY TwinOperands, Fetches DEF S, D
<1>2. CASE SetReg("AND_L_DD", 1, And(D, S))
  <2>1. Did("AND_L_DD", [regs EXCEPT ![a] = And(dst, src)], x, ram, cur + 1) /\ Ent.id = "AND_L_DD"
    BY <1>1, <1>2, RegisterDidToo
  <2>2. shadow' = cc_nz_l(And(dst, src))
    BY <2>1, Shadows DEF FlagsOf, Elidable
  <2>3. /\ Line(Opc) = 12 /\ Mode(Opc) = 0 /\ Opmode(Opc) = 2
        /\ a = DReg(Dr(Opc)) /\ b = DReg(Sr(Opc))
    BY <1>1, <2>1, LineOfId DEF Entry, IsDD
  <2>4. Switch!Write(a, And(dst, src), cc_nz_l(And(dst, src)), x)
    BY <2>1, <2>2, WritesRegister
  <2> QED
    BY <1>1, <2>3, <2>4, SameFields, SameLogic, SameFlags DEF Switch!Alu, Switch!IsAlu, DReg
<1>3. CASE SetReg("OR_L_DD", 1, Or(D, S))
  <2>1. Did("OR_L_DD", [regs EXCEPT ![a] = Or(dst, src)], x, ram, cur + 1) /\ Ent.id = "OR_L_DD"
    BY <1>1, <1>3, RegisterDidToo
  <2>2. shadow' = cc_nz_l(Or(dst, src))
    BY <2>1, Shadows DEF FlagsOf, Elidable
  <2>3. /\ Line(Opc) = 8 /\ Mode(Opc) = 0 /\ Opmode(Opc) = 2
        /\ a = DReg(Dr(Opc)) /\ b = DReg(Sr(Opc))
    BY <1>1, <2>1, LineOfId DEF Entry, IsDD
  <2>4. Switch!Write(a, Or(dst, src), cc_nz_l(Or(dst, src)), x)
    BY <2>1, <2>2, WritesRegister
  <2> QED
    BY <1>1, <2>3, <2>4, SameFields, SameLogic, SameFlags DEF Switch!Alu, Switch!IsAlu, DReg
<1>4. CASE SetReg("EOR_L_DD", 1, Eor(D, S))
  <2>1. Did("EOR_L_DD", [regs EXCEPT ![a] = Eor(dst, src)], x, ram, cur + 1) /\ Ent.id = "EOR_L_DD"
    BY <1>1, <1>4, RegisterDidToo
  <2>2. shadow' = cc_nz_l(Eor(dst, src))
    BY <2>1, Shadows DEF FlagsOf, Elidable
  <2>3. /\ Line(Opc) = 11 /\ Mode(Opc) = 0 /\ Opmode(Opc) = 6
        /\ a = DReg(Sr(Opc)) /\ b = DReg(Dr(Opc))
    BY <1>1, <2>1, LineOfId DEF Entry
  <2>4. Switch!Write(a, Eor(dst, src), cc_nz_l(Eor(dst, src)), x)
    BY <2>1, <2>2, WritesRegister
  <2>5. Eor(dst, src) = Eor(src, dst)
    BY DEF Eor
  <2> QED
    BY <1>1, <2>3, <2>4, <2>5, SameFields, SameLogic, SameFlags DEF Switch!Alu, Switch!IsAlu, DReg
<1> QED
  BY <1>2, <1>3, <1>4 DEF Logic

\* LSL and LSR by a count.
LEMMA ShiftRetires ==
  ASSUME Inv, Ready, ExecuteH, Shift
  PROVE  Switch!Shift
<1>1. PICK id \in {"LSL_L_IMM", "LSR_L_IMM"} : SetRegX(id, Shifted(E), ShiftedOut(E))
  BY DEF Shift
<1> DEFINE a == Ent.a
           b == Ent.b
           r == Shifted(Ent)
           out == ShiftedOut(Ent)
<1>2. E.id = id /\ E.a = a /\ E.b = b /\ Ent.id = id
  BY <1>1, TwinOperands DEF SetRegX, HPair, Step
<1>3. Shifted(E) = r /\ ShiftedOut(E) = out
  BY <1>2 DEF Shifted, ShiftedOut
<1>4. Did(id, [regs EXCEPT ![a] = r], out, ram, cur + 1)
  BY <1>1, <1>3, RegisterDid
<1>5. shadow' = cc_shift(r, out)
  BY <1>2, Shadows DEF FlagsOf, Elidable
<1>6. Switch!Write(a, r, cc_shift(r, out), out)
  BY <1>4, <1>5, WritesRegister
<1>7. /\ Line(Opc) = 14 /\ Size(Opc) = 2 /\ Mode(Opc) = 1
      /\ id = (IF Dir(Opc) = 1 THEN "LSL_L_IMM" ELSE "LSR_L_IMM")
      /\ a = DReg(Sr(Opc)) /\ b = Quick(Opc)
  BY <1>2, LineOfId, Fetches DEF Entry
<1>8. r = IF Dir(Opc) = 1 THEN (regs[a] % 2^(LongBits - b)) * 2^b ELSE regs[a] \div 2^b
  BY <1>2, <1>7 DEF Shifted
<1>9. out = ((regs[a] \div 2^(IF Dir(Opc) = 1 THEN LongBits - b ELSE b - 1)) % 2 = 1)
  BY <1>2, <1>7 DEF ShiftedOut
<1> HIDE DEF r, out
<1>10. Switch!IsShift(Opc) /\ Switch!Op = Opc
  BY <1>7, SameFields, Fetches DEF Switch!IsShift
<1> QED
  BY <1>6, <1>7, <1>8, <1>9, <1>10, SameFields, SameWidths, SameFlags DEF Switch!Shift, DReg

\* A compare or a test sets the flags and nothing else, and where they are dead
\* the NOP in its place takes as many words.
LEMMA CompareRetires ==
  ASSUME Inv, Ready, ExecuteH, UNCHANGED <<regs, x, ram>>, Ent.id \in PureFlag
  PROVE  Switch!Alu \/ Switch!Cmpi \/ Switch!Tst
<1> DEFINE a == Ent.a
           b == Ent.b
           dst == regs[a]
           src == regs[b]
<1>1. /\ Ent = Decode(Opc, W16, W32, 2 * cur).ent
      /\ Switch!Op = Opc /\ Switch!pc2 = Add(2 * cur, 2) /\ SeenPc = 2 * cur
  BY Fetches
<1>2. cur' = IF Ent.id = "CMPI_L_DN" THEN cur + 3 ELSE cur + 1
  BY ExecuteEffect, TwinOperands DEF ExecuteH, HandlerEffect, HandlerLen, PureFlag, E
<1>3. shadow' = FlagsOf(Ent)
  BY Shadows
<1>4. CASE Ent.id = "CMP_L_DD"
  <2>1. shadow' = cc_cmp_l(src, dst, Sub(dst, src))
    BY <1>3, <1>4 DEF FlagsOf
  <2>2. /\ Line(Opc) = 11 /\ Mode(Opc) = 0 /\ Opmode(Opc) = 2
        /\ a = DReg(Dr(Opc)) /\ b = DReg(Sr(Opc))
    BY <1>1, <1>4, LineOfId DEF Entry, IsDD
  <2>3. Switch!Retire(regs, cc_cmp_l(src, dst, Sub(dst, src)), x, ram, Add(2 * cur, 2))
    BY <1>2, <1>4, <2>1, WritesFlags
  <2> QED
    BY <1>1, <2>2, <2>3, SameFields, SameArithmetic, SameFlags DEF Switch!Alu, Switch!IsAlu, DReg
<1>5. CASE Ent.id = "CMPI_L_DN"
  <2>1. shadow' = cc_cmp_l(Ent.c, dst, Sub(dst, Ent.c))
    BY <1>3, <1>5 DEF FlagsOf
  <2>2. /\ Line(Opc) = 0 /\ Dr(Opc) = 6 /\ Opmode(Opc) = 2 /\ Mode(Opc) = 0 /\ IsDD(Opc)
        /\ a = DReg(Sr(Opc)) /\ Ent.c = W32
    BY <1>1, <1>5, LineOfId DEF Entry, IsDD
  <2>3. Switch!Retire(regs, cc_cmp_l(W32, dst, Sub(dst, W32)), x, ram, Add(2 * cur, 6))
    BY <1>2, <1>5, <2>1, <2>2, WritesFlags
  <2>4. Decode(Opc, W16, W32, 2 * cur).len = 3
    BY <2>2 DEF Decode, Is
  <2>5. Switch!IsCmpi(Opc) /\ Switch!Fast(Switch!pc2, 4) /\ Switch!Ext32 = W32
    BY <1>1, <2>2, <2>4, Fetches, SameFields, SameMemory DEF Switch!IsCmpi
  <2> QED
    BY <1>1, <2>2, <2>3, <2>5, SameFields, SameArithmetic, SameFlags DEF Switch!Cmpi, DReg
<1>6. CASE Ent.id \in {"TST_L_DN", "TST_W_DN", "TST_B_DN"}
  <2> DEFINE f == IF Ent.id = "TST_L_DN" THEN cc_nz_l(dst)
                  ELSE IF Ent.id = "TST_W_DN" THEN cc_nz_w(dst) ELSE cc_nz_b(dst)
  <2>1. shadow' = f
    BY <1>3, <1>6 DEF FlagsOf
  <2>2. /\ Line(Opc) = 4 /\ Dr(Opc) = 5 /\ Dir(Opc) = 0 /\ Mode(Opc) = 0 /\ a = DReg(Sr(Opc))
        /\ Size(Opc) = CASE Ent.id = "TST_L_DN" -> 2 [] Ent.id = "TST_W_DN" -> 1 [] OTHER -> 0
    BY <1>1, <1>6, LineOfId, MiscForms DEF MiscIds
  <2>3. Switch!Retire(regs, f, x, ram, Add(2 * cur, 2))
    BY <1>2, <1>6, <2>1, WritesFlags
  <2>4. Switch!IsTst(Opc)
    BY <1>6, <2>2, SameFields DEF Switch!IsTst
  <2>5. f = IF Size(Opc) = 2 THEN cc_nz_l(dst) ELSE IF Size(Opc) = 1 THEN cc_nz_w(dst) ELSE cc_nz_b(dst)
    BY <1>6, <2>2
  <2> HIDE DEF f
  <2> QED
    BY <1>1, <2>2, <2>3, <2>4, <2>5, SameFields, SameFlags DEF Switch!Tst, DReg
<1> QED
  BY <1>4, <1>5, <1>6 DEF PureFlag

LEMMA CompareOrNop ==
  ASSUME Inv, Ready, ExecuteH, Compare \/ Nops
  PROVE  Switch!Alu \/ Switch!Cmpi \/ Switch!Tst \/ Switch!Nop
<1>1. UNCHANGED <<regs, x, ram>>
  BY DEF Compare, Nops
<1>2. CASE Ent.id \in PureFlag
  BY <1>1, <1>2, CompareRetires
<1>3. CASE Ent.id \notin PureFlag
  <2>1. E.id = Ent.id /\ Ent.id \notin {"NOP1", "NOP2", "NOP3"}
    BY <1>3, TwinOperands, Fetches, LineOfId
  <2>2. Nops /\ Ent.id = "NOP" /\ cur' = cur + 1
    BY <1>3, <2>1 DEF Compare, Nops, NopLen, Step, PureFlag
  <2>3. shadow' = shadow
    BY <2>2, Shadows DEF Elidable, PureFlag
  <2>4. Switch!Retire(regs, shadow, x, ram, Add(2 * cur, 2))
    BY <1>1, <2>2, <2>3, WritesFlags
  <2>5. Opc = 20081
    BY <2>2, LineOfId, MiscForms, Fetches DEF MiscIds
  <2> QED
    BY <2>4, <2>5, Fetches DEF Switch!Nop, Switch!IsNop
<1> QED
  BY <1>2, <1>3

\* LEA, MOVEA and ADDQ on an address register, which leave the flags alone.
LEMMA AddressRegisterRetires ==
  ASSUME Inv, Ready, ExecuteH, AddressRegister
  PROVE  Switch!Move \/ Switch!AddqSubq \/ Switch!Lea
<1> DEFINE a == Ent.a
           b == Ent.b
           c == Ent.c
<1>1. /\ E.a = a /\ E.b = b /\ E.c = c
      /\ Ent = Decode(Opc, W16, W32, 2 * cur).ent
      /\ Switch!Op = Opc /\ Switch!pc2 = Add(2 * cur, 2) /\ SeenPc = 2 * cur
  BY TwinOperands, Fetches
<1>2. UNCHANGED <<x, ram>>
  BY DEF AddressRegister
<1>3. CASE Step("MOVEA_L_IMM", ccr, cur + 3) /\ regs' = [regs EXCEPT ![E.a] = E.c]
  <2>1. Ent.id = "MOVEA_L_IMM" /\ cur' = cur + 3 /\ regs' = [regs EXCEPT ![a] = c]
    BY <1>1, <1>3, PairIsEnt DEF Step
  <2>2. shadow' = shadow
    BY <2>1, Shadows DEF Elidable, PureFlag
  <2>3. /\ Line(Opc) = 2 /\ Opmode(Opc) = 1 /\ Mode(Opc) = 7 /\ IsImm(Opc)
        /\ a = AReg(Dr(Opc)) /\ c = W32 /\ DecodeMove(Opc, W16, W32).len = 3
    BY <1>1, <2>1, LineOfId, MoveForms DEF MoveIds, IsImm
  <2>4. Fast(Add(2 * cur, 2), 4)
    BY <1>1, <2>3, Fetches DEF Decode
  <2>5. Switch!Retire([regs EXCEPT ![a] = c], shadow, x, ram, Add(2 * cur, 6))
    BY <1>2, <2>1, <2>2, Retires, EntryAddress DEF Ready
  <2>6. /\ Switch!IsMove(Opc) /\ Switch!MoveSize(Opc) = 4 /\ Switch!SrcValue(Opc) = c
        /\ Switch!Fast(Switch!SrcAddr(Opc), Switch!SrcSize(Opc))
        /\ Add(Switch!DstExt(Opc), 0) = Add(2 * cur, 6)
        /\ Switch!PostInc(regs, Mode(Opc), Sr(Opc), 4) = regs
    BY <2>3, <2>4, MoveParts, MovesAccepted, SameMemory, EntryAddress DEF Ready, W32
  <2>7. Switch!Move
    BY <2>3, <2>5, <2>6, MoveToRegister, SameFields
  <2> QED
    BY <2>7
<1>4. CASE Step("ADDQ_L_AN", ccr, cur + 1) /\ regs' = [regs EXCEPT ![E.a] = Add(D, E.b)]
  <2>1. Ent.id = "ADDQ_L_AN" /\ Did("ADDQ_L_AN", [regs EXCEPT ![a] = Add(regs[a], b)], x, ram, cur + 1)
    BY <1>1, <1>2, <1>4, PairIsEnt DEF Step, D, Did
  <2>2. shadow' = shadow
    BY <2>1, Shadows DEF Elidable, PureFlag
  <2>3. /\ Line(Opc) = 5 /\ Size(Opc) = 2 /\ Mode(Opc) = 1 /\ Dir(Opc) = 0
        /\ a = AReg(Sr(Opc)) /\ b = Quick(Opc)
    BY <1>1, <2>1, LineOfId, QuickForms DEF QuickIds
  <2>4. Switch!Write(a, Add(regs[a], b), shadow, x)
    BY <2>1, <2>2, WritesRegister
  <2> QED
    BY <1>1, <2>3, <2>4, SameFields, SameArithmetic, SameRegisters
       DEF Switch!AddqSubq, Switch!IsQuick
<1>5. CASE Step("LEA_D16", ccr, cur + 2) /\ regs' = [regs EXCEPT ![E.a] = EA]
  <2>1. Ent.id = "LEA_D16" /\ cur' = cur + 2 /\ regs' = [regs EXCEPT ![a] = Add(regs[b], c)]
    BY <1>1, <1>5, PairIsEnt DEF Step, EA, S
  <2>2. shadow' = shadow
    BY <2>1, Shadows DEF Elidable, PureFlag
  <2>3. /\ Line(Opc) = 4 /\ Opmode(Opc) = 7 /\ Mode(Opc) = 5
        /\ a = AReg(Dr(Opc)) /\ b = AReg(Sr(Opc)) /\ c = D16Of(W16)
    BY <1>1, <2>1, LineOfId, MiscForms DEF MiscIds
  <2>4. Switch!Retire([regs EXCEPT ![a] = Add(regs[b], c)], shadow, x, ram, Add(2 * cur, 4))
    BY <1>2, <2>1, <2>2, Retires, EntryAddress DEF Ready
  <2>5. Switch!IsLea(Opc) /\ Switch!Fast(Switch!pc2, 2) /\ Switch!D16 = D16Of(W16)
    BY <1>1, <2>3, Fetches, EntryAddress, SameFields, SameMemory DEF Switch!IsLea, Ready
  <2> QED
    BY <1>1, <2>3, <2>4, <2>5, SameFields, SameArithmetic, SameRegisters DEF Switch!Lea
<1> QED
  BY <1>3, <1>4, <1>5 DEF AddressRegister
----------------------------------------------------------------------------
\* An even address is twice the entry index it is reached by.
LEMMA EvenTarget ==
  ASSUME NEW t \in EvenAddress
  PROVE  t \div 2 \in Nat /\ (2 * (t \div 2)) % LongMod = t
<1>1. LongMod \in Nat \ {0} /\ t \in Nat /\ t < LongMod /\ t % 2 = 0
  BY WidthAssumption DEF EvenAddress, Long
<1>2. t \div 2 \in Nat /\ 2 * (t \div 2) = t
  BY <1>1
<1>3. \A v \in Nat : v < LongMod => v % LongMod = v
  BY <1>1
<1> QED
  BY <1>1, <1>2, <1>3

\* The flags a branch reads are exact.
LEMMA ReadsExact ==
  ASSUME Inv, Ready, ccr = shadow \/ Dead(cur), Ent.id \notin Elidable \cup PureFlag
  PROVE  ccr = shadow
BY DEF Dead, Kills, WritesAll, Ent

\* DBRA: the counter's low word, and the target halved and doubled.
LEMMA DbraRetires ==
  ASSUME Inv, Ready, ExecuteH, Dbra, TargetAt(cur) \in EvenAddress
  PROVE  Switch!Dbcc /\ cur' \in Nat
<1> DEFINE b == Ent.b
           w == (regs[b] - 1) % WordMod
           t == Add(Add(2 * cur, 2), D16Of(W16))
           again == w # WordMod - 1
<1>1. /\ E.b = b /\ E.c = Ent.c
      /\ Ent = Decode(Opc, W16, W32, 2 * cur).ent
      /\ Switch!Op = Opc /\ Switch!pc2 = Add(2 * cur, 2) /\ SeenPc = 2 * cur /\ Switch!D16 = D16Of(W16)
  BY TwinOperands, Fetches
<1>2. /\ E.id = "DBRA" /\ cur' = IF again THEN Ent.c ELSE cur + 2
      /\ regs' = [regs EXCEPT ![b] = Merge(regs[b], w, WordMod)] /\ UNCHANGED <<x, ram>>
  BY <1>1 DEF Dbra, Step, S
<1>3. Ent.id = "DBRA"
  BY <1>2, PairIsEnt
<1>4. /\ Line(Opc) = 5 /\ Size(Opc) = 3 /\ Mode(Opc) = 1 /\ Cond(Opc) = 1
      /\ b = DReg(Sr(Opc)) /\ Ent.c = t \div 2
  BY <1>1, <1>3, LineOfId, QuickForms DEF QuickIds
<1>5. shadow' = shadow
  BY <1>3, Shadows DEF Elidable, PureFlag
<1>6. TargetAt(cur) = t
  BY <1>4 DEF TargetAt, W16, Opc
<1> HIDE DEF t, w
<1>7. (2 * cur') % LongMod = IF again THEN t ELSE Add(2 * cur, 4)
  BY <1>2, <1>4, <1>6, EvenTarget, EntryAddress DEF Ready
<1>8. Switch!Retire([regs EXCEPT ![b] = Merge(regs[b], w, WordMod)], shadow, x, ram,
                    IF again THEN t ELSE Add(2 * cur, 4))
  BY <1>2, <1>5, <1>7, Retires
<1>9. Switch!IsDbcc(Opc) /\ Switch!Fast(Switch!pc2, 2)
  BY <1>1, <1>4, EntryAddress, SameFields, SameMemory DEF Switch!IsDbcc, Ready
<1>10. ~Switch!m68k_cond(shadow, 1)
  <2>1. ~m68k_cond(shadow, 1)
    BY DEF m68k_cond
  <2> QED
    BY <2>1, SameFlags
<1>11. /\ Switch!Sr(Opc) = b /\ Switch!Cond(Opc) = 1
       /\ Switch!Add(Switch!pc2, Switch!D16) = t /\ Switch!Add(SeenPc, 4) = Add(2 * cur, 4)
       /\ (regs[b] - 1) % Switch!WordMod = w
  BY <1>1, <1>4, SameFields, SameArithmetic, SameWidths DEF DReg, t, w
<1>12. Switch!Merge(regs[b], w, Switch!WordMod) = Merge(regs[b], w, WordMod)
  BY SameArithmetic, SameWidths
<1>13. cur' \in Nat
  BY <1>2, <1>4, <1>6, EvenTarget, EntryAddress DEF Ready
<1> DEFINE i1 == Switch!Sr(Switch!Op)
           w1 == (regs[i1] - 1) % Switch!WordMod
           r1 == [regs EXCEPT ![i1] = Switch!Merge(@, w1, Switch!WordMod)]
           stop == Switch!Cond(Switch!Op) = 0 \/ Switch!m68k_cond(shadow, Switch!Cond(Switch!Op))
           next == IF ~stop /\ w1 # Switch!WordMod - 1
                   THEN Switch!Add(Switch!pc2, Switch!D16) ELSE Switch!Add(SeenPc, 4)
<1>14. i1 = b /\ w1 = w /\ ~stop
  BY <1>1, <1>10, <1>11
<1>15. r1 = [regs EXCEPT ![b] = Merge(regs[b], w, WordMod)]
  BY <1>12, <1>14, Zenon
<1>16. next = IF again THEN t ELSE Add(2 * cur, 4)
  BY <1>11, <1>14, SameWidths
<1>17. Switch!Retire(IF stop THEN regs ELSE r1, shadow, x, ram, next)
  <2>1. (IF stop THEN regs ELSE r1) = [regs EXCEPT ![b] = Merge(regs[b], w, WordMod)]
    BY <1>14, <1>15, Zenon
  <2> HIDE DEF stop, r1, next, again
  <2> QED
    BY <1>8, <1>16, <2>1, Zenon DEF Switch!Retire
<1>18. Switch!IsDbcc(Switch!Op)
  BY <1>1, <1>9
<1> QED
  BY <1>9, <1>13, <1>17, <1>18, Zenon DEF Switch!Dbcc

\* BRA and Bcc read flags that are not stale, for a branch is no overwriter.
LEMMA BranchRetires ==
  ASSUME Inv, Ready, ExecuteH, Branch, ccr = shadow \/ Dead(cur), TargetAt(cur) \in EvenAddress
  PROVE  Switch!Bcc /\ cur' \in Nat
<1> DEFINE long == Disp8(Opc) = 0
           t == Add(Add(2 * cur, 2), IF long THEN D16Of(W16) ELSE Disp8(Opc))
           taken == Cond(Opc) = 0 \/ m68k_cond(shadow, Cond(Opc))
           fall == IF long THEN Add(2 * cur, 4) ELSE Add(2 * cur, 2)
<1>1. /\ E.a = Ent.a /\ E.c = Ent.c
      /\ Ent = Decode(Opc, W16, W32, 2 * cur).ent
      /\ Switch!Op = Opc /\ Switch!pc2 = Add(2 * cur, 2) /\ SeenPc = 2 * cur /\ Switch!D16 = D16Of(W16)
  BY TwinOperands, Fetches
<1>2. E.id \in BranchIds /\ UNCHANGED <<regs, x, ram>>
  BY DEF Branch, Step, Conds, BccId, BranchIds
<1>3. Ent.id = E.id
  BY <1>2, PairIsEnt DEF BranchIds
<1>4. /\ Line(Opc) = 6 /\ Ent.id = BccId(Cond(Opc)) /\ Ent.a = (IF long THEN 2 ELSE 1)
      /\ Ent.c = t \div 2
  BY <1>1, <1>2, <1>3, LineOfId, BranchForms
<1>5. Ent.id \notin Elidable \cup PureFlag
  BY <1>2, <1>3 DEF BranchIds, Elidable, PureFlag
<1>6. shadow' = shadow /\ ccr = shadow
  BY <1>5, Shadows, ReadsExact
<1>7. TargetAt(cur) = t
  BY <1>4 DEF TargetAt, W16, Opc
<1> HIDE DEF t
<1>8. Cond(Opc) # 1 /\ cur' = IF taken THEN Ent.c ELSE cur + Ent.a
  <2>1. CASE Step("BRA", ccr, E.c)
    <3>1. Cond(Opc) = 0
      BY <2>1, <1>3, <1>4, ConditionOfId DEF Step
    <3> QED
      BY <2>1, <3>1, <1>1 DEF Step
  <2>2. ASSUME NEW k \in Conds,
               Step(BccId(k), ccr, IF m68k_cond(ccr, k) THEN E.c ELSE cur + E.a)
        PROVE  Cond(Opc) # 1 /\ cur' = IF taken THEN Ent.c ELSE cur + Ent.a
    <3>1. Cond(Opc) = k
      BY <2>2, <1>3, <1>4, ConditionOfId DEF Step
    <3>2. k # 0 /\ k # 1
      BY DEF Conds
    <3> QED
      BY <2>2, <3>1, <3>2, <1>1, <1>6 DEF Step
  <2> QED
    BY <2>1, <2>2 DEF Branch
<1>9. (2 * cur') % LongMod = IF taken THEN t ELSE fall
  BY <1>4, <1>7, <1>8, EvenTarget, EntryAddress DEF Ready
<1>10. Switch!Retire(regs, shadow, x, ram, IF taken THEN t ELSE fall)
  BY <1>2, <1>6, <1>9, Retires
<1>11. Switch!IsBcc(Opc) /\ Switch!Fast(Switch!pc2, 2)
  BY <1>1, <1>4, <1>8, EntryAddress, SameFields, SameMemory DEF Switch!IsBcc, Ready
<1>12. cur' \in Nat
  BY <1>4, <1>7, <1>8, EvenTarget, EntryAddress DEF Ready
<1> QED
  BY <1>12, <1>1, <1>10, <1>11, SameFields, SameArithmetic, SameFlags DEF Switch!Bcc, t
----------------------------------------------------------------------------
\* Every instruction of the table does what the switch does at its address.
LEMMA ExecuteRetires ==
  ASSUME Inv, Ready, ExecuteH, ccr = shadow \/ Dead(cur),
         Ent.id \in Jumps => TargetAt(cur) \in EvenAddress
  PROVE  Switch!Execute /\ cur' \in Nat
<1>1. cur \in Nat
  BY EntryAddress DEF Ready
<1>2. CASE Dbra
  <2>1. Ent.id = "DBRA"
    BY <1>2, PairIsEnt DEF Dbra, Step
  <2> QED
    BY <1>2, <2>1, DbraRetires DEF Jumps, Switch!Execute
<1>3. CASE Branch
  <2>1. E.id \in Jumps /\ E.id \notin {"NOP1", "NOP3"}
    BY <1>3 DEF Branch, Step, Jumps, Conds, BccId
  <2> QED
    BY <1>3, <2>1, PairIsEnt, BranchRetires DEF Switch!Execute
<1>4. CASE ~Dbra /\ ~Branch
  <2>1. Execute
    BY DEF ExecuteH
  <2>2. Switch!Execute
    BY <2>1, <1>4, MoveImmRetires, MovePostIncRetires, MoveD16Retires, ArithRetires, LogicRetires,
       ShiftRetires, CompareOrNop, AddressRegisterRetires DEF Execute, Switch!Execute
  <2>3. cur' \in Nat
    <3>1. CASE AddressRegister \/ Nops
      BY <1>1, <3>1 DEF AddressRegister, Nops, NopLen, Step
    <3>2. CASE ~AddressRegister /\ ~Nops
      <4>1. E.id \in Elidable \cup PureFlag
        BY <2>1, <1>4, <3>2
           DEF Execute, MoveImm, MovePostInc, MoveD16, LoadD16, StoreD16, Arith, Logic, Shift,
               Compare, SetReg, SetRegX, HPair, Step, Elidable, PureFlag
      <4>2. cur' = cur + HandlerLen(E.id)
        BY <2>1, <4>1, ExecuteEffect DEF HandlerEffect, E
      <4> QED
        BY <1>1, <4>2, HandlerLenPositive
    <3> QED
      BY <3>1, <3>2
  <2> QED
    BY <2>2, <2>3
<1> QED
  BY <1>2, <1>3, <1>4

\* The fatal exits of a handler leave what those of the switch leave.
LEMMA Exits ==
  ASSUME Ready, phase' = "exited", n' = n - 1,
         UNCHANGED <<kernel, regs, x, ram, cur, sprints, shadow, entry>>
  PROVE  Switch!Exit
<1>1. SeenPc' = SeenPc /\ SeenMpc' = SeenMpc /\ SeenPhase' = "exited"
  BY Fetches DEF SeenPc, SeenMpc, SeenPhase, Ready
<1> QED
  BY <1>1 DEF Switch!Exit, Switch!cpu

\* What B and C refuse, the switch refuses.
LEMMA IllegalIsIllegal ==
  ASSUME Inv, Ready, Illegal, UNCHANGED hvars,
         Ent.id = "ILLEGAL" => ~Switch!SwitchAccepts(Opc)
  PROVE  Switch!Illegal
<1>1. Ent.id = "ILLEGAL"
  BY PairIsEnt DEF Illegal, Ready, Ent
<1>2. Switch!Exit
  BY Exits DEF Illegal, hvars, cpu
<1> QED
  BY <1>1, <1>2, Fetches DEF Switch!Illegal

\* An access the fast path does not take ends the switch too.
LEMMA BadAccessIsBadAccess ==
  ASSUME Inv, Ready, BadAccess, UNCHANGED hvars
  PROVE  Switch!BadAccess
<1>1. Switch!Exit
  BY Exits DEF BadAccess, hvars, cpu
<1>2. /\ E.a = Ent.a /\ E.b = Ent.b /\ E.c = Ent.c
      /\ Ent = Decode(Opc, W16, W32, 2 * cur).ent
      /\ Switch!Op = Opc /\ Switch!Running
  BY TwinOperands, Fetches
<1>3. Switch!IsMove(Opc) /\ ~Switch!MoveIsFast(Opc)
  <2>1. CASE E.id \in {"MV_L_ANP_DN", "MV_L_DN_ANP"} /\ ~Fast(S, 4)
    <3>1. Ent.id = E.id /\ ~Fast(regs[Ent.b], 4)
      BY <2>1, <1>2, PairIsEnt DEF S
    <3>2. CASE Ent.id = "MV_L_ANP_DN"
      <4>1. /\ Line(Opc) = 2 /\ Opmode(Opc) = 0 /\ Mode(Opc) = 3 /\ Ent.b = AReg(Sr(Opc))
        BY <1>2, <3>2, LineOfId, MoveForms DEF MoveIds
      <4>2. Switch!IsMove(Opc) /\ Switch!SrcAddr(Opc) = regs[Ent.b] /\ Switch!SrcSize(Opc) = 4
        BY <4>1, MoveParts, MovesAccepted
      <4> QED
        BY <3>1, <4>1, <4>2, SameFields, SameMemory DEF Switch!MoveIsFast
    <3>3. CASE Ent.id = "MV_L_DN_ANP"
      <4>1. /\ Line(Opc) = 2 /\ Opmode(Opc) = 3 /\ Mode(Opc) = 0 /\ Ent.b = AReg(Dr(Opc))
        BY <1>2, <3>3, LineOfId, MoveForms DEF MoveIds
      <4>2. Switch!IsMove(Opc) /\ Switch!MoveSize(Opc) = 4
        BY <4>1, MoveParts, MovesAccepted
      <4>3. Switch!DstAddr(Opc) = regs[Ent.b]
        BY <4>1, MoveParts, SameFields, SameRegisters DEF Switch!DstAddr
      <4> QED
        BY <3>1, <4>1, <4>2, <4>3, SameFields, SameMemory DEF Switch!MoveIsFast
    <3> QED
      BY <2>1, <3>1, <3>2, <3>3
  <2>2. CASE /\ E.id \in {"MV_L_D16_DN", "MV_L_DN_D16", "MV_W_D16_DN", "MV_W_DN_D16",
                          "MV_B_D16_DN", "MV_B_DN_D16"}
             /\ ~Fast(EA, AccessSize(E.id))
    <3>1. Ent.id = E.id /\ ~Fast(Add(regs[Ent.b], Ent.c), AccessSize(Ent.id))
      BY <2>2, <1>2, PairIsEnt DEF EA, S
    <3>2. CASE Ent.id \in {"MV_L_D16_DN", "MV_W_D16_DN", "MV_B_D16_DN"}
      <4>1. /\ Line(Opc) \in {1, 2, 3} /\ Opmode(Opc) = 0 /\ Mode(Opc) = 5
            /\ Ent.b = AReg(Sr(Opc)) /\ Ent.c = D16Of(W16)
            /\ Ent.id = SizedId(Opc, "MV_L_D16_DN", "MV_W_D16_DN", "MV_B_D16_DN")
        BY <1>2, <3>2, LineOfId, MoveForms DEF MoveIds
      <4>2. /\ Switch!IsMove(Opc) /\ Switch!SrcAddr(Opc) = Add(regs[Ent.b], Ent.c)
            /\ Switch!SrcSize(Opc) = AccessSize(Ent.id)
        BY <4>1, MoveParts, MovesAccepted DEF SizedId, AccessSize
      <4> QED
        BY <3>1, <4>1, <4>2, SameFields, SameMemory DEF Switch!MoveIsFast
    <3>3. CASE Ent.id \in {"MV_L_DN_D16", "MV_W_DN_D16", "MV_B_DN_D16"}
      <4>1. /\ Line(Opc) \in {1, 2, 3} /\ Opmode(Opc) = 5 /\ Mode(Opc) = 0
            /\ Ent.b = AReg(Dr(Opc)) /\ Ent.c = D16Of(W16)
            /\ Ent.id = SizedId(Opc, "MV_L_DN_D16", "MV_W_DN_D16", "MV_B_DN_D16")
        BY <1>2, <3>3, LineOfId, MoveForms DEF MoveIds
      <4>2. /\ Switch!IsMove(Opc) /\ Switch!MoveSize(Opc) = AccessSize(Ent.id)
            /\ Switch!DstExt(Opc) = Add(2 * cur, 2)
            /\ Switch!PostInc(regs, Mode(Opc), Sr(Opc), Switch!MoveSize(Opc)) = regs
        BY <4>1, MoveParts, MovesAccepted, EntryAddress DEF SizedId, AccessSize, Ready
      <4>3. Switch!DstAddr(Opc) = Add(regs[Ent.b], Ent.c)
        BY <4>1, <4>2, MoveParts, SameFields, SameRegisters, SameMemory, SameArithmetic, SameWidths
           DEF Switch!DstAddr, W16, D16Of
      <4> QED
        BY <3>1, <4>1, <4>2, <4>3, SameFields, SameMemory DEF Switch!MoveIsFast
    <3> QED
      BY <2>2, <3>1, <3>2, <3>3
  <2> QED
    BY <2>1, <2>2 DEF BadAccess
<1> QED
  BY <1>1, <1>2, <1>3 DEF Switch!BadAccess
----------------------------------------------------------------------------
\* Where the program is: m->pc is even and stays put for the whole call.
PlaceInv ==
    /\ mpc \in EvenAddress /\ cur \in Nat
    /\ phase \in {"decode", "elide", "run"} => entry = mpc
    /\ phase = "elide" => cur = mpc \div 2

\* What the sweep has decoded so far it decoded from the present code.
HeadInv ==
    ~modified =>
      /\ phase = "decode" => \A i \in Entries : i < at => HeadAt(i)
      /\ phase \in {"elide", "run"} => \A i \in Entries : HeadAt(i)

SimInv == Inv /\ FlagInv /\ PlaceInv /\ HeadInv

\* The address of an entry is even, also where it wraps.
LEMMA EntryIsEven == ASSUME cur \in Nat PROVE (2 * cur) % LongMod \in EvenAddress
<1>1. PICK h \in Nat \ {0} : LongMod = 2 * h
  <2>1. LongMod = 2 * (LongMod \div 2) /\ LongMod \div 2 \in Nat \ {0}
    BY WidthAssumption
  <2> QED
    BY <2>1
<1>2. (2 * cur) % (2 * h) = 2 * (cur % h) /\ cur % h \in 0..(h - 1)
  <2>1. (2 * cur) % (2 * h) = 2 * (cur % h)
    BY EvenRemainder
  <2>2. cur % h \in 0..(h - 1)
    BY <1>1
  <2> QED
    BY <2>1, <2>2
<1>3. PICK k \in 0..(h - 1) : (2 * cur) % LongMod = 2 * k
  BY <1>1, <1>2
<1>4. 2 * k \in 0..(2 * h - 1) /\ (2 * k) % 2 = 0
  BY <1>3
<1> QED
  BY <1>1, <1>3, <1>4 DEF EvenAddress, Long

\* What the invariant and the guest give the instruction about to run.
LEMMA ReadyToRun ==
  ASSUME SimInv, Tame, Running
  PROVE  /\ Ready /\ (ccr = shadow \/ Dead(cur))
         /\ Ent.id \in Jumps => TargetAt(cur) \in EvenAddress
         /\ Ent.id = "ILLEGAL" => ~Switch!SwitchAccepts(Opc)
<1>1. phase = "run" /\ n > 0 /\ n \in Nat /\ cur \in Entries /\ entry = mpc /\ ~modified
  BY DEF SimInv, Inv, TypeOK, PlaceInv, Tame, KeepsItsCode, Running
<1>2. HeadAt(cur) /\ (ccr = shadow \/ Dead(cur))
  BY <1>1 DEF SimInv, HeadInv, FlagInv
<1> QED
  BY <1>1, <1>2 DEF Ready, Tame, StaysOnInstructions, Ent, Opc

\* Handlers run in the loop only.
LEMMA RunsHere == ExecuteH \/ Illegal \/ BadAccess => Running
<1>1. Illegal \/ BadAccess => Running
  BY DEF Illegal, BadAccess
<1>2. \A id, len, r, x1, m : HPair(id, len, r, x1, m) => Running
  BY DEF HPair, Step
<1>3. \A id, f, next : Step(id, f, next) => Running
  BY DEF Step
<1>4. MoveImm \/ MovePostInc \/ MoveD16 \/ Arith \/ Logic \/ Shift => Running
  BY <1>2 DEF MoveImm, MovePostInc, MoveD16, LoadD16, StoreD16, Arith, Logic, Shift, SetReg, SetRegX
<1>5. Compare \/ AddressRegister \/ Nops \/ Dbra \/ Branch => Running
  BY <1>3 DEF Compare, AddressRegister, Nops, Dbra, Branch
<1> QED
  BY <1>1, <1>4, <1>5 DEF ExecuteH, Execute

\* A guest that keeps to Tame never gets there.
LEMMA TameNeverWild ==
  ASSUME SimInv, Tame PROVE ~Wild /\ ~BadSweep
<1>1. at \in Nat /\ Decoded.len \in 1..3 /\ MPD_ENTRIES \in Nat
  BY DecodedIsGood, RegionAssumption DEF GoodDecoding, SimInv, Inv, TypeOK
<1>2. (phase = "decode" /\ at < MPD_ENTRIES) => SweepReads /\ ~(at + Decoded.len > MPD_ENTRIES)
  BY <1>1 DEF Tame, SweepsToTheEnd
<1>3. (phase = "run" /\ n > 0) => cur \in Entries
  BY DEF Tame, StaysOnInstructions
<1> QED
  BY <1>2, <1>3 DEF Wild, BadSweep

\* No step moves m->pc but to an even address, between calls.
LEMMA PlaceNext == SimInv /\ Tame /\ [NextH]_evars => PlaceInv'
<1> SUFFICES ASSUME SimInv, Tame, [NextH]_evars PROVE PlaceInv'
  OBVIOUS
<1>0. PlaceInv
  BY DEF SimInv
<1>1. CASE SetupH
  <2>1. CODE_BASE \in EvenAddress
    BY ImageAssumption, WidthAssumption DEF EvenAddress, Long
  <2> QED
    BY <1>0, <1>1, <2>1 DEF SetupH, Setup, PlaceInv
<1>2. ASSUME NEW budget \in Budgets, EnterH(budget) PROVE PlaceInv'
  BY <1>0, <1>2 DEF EnterH, Enter, PlaceInv
<1>3. CASE DecodeStepH
  BY <1>0, <1>3 DEF DecodeStepH, DecodeStep, PlaceInv
<1>4. CASE ExecuteH
  <2>1. cur' \in Nat
    BY <1>4, RunsHere, ReadyToRun, ExecuteRetires DEF SimInv
  <2>2. phase' = "run" /\ phase = "run" /\ UNCHANGED <<mpc, entry>>
    BY <1>4, ExecuteEffect DEF ExecuteH, HandlerEffect, SimInv
  <2> QED
    BY <1>0, <2>1, <2>2 DEF PlaceInv
<1>5. CASE DecodeEnd /\ UNCHANGED hvars
  BY <1>0, <1>5, EvenTarget DEF DecodeEnd, hvars, PlaceInv
<1>6. CASE (ElideStep \/ ElideEnd) /\ UNCHANGED hvars
  BY <1>0, <1>6 DEF ElideStep, ElideEnd, hvars, PlaceInv
<1>7. CASE (Illegal \/ BadAccess \/ Leave) /\ UNCHANGED hvars
  BY <1>0, <1>7, EntryIsEven DEF Illegal, BadAccess, Leave, hvars, PlaceInv
<1>8. CASE UNCHANGED evars
  BY <1>0, <1>8 DEF evars, vars, hvars, PlaceInv
<1> QED
  BY <1>1, <1>2, <1>3, <1>4, <1>5, <1>6, <1>7, <1>8, TameNeverWild DEF NextH, Work

\* A head stays one while the table and the code stay.
LEMMA HeadKeeps ==
  ASSUME otab' = otab, \A a \in Swept : ram'[a] = ram[a], NEW i \in Entries, HeadAt(i)
  PROVE  HeadAt(i)'
<1>1. DecodeAt(i)' = DecodeAt(i)
  BY SameDecoding
<1> QED
  BY <1>1 DEF HeadAt

LEMMA HeadDecodeStep ==
  ASSUME SimInv, DecodeStepH, ~modified, NEW i \in Entries, i < at'
  PROVE  HeadAt(i)'
<1> DEFINE len == DecodeAt(at).len
           e   == DecodeAt(at).ent
<1>1. /\ at \in Entries /\ at \in Nat /\ i \in Nat /\ len \in 1..3 /\ at' = at + len
      /\ otab' = Fill(otab, at, e, len) /\ DOMAIN otab = Entries
      /\ phase = "decode" /\ SweepReads
  BY DecodedIsGood, RegionAssumption
     DEF DecodeStepH, DecodeStep, GoodDecoding, SimInv, Inv, TypeOK, Entries, Decoded
<1>2. \A j \in Entries : DecodeAt(j)' = DecodeAt(j)
  BY SameDecoding DEF DecodeStepH, DecodeStep
<1>3. len = 3 => Fast(Add(2 * at, 2), 4)
  BY <1>1, EntryAddress DEF SweepReads, Decoded
<1> HIDE DEF len, e
<1>4. /\ otab'[at] = e
      /\ \A j \in Entries : at < j /\ j < at + len => otab'[j] = Filler(otab[j])
      /\ \A j \in Entries : j < at => otab'[j] = otab[j]
  BY <1>1, FillEntry
<1>5. CASE i < at
  <2>1. HeadAt(i)
    BY <1>1, <1>5 DEF SimInv, HeadInv
  <2>2. otab'[i] = otab[i] /\ DecodeAt(i)' = DecodeAt(i)
    BY <1>2, <1>4, <1>5
  <2> QED
    BY <2>1, <2>2 DEF HeadAt
<1>6. CASE i = at
  BY <1>2, <1>3, <1>4, <1>6 DEF HeadAt, len, e
<1>7. CASE at < i
  <2>1. otab'[i] = Filler(otab[i])
    BY <1>1, <1>4, <1>7
  <2>2. otab'[i].id = "FILLER"
    BY <2>1, FillerFacts
  <2> QED
    BY <2>2 DEF HeadAt
<1> QED
  BY <1>1, <1>5, <1>6, <1>7

\* The sweep decodes present code, and a guest that is Tame keeps it.
LEMMA HeadNext == SimInv /\ Tame /\ [NextH]_evars => HeadInv'
<1> SUFFICES ASSUME SimInv, Tame, [NextH]_evars, ~modified' PROVE HeadInv'
  BY DEF HeadInv
<1>0. ~modified /\ HeadInv /\ Inv
  BY DEF Tame, KeepsItsCode, SimInv
<1>1. CASE DecodeStepH
  BY <1>0, <1>1, HeadDecodeStep DEF DecodeStepH, DecodeStep, HeadInv
<1>2. CASE ExecuteH
  <2>1. phase = "run" /\ phase' = "run" /\ otab' = otab /\ \A a \in Swept : ram'[a] = ram[a]
    BY <1>0, <1>2, ExecuteEffect DEF ExecuteH, HandlerEffect
  <2> QED
    BY <1>0, <2>1, HeadKeeps DEF HeadInv
<1>3. CASE DecodeEnd /\ UNCHANGED hvars
  <2>1. /\ phase = "decode" /\ phase' \in {"elide", "run"} /\ UNCHANGED <<otab, ram>>
        /\ \A i \in Entries : i < at
    BY <1>0, <1>3, RegionAssumption DEF DecodeEnd, hvars, Inv, TypeOK, Entries
  <2> QED
    BY <1>0, <2>1, HeadKeeps DEF HeadInv
<1>4. CASE (ElideStep \/ ElideEnd) /\ UNCHANGED hvars
  <2>1. phase = "elide" /\ phase' \in {"elide", "run"} /\ UNCHANGED <<otab, ram>>
    BY <1>4 DEF ElideStep, ElideEnd, hvars
  <2> QED
    BY <1>0, <2>1, HeadKeeps DEF HeadInv
<1>5. ASSUME NEW budget \in Budgets, EnterH(budget) PROVE HeadInv'
  <2>1. phase' = "decode" /\ at' = 0
    BY <1>5 DEF EnterH, Enter
  <2> QED
    BY <2>1, RegionAssumption DEF HeadInv, Entries
<1>6. CASE SetupH \/ Illegal \/ BadAccess \/ Leave
  BY <1>6 DEF SetupH, Setup, Illegal, BadAccess, Leave, HeadInv
<1>7. CASE UNCHANGED evars
  <2>1. UNCHANGED <<phase, at, otab, ram>>
    BY <1>7 DEF evars, vars, hvars
  <2> QED
    BY <1>0, <2>1, HeadKeeps DEF HeadInv
<1> QED
  BY <1>1, <1>2, <1>3, <1>4, <1>5, <1>6, <1>7, TameNeverWild DEF NextH, Work
----------------------------------------------------------------------------
\* Every step of backend B or C is a step of the switch or invisible to it.
LEMMA StepSimulates == SimInv /\ Tame /\ [NextH]_evars => [Switch!Next]_(Switch!vars)
<1> SUFFICES ASSUME SimInv, Tame, [NextH]_evars PROVE [Switch!Next]_(Switch!vars)
  OBVIOUS
<1>0. PlaceInv /\ Inv
  BY DEF SimInv
<1>s. ASSUME UNCHANGED <<kernel, regs, shadow, x, ram, n, sprints>>,
             SeenMpc' = SeenMpc, SeenPc' = SeenPc, SeenPhase' = SeenPhase
      PROVE  UNCHANGED Switch!vars
  BY <1>s DEF Switch!vars, Switch!cpu
<1>1. CASE SetupH
  <2>1. /\ phase = "idle" /\ phase' = "idle" /\ sprints \in 1..(MaxSprints - 1)
        /\ regs' = ZeroRegs /\ shadow' = ZeroFlags /\ x' = FALSE
        /\ kernel' \in Kernels /\ ram' = Image(kernel') /\ mpc' = CODE_BASE
        /\ UNCHANGED <<n, sprints>>
    BY <1>1 DEF SetupH, Setup
  <2>2. Switch!Setup
    BY <2>1, SameImage DEF Switch!Setup, SeenMpc, SeenPc, SeenPhase
  <2> QED
    BY <2>2 DEF Switch!Next
<1>2. ASSUME NEW budget \in Budgets, EnterH(budget) PROVE Switch!Next
  <2>1. Switch!Enter(budget)
    BY <1>2 DEF EnterH, Enter, cpu, Switch!Enter, Switch!cpu, SeenMpc, SeenPc, SeenPhase
  <2> QED
    BY <2>1 DEF Switch!Next
<1>3. CASE DecodeStepH
  BY <1>3, <1>s DEF DecodeStepH, DecodeStep, cpu, SeenMpc, SeenPc, SeenPhase
<1>4. CASE ExecuteH
  <2>1. Switch!Execute
    BY <1>0, <1>4, RunsHere, ReadyToRun, ExecuteRetires
  <2> QED
    BY <2>1 DEF Switch!Next
<1>5. CASE DecodeEnd /\ UNCHANGED hvars
  <2>1. /\ phase = "decode" /\ phase' \in {"elide", "run"} /\ cur' = mpc \div 2
        /\ UNCHANGED <<kernel, regs, shadow, x, ram, n, sprints, mpc>>
    BY <1>5 DEF DecodeEnd, hvars, cpu
  <2>2. (2 * cur') % LongMod = mpc
    BY <1>0, <2>1, EvenTarget DEF PlaceInv
  <2> QED
    BY <1>s, <2>1, <2>2 DEF SeenMpc, SeenPc, SeenPhase
<1>6. CASE (ElideStep \/ ElideEnd) /\ UNCHANGED hvars
  <2>1. /\ phase = "elide" /\ phase' \in {"elide", "run"} /\ cur = mpc \div 2
        /\ UNCHANGED <<kernel, regs, shadow, x, ram, n, sprints, mpc, cur>>
    BY <1>0, <1>6 DEF ElideStep, ElideEnd, hvars, cpu, PlaceInv
  <2>2. (2 * cur) % LongMod = mpc
    BY <1>0, <2>1, EvenTarget DEF PlaceInv
  <2> QED
    BY <1>s, <2>1, <2>2 DEF SeenMpc, SeenPc, SeenPhase
<1>7. CASE Illegal /\ UNCHANGED hvars
  <2>1. Switch!Illegal
    BY <1>0, <1>7, RunsHere, ReadyToRun, IllegalIsIllegal
  <2> QED
    BY <2>1 DEF Switch!Next
<1>8. CASE BadAccess /\ UNCHANGED hvars
  <2>1. Switch!BadAccess
    BY <1>0, <1>8, RunsHere, ReadyToRun, BadAccessIsBadAccess
  <2> QED
    BY <2>1 DEF Switch!Next
<1>9. CASE Leave /\ UNCHANGED hvars
  <2>1. Switch!Leave
    BY <1>9 DEF Leave, hvars, cpu, Switch!Leave, Switch!cpu, SeenMpc, SeenPc, SeenPhase
  <2> QED
    BY <2>1 DEF Switch!Next
<1>10. CASE UNCHANGED evars
  BY <1>10, <1>s DEF evars, vars, hvars, cpu, SeenMpc, SeenPc, SeenPhase
<1> QED
  BY <1>1, <1>2, <1>3, <1>4, <1>5, <1>6, <1>7, <1>8, <1>9, <1>10, TameNeverWild DEF NextH, Work

\* Initial states satisfy the invariant and are the switch's.
LEMMA SimInit == InitH => SimInv /\ Switch!Init
<1> SUFFICES ASSUME InitH PROVE SimInv /\ Switch!Init
  OBVIOUS
<1>1. Inv
  BY InvInit
<1>2. CODE_BASE \in EvenAddress
  BY ImageAssumption, WidthAssumption DEF EvenAddress, Long
<1>3. FlagInv /\ PlaceInv /\ HeadInv
  BY <1>2 DEF InitH, Init, FlagInv, PlaceInv, HeadInv
<1>4. Switch!Init
  BY SameImage DEF InitH, Init, Switch!Init, SeenMpc, SeenPc, SeenPhase
<1> QED
  BY <1>1, <1>3, <1>4 DEF SimInv

\* Backends B and C are backend A: on every guest that keeps to Tame, whatever
\* the program, the table size and the budgets, each of their calls shows the
\* registers, X, RAM, pc and eager flags of a run of the switch, instruction by
\* instruction, decoding and elision being invisible (bench_main.c:1-10).
THEOREM PredecodedIsSwitch == SpecH /\ []Tame => ImplementsSwitch
<1>1. SimInv /\ Tame /\ [NextH]_evars => SimInv'
  BY InvNext, FlagNext, PlaceNext, HeadNext DEF SimInv
<1> QED
  BY SimInit, <1>1, StepSimulates, PTL DEF SpecH, ImplementsSwitch, Switch!Spec
=============================================================================
