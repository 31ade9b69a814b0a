------------------------------- MODULE PpcPdx -------------------------------
(***************************************************************************)
(* ppc/ppc_pdx_impl.h: the format of backends E (8-byte entries) and F     *)
(* (16-byte entries, `wide`).  The decoder resolves a word into an id and  *)
(* pre-extracted operands; the loop has a case per id and holds no pc, only*)
(* a pointer `cur` into the table.  Here m.pc stands for cur, as 4 * (cur  *)
(* - tab).                                                                 *)
(*                                                                         *)
(* An id is a name and whether it is the _RC one.  The field c of an entry *)
(* holds an operand or, for the ids whose case extracts late, the word:    *)
(* the two uses are the fields c and raw.                                  *)
(***************************************************************************)
EXTENDS PpcImage

\* Registers are byte offsets into the gpr file, kept in a uint8_t.
RO(r) == (4 * r) % 256
ZERO_OFF == 128
GPRO(m, off) == m.gpr[off \div 4]

PdxXo == [key \in {532, 533, 80, 81, 470, 471} |->
    CASE key \in {532, 533} -> "ADD" [] key \in {80, 81} -> "SUBF" [] key \in {470, 471} -> "MULLW"]
PdxLogic == [key \in {56, 57, 888, 889, 632, 633, 48, 1072} |->
    CASE key \in {56, 57} -> "AND" [] key \in {888, 889} -> "OR" [] key \in {632, 633} -> "XOR"
      [] key = 48 -> "SLW" [] key = 1072 -> "SRW"]
PdxMemX == [key \in {46, 558, 174, 302, 814, 430} |->
    CASE key = 46 -> "LWZX" [] key = 558 -> "LHZX" [] key = 174 -> "LBZX"
      [] key = 302 -> "STWX" [] key = 814 -> "STHX" [] key = 430 -> "STBX"]
PdxMemD == [op \in {32, 33, 34, 36, 37, 38, 40, 44} |->
    CASE op = 32 -> "LWZ" [] op = 33 -> "LWZU" [] op = 34 -> "LBZ" [] op = 36 -> "STW"
      [] op = 37 -> "STWU" [] op = 38 -> "STB" [] op = 40 -> "LHZ" [] op = 44 -> "STH"]

\* The base register of an update form.
UpdateBase(i) == RO(i.ra)

\* The base register of the other memory forms: (rA|0).
\* Mutant: rA = 0 is register 0.
MutBase0(i) == RO(i.ra)
Base0(i) == IF i.ra = 0 THEN ZERO_OFF ELSE RO(i.ra)

\* An entry, before the fields only some ids have.
Entry(i, id, a, b, c) ==
    [id |-> id, rc |-> FALSE, a |-> a, b |-> b, c |-> c, d |-> 0, raw |-> i]

\* The entry of a form that may record, or does.
RcEntry(i, id, a, b, c, rc) == [Entry(i, id, a, b, c) EXCEPT !.rc = rc]

\* The entry of a load or store: data register, base register, index or
\* displacement.
\* Mutant: the data and the base register change places.
MutMemEntry(i, id, base, c) == Entry(i, id, base, RO(i.rd), c)
MemEntry(i, id, base, c) == Entry(i, id, RO(i.rd), base, c)

\* The entry of instruction i at guest address addr.
pdx_decode(addr, i, wide) ==
  LET rd == RO(i.rd)
      ra == RO(i.ra)
      rb == RO(P_RB(i))
      crf == 28 - 4 * crfD(i)
      Ent(id, a, b, c) == Entry(i, id, a, b, c)
      RcEnt(id, a, b, c) == RcEntry(i, id, a, b, c, Rc(i))
      Raw(id) == Ent(id, 0, 0, 0)
      AddImm(imm) == IF i.ra = 0 THEN Ent("LI", rd, 0, imm) ELSE Ent("ADDI", rd, ra, imm)
      Target(disp) == Add(addr, disp) \div 4
      Direct == ~Rc(i) /\ ~AA(i)
      CountDown == i.rd = 16 /\ i.ra = 0
  IN CASE i.op = 7  -> Ent("MULLI", rd, ra, P_SIMM(i))
       [] i.op = 10 -> Ent("CMPLWI", ra, crf, P_UIMM(i))
       [] i.op = 11 -> Ent("CMPWI", ra, crf, P_SIMM(i))
       [] i.op = 14 -> AddImm(P_SIMM(i))
       [] i.op = 15 -> AddImm(High(P_SIMM(i)))
       [] i.op = 16 /\ Direct /\ CountDown -> Ent("BDNZ", 0, 0, Target(BD(i)))
       [] i.op = 16 /\ Direct /\ i.rd = 12 -> Ent("BC_T", 31 - i.ra, 0, Target(BD(i)))
       [] i.op = 16 /\ Direct /\ i.rd = 4  -> Ent("BC_F", 31 - i.ra, 0, Target(BD(i)))
       [] i.op = 16 /\ ~(Direct /\ (i.rd \in {4, 12} \/ CountDown)) -> Raw("BC_GEN")
       [] i.op = 18 -> IF Direct THEN Ent("B", 0, 0, Target(LI(i))) ELSE Raw("B_GEN")
       [] i.op = 19 -> Raw("OP19_GEN")
       [] i.op = 21 /\ ~wide -> RcEnt("RLWINM", ra, rd, 0)
       [] i.op = 21 /\ wide ->
             [RcEnt("RLWINM", ra, rd, ppc_mask((i.lo \div 64) % 32, (i.lo \div 2) % 32))
                EXCEPT !.d = P_RB(i)]
       [] i.op = 24 -> Ent("ORI", ra, rd, P_UIMM(i))
       [] i.op = 25 -> Ent("ORI", ra, rd, High(P_UIMM(i)))
       [] i.op = 26 -> Ent("XORI", ra, rd, P_UIMM(i))
       [] i.op = 27 -> Ent("XORI", ra, rd, High(P_UIMM(i)))
       [] i.op = 28 -> RcEntry(i, "ANDI", ra, rd, P_UIMM(i), TRUE)
       [] i.op = 31 /\ Key31(i) = 0  -> Ent("CMPW", ra, crf, rb)
       [] i.op = 31 /\ Key31(i) = 64 -> Ent("CMPLW", ra, crf, rb)
       [] i.op = 31 /\ Key31(i) \in DOMAIN PdxXo    -> RcEnt(PdxXo[Key31(i)], rd, ra, rb)
       [] i.op = 31 /\ Key31(i) \in DOMAIN PdxLogic -> RcEnt(PdxLogic[Key31(i)], ra, rd, rb)
       [] i.op = 31 /\ Key31(i) \in {1648, 1649}    -> RcEnt("SRAWI", ra, P_RB(i), rd)
       [] i.op = 31 /\ Key31(i) \in DOMAIN PdxMemX  -> MemEntry(i, PdxMemX[Key31(i)], Base0(i), rb)
       [] i.op = 31 /\ Key31(i) = 678 /\ Spr(i) = 8 -> Ent("MFLR", rd, 0, 0)
       [] i.op = 31 /\ Key31(i) = 678 /\ Spr(i) = 9 -> Ent("MFCTR", rd, 0, 0)
       [] i.op = 31 /\ Key31(i) = 934 /\ Spr(i) = 8 -> Ent("MTLR", rd, 0, 0)
       [] i.op = 31 /\ Key31(i) = 934 /\ Spr(i) = 9 -> Ent("MTCTR", rd, 0, 0)
       [] i.op \in {33, 37} -> MemEntry(i, PdxMemD[i.op], UpdateBase(i), P_SIMM(i))
       [] i.op \in DOMAIN PdxMemD \ {33, 37} -> MemEntry(i, PdxMemD[i.op], Base0(i), P_SIMM(i))
       [] OTHER -> Raw("ILLEGAL")
----------------------------------------------------------------------------
AluR == {"ADD", "SUBF", "MULLW", "AND", "OR", "XOR", "SLW", "SRW"}
AluI == {"ADDI", "LI", "MULLI", "ORI", "XORI", "ANDI"}
LoadIds == [id \in {"LWZ", "LHZ", "LBZ", "LWZX", "LHZX", "LBZX"} |->
    IF id \in {"LWZ", "LWZX"} THEN 4 ELSE IF id \in {"LHZ", "LHZX"} THEN 2 ELSE 1]
StoreIds == [id \in {"STW", "STH", "STB", "STWX", "STHX", "STBX"} |->
    IF id \in {"STW", "STWX"} THEN 4 ELSE IF id \in {"STH", "STHX"} THEN 2 ELSE 1]
Indexed  == {PdxMemX[key] : key \in DOMAIN PdxMemX}

\* What the ids of the D form compute from the source x and the immediate c.
\* Mutant: the sum is kept in a wider integer.
MutImmediate(id, x, c) == x + c
Immediate(id, x, c) ==
    CASE id = "ADDI"  -> Add(x, c)
      [] id = "LI"    -> c
      [] id = "MULLI" -> (x * c) % LongMod
      [] id = "ORI"   -> Or(x, c)
      [] id = "XORI"  -> Eor(x, c)
      [] id = "ANDI"  -> And(x, c)

\* rlwinm: count and mask were pre-extracted, or are taken from the word now.
Rotate(e, x, wide) ==
    IF wide THEN And(rotl32(x, e.d), e.c)
    ELSE And(rotl32(x, P_RB(e.raw)), ppc_mask((e.raw.lo \div 64) % 32, (e.raw.lo \div 2) % 32))

\* The case of entry e, from the machine whose cur points at it.
PdxStep(m, e, wide) ==
  LET m1   == PastFetch(m)                     \* cur++
      Reg  == e.a \div 4
      RegB == e.b \div 4
      x    == GPRO(m, e.b)
      ea   == Add(x, IF e.id \in Indexed THEN GPRO(m, e.c) ELSE e.c)
      Field(bits)     == [m1 EXCEPT !.cr = PutField(@, e.b, bits)]
      Jump(mm, taken) == IF taken THEN [mm EXCEPT !.pc = 4 * e.c] ELSE mm
      Generic(r)      == [r EXCEPT !.pc = Aligned(@)]        \* tab + (pc >> 2)
  IN CASE e.id \in AluR   -> Write(m1, Reg, Kind(e.id, x, GPRO(m, e.c)), e.rc)
       [] e.id \in AluI   -> Write(m1, Reg, Immediate(e.id, x, e.c), e.rc)
       [] e.id = "SRAWI"  -> Sraw(m1, Reg, GPRO(m, e.c), e.b, e.rc)
       [] e.id = "RLWINM" -> Write(m1, Reg, Rotate(e, x, wide), e.rc)
       [] e.id = "CMPWI"  -> Field(Order(Signed(GPRO(m, e.a)), Signed(e.c)))
       [] e.id = "CMPW"   -> Field(Order(Signed(GPRO(m, e.a)), Signed(GPRO(m, e.c))))
       [] e.id = "CMPLWI" -> Field(Order(GPRO(m, e.a), e.c))
       [] e.id = "CMPLW"  -> Field(Order(GPRO(m, e.a), GPRO(m, e.c)))
       [] e.id \in DOMAIN LoadIds  -> LoadTo(m1, Reg, ea, LoadIds[e.id])
       [] e.id \in DOMAIN StoreIds -> StoreFrom(m1, Reg, ea, StoreIds[e.id])
       [] e.id = "LWZU" -> Update(LoadTo(m1, Reg, ea, 4), RegB, ea)
       [] e.id = "STWU" -> Update(StoreFrom(m1, Reg, ea, 4), RegB, ea)
       [] e.id = "B"    -> Jump(m1, TRUE)
       [] e.id = "BDNZ" -> Jump([m1 EXCEPT !.ctr = Sub(@, 1)], m.ctr # 1)
       [] e.id = "BC_T" -> Jump(m1, e.a \in m.cr)
       [] e.id = "BC_F" -> Jump(m1, e.a \notin m.cr)
       [] e.id = "B_GEN"    -> Generic(gen_b(m1, e.raw))
       [] e.id = "BC_GEN"   -> Generic(gen_bc(m1, e.raw))
       [] e.id = "OP19_GEN" -> Generic(do_op19(m1, e.raw))
       [] e.id = "MTCTR" -> [m1 EXCEPT !.ctr = m.gpr[Reg]]
       [] e.id = "MTLR"  -> [m1 EXCEPT !.lr = m.gpr[Reg]]
       [] e.id = "MFCTR" -> Write(m1, Reg, m.ctr, FALSE)
       [] e.id = "MFLR"  -> Write(m1, Reg, m.lr, FALSE)
       [] e.id = "ILLEGAL" -> ppc_illegal(m1)
=============================================================================
