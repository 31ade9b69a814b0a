---------------------------- MODULE PpcPdx_proofs ----------------------------
(***************************************************************************)
(* The pre-extracted formats run the bodies of ppc_ops.h: the case of the  *)
(* entry an instruction is decoded into does what the instruction does.    *)
(***************************************************************************)
EXTENDS PpcPdx, PpcOps_proofs

\* A register survives being a byte offset in a uint8_t, and zero_base is the
\* one at offset 128.
LEMMA Offsets ==
  /\ \A r \in 0..31 : RO(r) \div 4 = r
  /\ ZERO_OFF \div 4 = ZERO
BY DEF RO, ZERO_OFF, ZERO

LEMMA PdxLists ==
  /\ PdxXo[532] = "ADD" /\ PdxXo[533] = "ADD" /\ PdxXo[80] = "SUBF" /\ PdxXo[81] = "SUBF"
  /\ PdxXo[470] = "MULLW" /\ PdxXo[471] = "MULLW"
  /\ PdxLogic[56] = "AND" /\ PdxLogic[57] = "AND" /\ PdxLogic[888] = "OR" /\ PdxLogic[889] = "OR"
  /\ PdxLogic[632] = "XOR" /\ PdxLogic[633] = "XOR"
  /\ PdxLogic[48] = "SLW" /\ PdxLogic[1072] = "SRW"
  /\ PdxMemX[46] = "LWZX" /\ PdxMemX[558] = "LHZX" /\ PdxMemX[174] = "LBZX"
  /\ PdxMemX[302] = "STWX" /\ PdxMemX[814] = "STHX" /\ PdxMemX[430] = "STBX"
  /\ PdxMemD[32] = "LWZ" /\ PdxMemD[33] = "LWZU" /\ PdxMemD[34] = "LBZ" /\ PdxMemD[36] = "STW"
  /\ PdxMemD[37] = "STWU" /\ PdxMemD[38] = "STB" /\ PdxMemD[40] = "LHZ" /\ PdxMemD[44] = "STH"
BY DEF PdxXo, PdxLogic, PdxMemX, PdxMemD

LEMMA PdxDomains ==
  /\ DOMAIN PdxXo = {532, 533, 80, 81, 470, 471}
  /\ DOMAIN PdxLogic = {56, 57, 888, 889, 632, 633, 48, 1072}
  /\ DOMAIN PdxMemX = {46, 558, 174, 302, 814, 430}
  /\ DOMAIN PdxMemD = {32, 33, 34, 36, 37, 38, 40, 44}
  /\ DOMAIN LoadIds = {"LWZ", "LHZ", "LBZ", "LWZX", "LHZX", "LBZX"}
  /\ DOMAIN StoreIds = {"STW", "STH", "STB", "STWX", "STHX", "STBX"}
BY DEF PdxXo, PdxLogic, PdxMemX, PdxMemD, LoadIds, StoreIds

LEMMA PdxWidths ==
  /\ LoadIds["LWZ"] = 4 /\ LoadIds["LHZ"] = 2 /\ LoadIds["LBZ"] = 1
  /\ LoadIds["LWZX"] = 4 /\ LoadIds["LHZX"] = 2 /\ LoadIds["LBZX"] = 1
  /\ StoreIds["STW"] = 4 /\ StoreIds["STH"] = 2 /\ StoreIds["STB"] = 1
  /\ StoreIds["STWX"] = 4 /\ StoreIds["STHX"] = 2 /\ StoreIds["STBX"] = 1
BY DEF LoadIds, StoreIds

LEMMA IndexedIs == Indexed = {"LWZX", "LHZX", "LBZX", "STWX", "STHX", "STBX"}
<1>1. ASSUME NEW x \in Indexed PROVE x \in {"LWZX", "LHZX", "LBZX", "STWX", "STHX", "STBX"}
  BY PdxLists, PdxDomains DEF Indexed
<1>2. ASSUME NEW x \in {"LWZX", "LHZX", "LBZX", "STWX", "STHX", "STBX"} PROVE x \in Indexed
  BY PdxLists, PdxDomains DEF Indexed
<1> QED
  BY <1>1, <1>2
----------------------------------------------------------------------------
\* Whether an entry records, by name: the provers do not match the literals.
Plain == FALSE
Records == TRUE

\* The loop over entries, a case or a group of cases a lemma.
LEMMA StepAluR ==
  ASSUME NEW m, NEW e, NEW wide, e.id \in AluR
  PROVE  PdxStep(m, e, wide) = Write(PastFetch(m), e.a \div 4,
                                     Kind(e.id, GPRO(m, e.b), GPRO(m, e.c)), e.rc)
<1>1. CASE e.id = "ADD"
  BY <1>1, PdxDomains DEF PdxStep, AluR, AluI
<1>2. CASE e.id = "SUBF"
  BY <1>2, PdxDomains DEF PdxStep, AluR, AluI
<1>3. CASE e.id = "MULLW"
  BY <1>3, PdxDomains DEF PdxStep, AluR, AluI
<1>4. CASE e.id = "AND"
  BY <1>4, PdxDomains DEF PdxStep, AluR, AluI
<1>5. CASE e.id = "OR"
  BY <1>5, PdxDomains DEF PdxStep, AluR, AluI
<1>6. CASE e.id = "XOR"
  BY <1>6, PdxDomains DEF PdxStep, AluR, AluI
<1>7. CASE e.id = "SLW"
  BY <1>7, PdxDomains DEF PdxStep, AluR, AluI
<1>8. CASE e.id = "SRW"
  BY <1>8, PdxDomains DEF PdxStep, AluR, AluI
<1> QED
  BY <1>1, <1>2, <1>3, <1>4, <1>5, <1>6, <1>7, <1>8 DEF AluR

LEMMA StepAluI ==
  ASSUME NEW m, NEW e, NEW wide, e.id \in AluI
  PROVE  PdxStep(m, e, wide) = Write(PastFetch(m), e.a \div 4,
                                     Immediate(e.id, GPRO(m, e.b), e.c), e.rc)
<1>1. CASE e.id = "ADDI"
  BY <1>1, PdxDomains DEF PdxStep, AluR, AluI
<1>2. CASE e.id = "LI"
  BY <1>2, PdxDomains DEF PdxStep, AluR, AluI
<1>3. CASE e.id = "MULLI"
  BY <1>3, PdxDomains DEF PdxStep, AluR, AluI
<1>4. CASE e.id = "ORI"
  BY <1>4, PdxDomains DEF PdxStep, AluR, AluI
<1>5. CASE e.id = "XORI"
  BY <1>5, PdxDomains DEF PdxStep, AluR, AluI
<1>6. CASE e.id = "ANDI"
  BY <1>6, PdxDomains DEF PdxStep, AluR, AluI
<1> QED
  BY <1>1, <1>2, <1>3, <1>4, <1>5, <1>6 DEF AluI

LEMMA StepShift ==
  ASSUME NEW m, NEW e, NEW wide
  PROVE  /\ e.id = "SRAWI" =>
              PdxStep(m, e, wide) = Sraw(PastFetch(m), e.a \div 4, GPRO(m, e.c), e.b, e.rc)
         /\ e.id = "RLWINM" =>
              PdxStep(m, e, wide) = Write(PastFetch(m), e.a \div 4,
                                          Rotate(e, GPRO(m, e.b), wide), e.rc)
<1>1. CASE e.id = "SRAWI"
  BY <1>1, IndexedIs, PdxDomains DEF PdxStep, AluR, AluI
<1>2. CASE e.id = "RLWINM"
  BY <1>2, IndexedIs, PdxDomains DEF PdxStep, AluR, AluI
<1> QED
  BY <1>1, <1>2

LEMMA StepCmp ==
  ASSUME NEW m, NEW e, NEW wide
  PROVE  /\ e.id = "CMPWI" =>
              PdxStep(m, e, wide) = [PastFetch(m) EXCEPT !.cr = PutField(@, e.b, Order(Signed(GPRO(m, e.a)), Signed(e.c)))]
         /\ e.id = "CMPW" =>
              PdxStep(m, e, wide) = [PastFetch(m) EXCEPT !.cr = PutField(@, e.b, Order(Signed(GPRO(m, e.a)), Signed(GPRO(m, e.c))))]
         /\ e.id = "CMPLWI" =>
              PdxStep(m, e, wide) = [PastFetch(m) EXCEPT !.cr = PutField(@, e.b, Order(GPRO(m, e.a), e.c))]
         /\ e.id = "CMPLW" =>
              PdxStep(m, e, wide) = [PastFetch(m) EXCEPT !.cr = PutField(@, e.b, Order(GPRO(m, e.a), GPRO(m, e.c)))]
<1>1. CASE e.id = "CMPWI"
  BY <1>1, IndexedIs, PdxDomains DEF PdxStep, AluR, AluI
<1>2. CASE e.id = "CMPW"
  BY <1>2, IndexedIs, PdxDomains DEF PdxStep, AluR, AluI
<1>3. CASE e.id = "CMPLWI"
  BY <1>3, IndexedIs, PdxDomains DEF PdxStep, AluR, AluI
<1>4. CASE e.id = "CMPLW"
  BY <1>4, IndexedIs, PdxDomains DEF PdxStep, AluR, AluI
<1> QED
  BY <1>1, <1>2, <1>3, <1>4

LEMMA StepMemD ==
  ASSUME NEW m, NEW e, NEW wide
  PROVE  /\ e.id = "LWZ" =>
              PdxStep(m, e, wide) = LoadTo(PastFetch(m), e.a \div 4, Add(GPRO(m, e.b), e.c), LoadIds[e.id])
         /\ e.id = "LHZ" =>
              PdxStep(m, e, wide) = LoadTo(PastFetch(m), e.a \div 4, Add(GPRO(m, e.b), e.c), LoadIds[e.id])
         /\ e.id = "LBZ" =>
              PdxStep(m, e, wide) = LoadTo(PastFetch(m), e.a \div 4, Add(GPRO(m, e.b), e.c), LoadIds[e.id])
         /\ e.id = "STW" =>
              PdxStep(m, e, wide) = StoreFrom(PastFetch(m), e.a \div 4, Add(GPRO(m, e.b), e.c), StoreIds[e.id])
         /\ e.id = "STH" =>
              PdxStep(m, e, wide) = StoreFrom(PastFetch(m), e.a \div 4, Add(GPRO(m, e.b), e.c), StoreIds[e.id])
         /\ e.id = "STB" =>
              PdxStep(m, e, wide) = StoreFrom(PastFetch(m), e.a \div 4, Add(GPRO(m, e.b), e.c), StoreIds[e.id])
         /\ e.id = "LWZU" =>
              PdxStep(m, e, wide) = Update(LoadTo(PastFetch(m), e.a \div 4, Add(GPRO(m, e.b), e.c), 4), e.b \div 4,
                     Add(GPRO(m, e.b), e.c))
         /\ e.id = "STWU" =>
              PdxStep(m, e, wide) = Update(StoreFrom(PastFetch(m), e.a \div 4, Add(GPRO(m, e.b), e.c), 4), e.b \div 4,
                     Add(GPRO(m, e.b), e.c))
<1>1. CASE e.id = "LWZ"
  BY <1>1, IndexedIs, PdxDomains DEF PdxStep, AluR, AluI
<1>2. CASE e.id = "LHZ"
  BY <1>2, IndexedIs, PdxDomains DEF PdxStep, AluR, AluI
<1>3. CASE e.id = "LBZ"
  BY <1>3, IndexedIs, PdxDomains DEF PdxStep, AluR, AluI
<1>4. CASE e.id = "STW"
  BY <1>4, IndexedIs, PdxDomains DEF PdxStep, AluR, AluI
<1>5. CASE e.id = "STH"
  BY <1>5, IndexedIs, PdxDomains DEF PdxStep, AluR, AluI
<1>6. CASE e.id = "STB"
  BY <1>6, IndexedIs, PdxDomains DEF PdxStep, AluR, AluI
<1>7. CASE e.id = "LWZU"
  BY <1>7, IndexedIs, PdxDomains DEF PdxStep, AluR, AluI
<1>8. CASE e.id = "STWU"
  BY <1>8, IndexedIs, PdxDomains DEF PdxStep, AluR, AluI
<1> QED
  BY <1>1, <1>2, <1>3, <1>4, <1>5, <1>6, <1>7, <1>8

LEMMA StepMemX ==
  ASSUME NEW m, NEW e, NEW wide
  PROVE  /\ e.id = "LWZX" =>
              PdxStep(m, e, wide) = LoadTo(PastFetch(m), e.a \div 4, Add(GPRO(m, e.b), GPRO(m, e.c)), LoadIds[e.id])
         /\ e.id = "LHZX" =>
              PdxStep(m, e, wide) = LoadTo(PastFetch(m), e.a \div 4, Add(GPRO(m, e.b), GPRO(m, e.c)), LoadIds[e.id])
         /\ e.id = "LBZX" =>
              PdxStep(m, e, wide) = LoadTo(PastFetch(m), e.a \div 4, Add(GPRO(m, e.b), GPRO(m, e.c)), LoadIds[e.id])
         /\ e.id = "STWX" =>
              PdxStep(m, e, wide) = StoreFrom(PastFetch(m), e.a \div 4, Add(GPRO(m, e.b), GPRO(m, e.c)), StoreIds[e.id])
         /\ e.id = "STHX" =>
              PdxStep(m, e, wide) = StoreFrom(PastFetch(m), e.a \div 4, Add(GPRO(m, e.b), GPRO(m, e.c)), StoreIds[e.id])
         /\ e.id = "STBX" =>
              PdxStep(m, e, wide) = StoreFrom(PastFetch(m), e.a \div 4, Add(GPRO(m, e.b), GPRO(m, e.c)), StoreIds[e.id])
<1>1. CASE e.id = "LWZX"
  BY <1>1, IndexedIs, PdxDomains DEF PdxStep, AluR, AluI
<1>2. CASE e.id = "LHZX"
  BY <1>2, IndexedIs, PdxDomains DEF PdxStep, AluR, AluI
<1>3. CASE e.id = "LBZX"
  BY <1>3, IndexedIs, PdxDomains DEF PdxStep, AluR, AluI
<1>4. CASE e.id = "STWX"
  BY <1>4, IndexedIs, PdxDomains DEF PdxStep, AluR, AluI
<1>5. CASE e.id = "STHX"
  BY <1>5, IndexedIs, PdxDomains DEF PdxStep, AluR, AluI
<1>6. CASE e.id = "STBX"
  BY <1>6, IndexedIs, PdxDomains DEF PdxStep, AluR, AluI
<1> QED
  BY <1>1, <1>2, <1>3, <1>4, <1>5, <1>6

LEMMA StepJump ==
  ASSUME NEW m, NEW e, NEW wide
  PROVE  /\ e.id = "B" =>
              PdxStep(m, e, wide) = [PastFetch(m) EXCEPT !.pc = 4 * e.c]
         /\ e.id = "BC_T" =>
              PdxStep(m, e, wide) = IF e.a \in m.cr THEN [PastFetch(m) EXCEPT !.pc = 4 * e.c] ELSE PastFetch(m)
         /\ e.id = "BC_F" =>
              PdxStep(m, e, wide) = IF e.a \notin m.cr THEN [PastFetch(m) EXCEPT !.pc = 4 * e.c] ELSE PastFetch(m)
<1>1. CASE e.id = "B"
  BY <1>1, IndexedIs, PdxDomains DEF PdxStep, AluR, AluI
<1>2. CASE e.id = "BC_T"
  BY <1>2, IndexedIs, PdxDomains DEF PdxStep, AluR, AluI
<1>3. CASE e.id = "BC_F"
  BY <1>3, IndexedIs, PdxDomains DEF PdxStep, AluR, AluI
<1> QED
  BY <1>1, <1>2, <1>3

LEMMA StepGeneric ==
  ASSUME NEW m, NEW e, NEW wide
  PROVE  /\ e.id = "B_GEN" =>
              PdxStep(m, e, wide) = [gen_b(PastFetch(m), e.raw) EXCEPT !.pc = Aligned(@)]
         /\ e.id = "BC_GEN" =>
              PdxStep(m, e, wide) = [gen_bc(PastFetch(m), e.raw) EXCEPT !.pc = Aligned(@)]
         /\ e.id = "OP19_GEN" =>
              PdxStep(m, e, wide) = [do_op19(PastFetch(m), e.raw) EXCEPT !.pc = Aligned(@)]
<1>1. CASE e.id = "B_GEN"
  BY <1>1, IndexedIs, PdxDomains DEF PdxStep, AluR, AluI
<1>2. CASE e.id = "BC_GEN"
  BY <1>2, IndexedIs, PdxDomains DEF PdxStep, AluR, AluI
<1>3. CASE e.id = "OP19_GEN"
  BY <1>3, IndexedIs, PdxDomains DEF PdxStep, AluR, AluI
<1> QED
  BY <1>1, <1>2, <1>3

\* The cases of the special registers and of an illegal entry.
LEMMA StepIllegal ==
  ASSUME NEW m, NEW e, NEW wide, e.id = "ILLEGAL"
  PROVE  PdxStep(m, e, wide) = ppc_illegal(PastFetch(m))
BY IndexedIs, PdxDomains DEF PdxStep, AluR, AluI

LEMMA StepMoveTo ==
  ASSUME NEW m, NEW e, NEW wide
  PROVE  /\ e.id = "MTLR" => PdxStep(m, e, wide) = [PastFetch(m) EXCEPT !.lr = m.gpr[e.a \div 4]]
         /\ e.id = "MTCTR" => PdxStep(m, e, wide) = [PastFetch(m) EXCEPT !.ctr = m.gpr[e.a \div 4]]
<1>1. CASE e.id = "MTLR"
  BY <1>1, IndexedIs, PdxDomains DEF PdxStep, AluR, AluI
<1>2. CASE e.id = "MTCTR"
  BY <1>2, IndexedIs, PdxDomains DEF PdxStep, AluR, AluI
<1> QED
  BY <1>1, <1>2

LEMMA StepMoveFrom ==
  ASSUME NEW m, NEW e, NEW wide
  PROVE  /\ e.id = "MFLR" => PdxStep(m, e, wide) = Write(PastFetch(m), e.a \div 4, m.lr, Plain)
         /\ e.id = "MFCTR" => PdxStep(m, e, wide) = Write(PastFetch(m), e.a \div 4, m.ctr, Plain)
<1>1. CASE e.id = "MFLR"
  BY <1>1, IndexedIs, PdxDomains DEF PdxStep, AluR, AluI, Plain
<1>2. CASE e.id = "MFCTR"
  BY <1>2, IndexedIs, PdxDomains DEF PdxStep, AluR, AluI, Plain
<1> QED
  BY <1>1, <1>2
----------------------------------------------------------------------------
\* The machines the loops of these formats run, and what the cases must equal.
Ready(m) == IsMachine(m) /\ Aligned4(m) /\ m.gpr[ZERO] = 0
Matches(m, i, wide) == PdxStep(m, pdx_decode(m.pc, i, wide), wide) = Exec(m, i)

LEMMA PastFields ==
  ASSUME NEW m, IsMachine(m)
  PROVE  LET p == PastFetch(m)
         IN /\ p.gpr = m.gpr /\ p.lr = m.lr /\ p.ctr = m.ctr /\ p.cr = m.cr /\ p.ram = m.ram
            /\ p.ca = m.ca /\ p.fate = m.fate /\ p.pc = Add(m.pc, 4)
BY DEF PastFetch, IsMachine

LEMMA EntryFields ==
  \A i, id, a, b, c :
      /\ Entry(i, id, a, b, c).id = id /\ Entry(i, id, a, b, c).rc = FALSE
      /\ Entry(i, id, a, b, c).a = a /\ Entry(i, id, a, b, c).b = b
      /\ Entry(i, id, a, b, c).c = c /\ Entry(i, id, a, b, c).raw = i
BY DEF Entry

LEMMA RcEntryFields ==
  \A i, id, a, b, c, rc :
      /\ RcEntry(i, id, a, b, c, rc).id = id /\ RcEntry(i, id, a, b, c, rc).rc = rc
      /\ RcEntry(i, id, a, b, c, rc).a = a /\ RcEntry(i, id, a, b, c, rc).b = b
      /\ RcEntry(i, id, a, b, c, rc).c = c /\ RcEntry(i, id, a, b, c, rc).raw = i
BY DEF Entry, RcEntry

\* The register numbers, and the operand that names one.
Regs == 0..31

LEMMA Operand ==
  ASSUME NEW m, NEW r \in Regs
  PROVE  GPRO(m, RO(r)) = m.gpr[r] /\ RO(r) \div 4 = r
BY Offsets DEF GPRO, Regs

\* The cases with register operands, from entries that name registers.
LEMMA RunImmediate ==
  ASSUME NEW m, NEW i, NEW wide, NEW d \in Regs, NEW s \in Regs, NEW c, NEW id \in AluI
  PROVE  PdxStep(m, Entry(i, id, RO(d), RO(s), c), wide)
           = Write(PastFetch(m), d, Immediate(id, m.gpr[s], c), Plain)
<1> DEFINE e == Entry(i, id, RO(d), RO(s), c)
<1>1. e.id = id /\ e.a = RO(d) /\ e.b = RO(s) /\ e.c = c /\ e.rc = Plain
  BY EntryFields DEF Plain
<1> HIDE DEF e
<1>2. PdxStep(m, e, wide) = Write(PastFetch(m), e.a \div 4, Immediate(e.id, GPRO(m, e.b), e.c), e.rc)
  BY <1>1, StepAluI
<1>3. PdxStep(m, e, wide) = Write(PastFetch(m), d, Immediate(id, m.gpr[s], c), Plain)
  BY <1>1, <1>2, Operand
<1> QED
  BY <1>3 DEF e

LEMMA RunRecorded ==
  ASSUME NEW m, NEW i, NEW wide, NEW d \in Regs, NEW s \in Regs, NEW c, NEW rc, NEW id \in AluI
  PROVE  PdxStep(m, RcEntry(i, id, RO(d), RO(s), c, rc), wide)
           = Write(PastFetch(m), d, Immediate(id, m.gpr[s], c), rc)
<1> DEFINE e == RcEntry(i, id, RO(d), RO(s), c, rc)
<1>1. e.id = id /\ e.a = RO(d) /\ e.b = RO(s) /\ e.c = c /\ e.rc = rc
  BY RcEntryFields
<1> HIDE DEF e
<1>2. PdxStep(m, e, wide) = Write(PastFetch(m), e.a \div 4, Immediate(e.id, GPRO(m, e.b), e.c), e.rc)
  BY <1>1, StepAluI
<1>3. PdxStep(m, e, wide) = Write(PastFetch(m), d, Immediate(id, m.gpr[s], c), rc)
  BY <1>1, <1>2, Operand
<1> QED
  BY <1>3 DEF e

LEMMA RunRegister ==
  ASSUME NEW m, NEW i, NEW wide, NEW d \in Regs, NEW s \in Regs, NEW t \in Regs, NEW rc, NEW id \in AluR
  PROVE  PdxStep(m, RcEntry(i, id, RO(d), RO(s), RO(t), rc), wide)
           = Write(PastFetch(m), d, Kind(id, m.gpr[s], m.gpr[t]), rc)
<1> DEFINE e == RcEntry(i, id, RO(d), RO(s), RO(t), rc)
<1>1. e.id = id /\ e.a = RO(d) /\ e.b = RO(s) /\ e.c = RO(t) /\ e.rc = rc
  BY RcEntryFields
<1> HIDE DEF e
<1>2. PdxStep(m, e, wide) = Write(PastFetch(m), e.a \div 4, Kind(e.id, GPRO(m, e.b), GPRO(m, e.c)), e.rc)
  BY <1>1, StepAluR
<1>3. PdxStep(m, e, wide) = Write(PastFetch(m), d, Kind(id, m.gpr[s], m.gpr[t]), rc)
  BY <1>1, <1>2, Operand
<1> QED
  BY <1>3 DEF e

LEMMA SameImmediate ==
  ASSUME NEW m, Ready(m), NEW i, IsInsn(i), NEW wide,
         i.op \in {7, 14, 15, 24, 25, 26, 28}
  PROVE  Matches(m, i, wide)
<1> DEFINE e == pdx_decode(m.pc, i, wide)
           p == PastFetch(m)
<1>1. p.gpr = m.gpr /\ IsMachine(m)
  BY PastFields DEF Ready
<1>2. i.rd \in Regs /\ i.ra \in Regs
  BY FieldTypes DEF Regs
<1>3. \A id \in {"ADDI", "LI", "MULLI", "ORI", "XORI", "ANDI"} : id \in AluI
  BY DEF AluI
<1>4. CASE i.op = 7
  <2>1. e = Entry(i, "MULLI", RO(i.rd), RO(i.ra), P_SIMM(i))
    BY <1>4, PdxDomains DEF pdx_decode
  <2> HIDE DEF e
  <2>2. PdxStep(m, e, wide) = Write(p, i.rd, Immediate("MULLI", m.gpr[i.ra], P_SIMM(i)), Plain)
    BY <1>2, <1>3, <2>1, RunImmediate
  <2>3. Exec(m, i) = gen_mulli(p, i)
    BY <1>4, PrimaryIs DEF Exec, PPC_PRIMARY
  <2> QED
    BY <1>1, <1>4, <2>2, <2>3 DEF Matches, gen_mulli, Immediate, Plain, Records, e
<1>5. CASE i.op = 24
  <2>1. e = Entry(i, "ORI", RO(i.ra), RO(i.rd), P_UIMM(i))
    BY <1>5, PdxDomains DEF pdx_decode
  <2> HIDE DEF e
  <2>2. PdxStep(m, e, wide) = Write(p, i.ra, Immediate("ORI", m.gpr[i.rd], P_UIMM(i)), Plain)
    BY <1>2, <1>3, <2>1, RunImmediate
  <2>3. Exec(m, i) = gen_logic_d(p, i, "OR", FALSE, FALSE)
    BY <1>5, PrimaryIs DEF Exec, PPC_PRIMARY
  <2> QED
    BY <1>1, <1>5, <2>2, <2>3 DEF Matches, gen_logic_d, Kind, Immediate, Plain, Records, e
<1>6. CASE i.op = 25
  <2>1. e = Entry(i, "ORI", RO(i.ra), RO(i.rd), High(P_UIMM(i)))
    BY <1>6, PdxDomains DEF pdx_decode
  <2> HIDE DEF e
  <2>2. PdxStep(m, e, wide) = Write(p, i.ra, Immediate("ORI", m.gpr[i.rd], High(P_UIMM(i))), Plain)
    BY <1>2, <1>3, <2>1, RunImmediate
  <2>3. Exec(m, i) = gen_logic_d(p, i, "OR", TRUE, FALSE)
    BY <1>6, PrimaryIs DEF Exec, PPC_PRIMARY
  <2> QED
    BY <1>1, <1>6, <2>2, <2>3 DEF Matches, gen_logic_d, Kind, Immediate, Plain, Records, e
<1>7. CASE i.op = 26
  <2>1. e = Entry(i, "XORI", RO(i.ra), RO(i.rd), P_UIMM(i))
    BY <1>7, PdxDomains DEF pdx_decode
  <2> HIDE DEF e
  <2>2. PdxStep(m, e, wide) = Write(p, i.ra, Immediate("XORI", m.gpr[i.rd], P_UIMM(i)), Plain)
    BY <1>2, <1>3, <2>1, RunImmediate
  <2>3. Exec(m, i) = gen_logic_d(p, i, "XOR", FALSE, FALSE)
    BY <1>7, PrimaryIs DEF Exec, PPC_PRIMARY
  <2> QED
    BY <1>1, <1>7, <2>2, <2>3 DEF Matches, gen_logic_d, Kind, Immediate, Plain, Records, e
<1>8. CASE i.op = 28
  <2>1. e = RcEntry(i, "ANDI", RO(i.ra), RO(i.rd), P_UIMM(i), Records)
    BY <1>8, PdxDomains DEF pdx_decode, Records
  <2> HIDE DEF e
  <2>2. PdxStep(m, e, wide) = Write(p, i.ra, Immediate("ANDI", m.gpr[i.rd], P_UIMM(i)), Records)
    BY <1>2, <1>3, <2>1, RunRecorded
  <2>3. Exec(m, i) = gen_logic_d(p, i, "AND", FALSE, TRUE)
    BY <1>8, PrimaryIs DEF Exec, PPC_PRIMARY
  <2> QED
    BY <1>1, <1>8, <2>2, <2>3 DEF Matches, gen_logic_d, Kind, Immediate, Plain, Records, e
<1>9. CASE i.op = 14 /\ i.ra # 0
  <2>1. e = Entry(i, "ADDI", RO(i.rd), RO(i.ra), P_SIMM(i))
    BY <1>9, PdxDomains DEF pdx_decode
  <2> HIDE DEF e
  <2>2. PdxStep(m, e, wide) = Write(p, i.rd, Immediate("ADDI", m.gpr[i.ra], P_SIMM(i)), Plain)
    BY <1>2, <1>3, <2>1, RunImmediate
  <2>3. Exec(m, i) = gen_addi(p, i, FALSE)
    BY <1>9, PrimaryIs DEF Exec, PPC_PRIMARY
  <2> QED
    BY <1>1, <1>9, <2>2, <2>3 DEF Matches, gen_addi, Base, Immediate, Plain, Records, e
<1>10. CASE i.op = 15 /\ i.ra # 0
  <2>1. e = Entry(i, "ADDI", RO(i.rd), RO(i.ra), High(P_SIMM(i)))
    BY <1>10, PdxDomains DEF pdx_decode
  <2> HIDE DEF e
  <2>2. PdxStep(m, e, wide) = Write(p, i.rd, Immediate("ADDI", m.gpr[i.ra], High(P_SIMM(i))), Plain)
    BY <1>2, <1>3, <2>1, RunImmediate
  <2>3. Exec(m, i) = gen_addi(p, i, TRUE)
    BY <1>10, PrimaryIs DEF Exec, PPC_PRIMARY
  <2> QED
    BY <1>1, <1>10, <2>2, <2>3 DEF Matches, gen_addi, Base, Immediate, Plain, Records, e
<1>11. CASE i.op = 14 /\ i.ra = 0
  <2>1. e = Entry(i, "LI", RO(i.rd), 0, P_SIMM(i))
    BY <1>11, PdxDomains DEF pdx_decode
  <2>2. 0 = RO(0) /\ 0 \in Regs
    BY DEF RO, Regs
  <2>3. e = Entry(i, "LI", RO(i.rd), RO(0), P_SIMM(i))
    BY <2>1, <2>2
  <2> HIDE DEF e
  <2>4. PdxStep(m, e, wide) = Write(p, i.rd, Immediate("LI", m.gpr[0], P_SIMM(i)), Plain)
    BY <1>2, <1>3, <2>2, <2>3, RunImmediate
  <2>5. Exec(m, i) = gen_addi(p, i, FALSE)
    BY <1>11, PrimaryIs DEF Exec, PPC_PRIMARY
  <2>6. Add(0, P_SIMM(i)) = P_SIMM(i)
    BY FieldTypes, LongFacts DEF Add, Long
  <2> QED
    BY <1>11, <2>4, <2>5, <2>6 DEF Matches, gen_addi, Base, Immediate, Plain, Records, e
<1>12. CASE i.op = 15 /\ i.ra = 0
  <2>1. e = Entry(i, "LI", RO(i.rd), 0, High(P_SIMM(i)))
    BY <1>12, PdxDomains DEF pdx_decode
  <2>2. 0 = RO(0) /\ 0 \in Regs
    BY DEF RO, Regs
  <2>3. e = Entry(i, "LI", RO(i.rd), RO(0), High(P_SIMM(i)))
    BY <2>1, <2>2
  <2> HIDE DEF e
  <2>4. PdxStep(m, e, wide) = Write(p, i.rd, Immediate("LI", m.gpr[0], High(P_SIMM(i))), Plain)
    BY <1>2, <1>3, <2>2, <2>3, RunImmediate
  <2>5. Exec(m, i) = gen_addi(p, i, TRUE)
    BY <1>12, PrimaryIs DEF Exec, PPC_PRIMARY
  <2>6. Add(0, High(P_SIMM(i))) = High(P_SIMM(i))
    BY FieldTypes, LongFacts DEF Add, Long
  <2> QED
    BY <1>12, <2>4, <2>5, <2>6 DEF Matches, gen_addi, Base, Immediate, Plain, Records, e
<1> QED
  BY <1>4, <1>5, <1>6, <1>7, <1>8, <1>9, <1>10, <1>11, <1>12

\* The instruction of primary opcode 31, by its key.
LEMMA ListedKeys ==
  PPC_OP31 = {532, 533, 80, 81, 470, 471, 56, 57, 888, 889, 632, 633, 48, 1072,
              46, 558, 174, 302, 814, 430, 0, 64, 1648, 1649, 678, 934}
<1> DEFINE keys == {532, 533, 80, 81, 470, 471, 56, 57, 888, 889, 632, 633, 48, 1072,
                    46, 558, 174, 302, 814, 430, 0, 64, 1648, 1649, 678, 934}
<1>1. PPC_OP31 \subseteq keys
  BY Lists DEF PPC_OP31, Recorded31
<1>2. keys \subseteq PPC_OP31
  BY Lists DEF PPC_OP31, Recorded31
<1> HIDE DEF keys
<1>3. PPC_OP31 = keys
  BY <1>1, <1>2
<1> QED
  BY <1>3 DEF keys

LEMMA ExecOp31 ==
  ASSUME NEW m, NEW i, i.op = 31
  PROVE  /\ Key31(i) \in PPC_OP31 => Exec(m, i) = Op31(Key31(i), PastFetch(m), i)
         /\ Key31(i) \notin PPC_OP31 => Exec(m, i) = ppc_illegal(PastFetch(m))
<1>1. 31 \in PPC_PRIMARY
  BY DEF PPC_PRIMARY
<1>2. Exec(m, i) = do_op31(PastFetch(m), i)
  BY <1>1, PrimaryIs DEF Exec
<1> QED
  BY <1>2 DEF do_op31

\* The rows of the list whose body takes a literal, their keys by name.
KeyCmp   == 0
KeyCmpl  == 64
KeyMfspr == 678
KeyMtspr == 934
LEMMA Op31Literal ==
  /\ \A m, i : Op31(KeyCmp, m, i) = gen_cmp(m, i, FALSE, FALSE)
  /\ \A m, i : Op31(KeyCmpl, m, i) = gen_cmp(m, i, FALSE, TRUE)
  /\ \A m, i : Op31(KeyMfspr, m, i) = gen_mspr(m, i, FALSE)
  /\ \A m, i : Op31(KeyMtspr, m, i) = gen_mspr(m, i, TRUE)
BY Lists, EvenKeys DEF Op31, KeyCmp, KeyCmpl, KeyMfspr, KeyMtspr

LEMMA ExecLiteral ==
  ASSUME NEW m, NEW i, i.op = 31
  PROVE  /\ Key31(i) = KeyCmp => Exec(m, i) = gen_cmp(PastFetch(m), i, FALSE, FALSE)
         /\ Key31(i) = KeyCmpl => Exec(m, i) = gen_cmp(PastFetch(m), i, FALSE, TRUE)
         /\ Key31(i) = KeyMfspr => Exec(m, i) = gen_mspr(PastFetch(m), i, FALSE)
         /\ Key31(i) = KeyMtspr => Exec(m, i) = gen_mspr(PastFetch(m), i, TRUE)
<1>1. \A k \in {KeyCmp, KeyCmpl, KeyMfspr, KeyMtspr} :
         Key31(i) = k => Exec(m, i) = Op31(k, PastFetch(m), i)
  BY ListedKeys, ExecOp31 DEF KeyCmp, KeyCmpl, KeyMfspr, KeyMtspr
<1> QED
  BY <1>1, Op31Literal, Zenon

LEMMA MsprElse ==
  ASSUME NEW m, NEW i, NEW to_spr, Spr(i) \notin {8, 9}
  PROVE  gen_mspr(m, i, to_spr) = ppc_illegal(m)
BY DEF gen_mspr

LEMMA SameCompare ==
  ASSUME NEW m, Ready(m), NEW i, IsInsn(i), NEW wide,
         i.op \in {10, 11} \/ (i.op = 31 /\ Key31(i) \in {KeyCmp, KeyCmpl})
  PROVE  Matches(m, i, wide)
<1> DEFINE e == pdx_decode(m.pc, i, wide)
           p == PastFetch(m)
           f == 28 - 4 * crfD(i)
<1>1. p.gpr = m.gpr
  BY PastFields DEF Ready
<1>2. i.rd \in Regs /\ i.ra \in Regs /\ P_RB(i) \in Regs
  BY FieldTypes DEF Regs
<1>3. CASE i.op = 10
  <2>1. e = Entry(i, "CMPLWI", RO(i.ra), f, P_UIMM(i))
    BY <1>3, PdxDomains DEF pdx_decode
  <2>2. e.id = "CMPLWI" /\ e.a = RO(i.ra) /\ e.b = f /\ e.c = P_UIMM(i)
    BY <2>1, EntryFields
  <2> HIDE DEF e
  <2>3. PdxStep(m, e, wide) = [p EXCEPT !.cr = PutField(@, f, Order(m.gpr[i.ra], P_UIMM(i)))]
    BY <1>2, <2>2, StepCmp, Operand
  <2>4. Exec(m, i) = gen_cmp(p, i, TRUE, TRUE)
    BY <1>3, PrimaryIs DEF Exec, PPC_PRIMARY
  <2> QED
    BY <1>1, <2>3, <2>4 DEF Matches, gen_cmp, set_crf, e
<1>4. CASE i.op = 11
  <2>1. e = Entry(i, "CMPWI", RO(i.ra), f, P_SIMM(i))
    BY <1>4, PdxDomains DEF pdx_decode
  <2>2. e.id = "CMPWI" /\ e.a = RO(i.ra) /\ e.b = f /\ e.c = P_SIMM(i)
    BY <2>1, EntryFields
  <2> HIDE DEF e
  <2>3. PdxStep(m, e, wide) = [p EXCEPT !.cr = PutField(@, f, Order(Signed(m.gpr[i.ra]), Signed(P_SIMM(i))))]
    BY <1>2, <2>2, StepCmp, Operand
  <2>4. Exec(m, i) = gen_cmp(p, i, TRUE, FALSE)
    BY <1>4, PrimaryIs DEF Exec, PPC_PRIMARY
  <2> QED
    BY <1>1, <2>3, <2>4 DEF Matches, gen_cmp, set_crf, e
<1>5. CASE i.op = 31 /\ Key31(i) = KeyCmp
  <2>1. e = Entry(i, "CMPW", RO(i.ra), f, RO(P_RB(i)))
    BY <1>5, PdxDomains DEF pdx_decode, KeyCmp
  <2>2. e.id = "CMPW" /\ e.a = RO(i.ra) /\ e.b = f /\ e.c = RO(P_RB(i))
    BY <2>1, EntryFields
  <2> HIDE DEF e
  <2>3. PdxStep(m, e, wide)
          = [p EXCEPT !.cr = PutField(@, f, Order(Signed(m.gpr[i.ra]), Signed(m.gpr[P_RB(i)])))]
    BY <1>2, <2>2, StepCmp, Operand
  <2>4. Exec(m, i) = gen_cmp(p, i, FALSE, FALSE)
    BY <1>5, ExecLiteral, Zenon
  <2> QED
    BY <1>1, <2>3, <2>4 DEF Matches, gen_cmp, set_crf, e
<1>6. CASE i.op = 31 /\ Key31(i) = KeyCmpl
  <2>1. e = Entry(i, "CMPLW", RO(i.ra), f, RO(P_RB(i)))
    BY <1>6, PdxDomains DEF pdx_decode, KeyCmpl
  <2>2. e.id = "CMPLW" /\ e.a = RO(i.ra) /\ e.b = f /\ e.c = RO(P_RB(i))
    BY <2>1, EntryFields
  <2> HIDE DEF e
  <2>3. PdxStep(m, e, wide)
          = [p EXCEPT !.cr = PutField(@, f, Order(m.gpr[i.ra], m.gpr[P_RB(i)]))]
    BY <1>2, <2>2, StepCmp, Operand
  <2>4. Exec(m, i) = gen_cmp(p, i, FALSE, TRUE)
    BY <1>6, ExecLiteral, Zenon
  <2> QED
    BY <1>1, <2>3, <2>4 DEF Matches, gen_cmp, set_crf, e
<1> QED
  BY <1>3, <1>4, <1>5, <1>6

LEMMA SameRotate ==
  ASSUME NEW m, Ready(m), NEW i, IsInsn(i), NEW wide, i.op = 21
  PROVE  Matches(m, i, wide)
<1> DEFINE e == pdx_decode(m.pc, i, wide)
           p == PastFetch(m)
           mask == ppc_mask((i.lo \div 64) % 32, (i.lo \div 2) % 32)
<1>1. p.gpr = m.gpr
  BY PastFields DEF Ready
<1>2. i.rd \in Regs /\ i.ra \in Regs
  BY FieldTypes DEF Regs
<1>3. /\ e.id = "RLWINM" /\ e.a = RO(i.ra) /\ e.b = RO(i.rd) /\ e.rc = Rc(i)
      /\ wide => e.c = mask /\ e.d = P_RB(i)
      /\ ~wide => e.raw = i
  <2>1. CASE wide
    <3>1. e = [RcEntry(i, "RLWINM", RO(i.ra), RO(i.rd), mask, Rc(i)) EXCEPT !.d = P_RB(i)]
      BY <2>1, PdxDomains DEF pdx_decode
    <3> HIDE DEF mask
    <3> QED
      BY <2>1, <3>1 DEF Entry, RcEntry
  <2>2. CASE ~wide
    <3>1. e = RcEntry(i, "RLWINM", RO(i.ra), RO(i.rd), 0, Rc(i))
      BY <2>2, PdxDomains DEF pdx_decode
    <3> QED
      BY <2>2, <3>1, RcEntryFields
  <2> QED
    BY <2>1, <2>2
<1> HIDE DEF e
<1>4. Rotate(e, GPRO(m, e.b), wide) = And(rotl32(m.gpr[i.rd], P_RB(i)), mask)
  <2>1. GPRO(m, e.b) = m.gpr[i.rd]
    BY <1>2, <1>3, Operand
  <2> QED
    BY <1>3, <2>1 DEF Rotate
<1>5. PdxStep(m, e, wide) = Write(p, i.ra, And(rotl32(m.gpr[i.rd], P_RB(i)), mask), Rc(i))
  BY <1>2, <1>3, <1>4, StepShift, Operand
<1>6. Exec(m, i) = gen_rlwinm(p, i)
  BY PrimaryIs DEF Exec, PPC_PRIMARY
<1> QED
  BY <1>1, <1>5, <1>6 DEF Matches, gen_rlwinm, e
----------------------------------------------------------------------------
\* Where the list of the formats and the list of ppc_ops.h name the same entry.
LEMMA SameArith ==
  ASSUME NEW key \in DOMAIN PdxXo, NEW m, NEW i
  PROVE  Op31(key, m, i) = gen_xo_arith(m, i, PdxXo[key], Odd(key)) /\ PdxXo[key] \in AluR
<1>1. CASE key = 532
  BY <1>1, Op31Is, PdxLists DEF AluR
<1>2. CASE key = 533
  BY <1>2, Op31Is, PdxLists DEF AluR
<1>3. CASE key = 80
  BY <1>3, Op31Is, PdxLists DEF AluR
<1>4. CASE key = 81
  BY <1>4, Op31Is, PdxLists DEF AluR
<1>5. CASE key = 470
  BY <1>5, Op31Is, PdxLists DEF AluR
<1>6. CASE key = 471
  BY <1>6, Op31Is, PdxLists DEF AluR
<1> QED
  BY <1>1, <1>2, <1>3, <1>4, <1>5, <1>6, PdxDomains

LEMMA SameLogic ==
  ASSUME NEW key \in DOMAIN PdxLogic, NEW m, NEW i
  PROVE  Op31(key, m, i) = gen_x_logic(m, i, PdxLogic[key], Odd(key)) /\ PdxLogic[key] \in AluR
<1>1. CASE key = 56
  BY <1>1, Op31Is, PdxLists DEF AluR
<1>2. CASE key = 57
  BY <1>2, Op31Is, PdxLists DEF AluR
<1>3. CASE key = 888
  BY <1>3, Op31Is, PdxLists DEF AluR
<1>4. CASE key = 889
  BY <1>4, Op31Is, PdxLists DEF AluR
<1>5. CASE key = 632
  BY <1>5, Op31Is, PdxLists DEF AluR
<1>6. CASE key = 633
  BY <1>6, Op31Is, PdxLists DEF AluR
<1>7. CASE key = 48
  BY <1>7, Op31Is, PdxLists DEF AluR
<1>8. CASE key = 1072
  BY <1>8, Op31Is, PdxLists DEF AluR
<1> QED
  BY <1>1, <1>2, <1>3, <1>4, <1>5, <1>6, <1>7, <1>8, PdxDomains

LEMMA KeyRecords == ASSUME NEW i, IsInsn(i) PROVE Rc(i) <=> Odd(Key31(i))
<1>1. i.lo \in Int
  BY HalfwordType DEF IsInsn
<1> QED
  BY <1>1 DEF Rc, Odd, Key31

\* Writing with either of two equivalent flags.
LEMMA WriteEither ==
  ASSUME NEW m, NEW d, NEW r, NEW x, NEW y, x <=> y
  PROVE  Write(m, d, r, x) = Write(m, d, r, y)
BY DEF Write

LEMMA SameRegister ==
  ASSUME NEW m, Ready(m), NEW i, IsInsn(i), NEW wide, i.op = 31,
         Key31(i) \in DOMAIN PdxXo \cup DOMAIN PdxLogic
  PROVE  Matches(m, i, wide)
<1> DEFINE e == pdx_decode(m.pc, i, wide)
           p == PastFetch(m)
           key == Key31(i)
<1>1. p.gpr = m.gpr
  BY PastFields DEF Ready
<1>2. i.rd \in Regs /\ i.ra \in Regs /\ P_RB(i) \in Regs
  BY FieldTypes DEF Regs
<1>3. CASE key \in DOMAIN PdxXo
  <2>1. e = RcEntry(i, PdxXo[key], RO(i.rd), RO(i.ra), RO(P_RB(i)), Rc(i))
    BY <1>3, PdxDomains DEF pdx_decode
  <2>2. Exec(m, i) = Op31(key, p, i)
    BY <1>3, PdxDomains, ListedKeys, ExecOp31
  <2>3. Op31(key, p, i) = gen_xo_arith(p, i, PdxXo[key], Odd(key))
    BY <1>3, SameArith
  <2>4. PdxXo[key] \in AluR
    BY <1>3, SameArith
  <2> HIDE DEF e, key, p
  <2>5. PdxStep(m, e, wide) = Write(PastFetch(m), i.rd, Kind(PdxXo[key], m.gpr[i.ra], m.gpr[P_RB(i)]), Rc(i))
    BY <1>2, <2>1, <2>4, RunRegister
  <2>6. Exec(m, i) = Write(p, i.rd, Kind(PdxXo[key], m.gpr[i.ra], m.gpr[P_RB(i)]), Odd(key))
    BY <1>1, <2>2, <2>3 DEF gen_xo_arith
  <2>7. Rc(i) <=> Odd(key)
    BY KeyRecords DEF key
  <2> QED
    BY <2>5, <2>6, <2>7, WriteEither DEF Matches, e, p
<1>4. CASE key \in DOMAIN PdxLogic
  <2>1. e = RcEntry(i, PdxLogic[key], RO(i.ra), RO(i.rd), RO(P_RB(i)), Rc(i))
    BY <1>4, PdxDomains DEF pdx_decode
  <2>2. Exec(m, i) = Op31(key, p, i)
    BY <1>4, PdxDomains, ListedKeys, ExecOp31
  <2>3. Op31(key, p, i) = gen_x_logic(p, i, PdxLogic[key], Odd(key))
    BY <1>4, SameLogic
  <2>4. PdxLogic[key] \in AluR
    BY <1>4, SameLogic
  <2> HIDE DEF e, key, p
  <2>5. PdxStep(m, e, wide) = Write(PastFetch(m), i.ra, Kind(PdxLogic[key], m.gpr[i.rd], m.gpr[P_RB(i)]), Rc(i))
    BY <1>2, <2>1, <2>4, RunRegister
  <2>6. Exec(m, i) = Write(p, i.ra, Kind(PdxLogic[key], m.gpr[i.rd], m.gpr[P_RB(i)]), Odd(key))
    BY <1>1, <2>2, <2>3 DEF gen_x_logic
  <2>7. Rc(i) <=> Odd(key)
    BY KeyRecords DEF key
  <2> QED
    BY <2>5, <2>6, <2>7, WriteEither DEF Matches, e, p
<1> QED
  BY <1>3, <1>4

LEMMA SameSrawi ==
  ASSUME NEW m, Ready(m), NEW i, IsInsn(i), NEW wide, i.op = 31, Key31(i) \in {1648, 1649}
  PROVE  Matches(m, i, wide)
<1> DEFINE e == pdx_decode(m.pc, i, wide)
           p == PastFetch(m)
           key == Key31(i)
<1>1. p.gpr = m.gpr
  BY PastFields DEF Ready
<1>2. i.rd \in Regs /\ i.ra \in Regs
  BY FieldTypes DEF Regs
<1>3. e = RcEntry(i, "SRAWI", RO(i.ra), P_RB(i), RO(i.rd), Rc(i))
  BY PdxDomains DEF pdx_decode
<1>4. e.id = "SRAWI" /\ e.a = RO(i.ra) /\ e.b = P_RB(i) /\ e.c = RO(i.rd) /\ e.rc = Rc(i)
  BY <1>3, RcEntryFields
<1>5. Exec(m, i) = Op31(key, p, i)
  BY ListedKeys, ExecOp31
<1>6. Op31(key, p, i) = gen_srawi(p, i, Odd(key))
  BY Op31Is
<1>7. Rc(i) <=> Odd(key)
  BY KeyRecords
<1> HIDE DEF e, key, p
<1>8. PdxStep(m, e, wide) = Sraw(PastFetch(m), i.ra, m.gpr[i.rd], P_RB(i), Rc(i))
  BY <1>2, <1>4, StepShift, Operand
<1>9. Exec(m, i) = Sraw(p, i.ra, m.gpr[i.rd], P_RB(i), Odd(key))
  BY <1>1, <1>5, <1>6 DEF gen_srawi
<1> QED
  BY <1>7, <1>8, <1>9, WriteEither DEF Matches, Sraw, e, p
----------------------------------------------------------------------------
\* The rows of the primary list for loads and stores, against the widths of
\* the ids.
LEMMA LoadRows ==
  ASSUME NEW op \in {32, 34, 40}, NEW m, NEW i
  PROVE  /\ op \in PPC_PRIMARY
         /\ Primary(op, m, i) = LoadTo(m, i.rd, EaD(m, i), LoadIds[PdxMemD[op]])
<1>1. CASE op = 32
  BY <1>1, PrimaryIs, PdxLists, PdxWidths DEF gen_load_d, PPC_PRIMARY
<1>2. CASE op = 34
  BY <1>2, PrimaryIs, PdxLists, PdxWidths DEF gen_load_d, PPC_PRIMARY
<1>3. CASE op = 40
  BY <1>3, PrimaryIs, PdxLists, PdxWidths DEF gen_load_d, PPC_PRIMARY
<1> QED
  BY <1>1, <1>2, <1>3

LEMMA StoreRows ==
  ASSUME NEW op \in {36, 38, 44}, NEW m, NEW i
  PROVE  /\ op \in PPC_PRIMARY
         /\ Primary(op, m, i) = StoreFrom(m, i.rd, EaD(m, i), StoreIds[PdxMemD[op]])
<1>1. CASE op = 36
  BY <1>1, PrimaryIs, PdxLists, PdxWidths DEF gen_store_d, PPC_PRIMARY
<1>2. CASE op = 38
  BY <1>2, PrimaryIs, PdxLists, PdxWidths DEF gen_store_d, PPC_PRIMARY
<1>3. CASE op = 44
  BY <1>3, PrimaryIs, PdxLists, PdxWidths DEF gen_store_d, PPC_PRIMARY
<1> QED
  BY <1>1, <1>2, <1>3

LEMMA IndexedRows ==
  /\ \A key \in {46, 558, 174} : \A m, i :
       Op31(key, m, i) = LoadTo(m, i.rd, EaX(m, i), LoadIds[PdxMemX[key]])
  /\ \A key \in {302, 814, 430} : \A m, i :
       Op31(key, m, i) = StoreFrom(m, i.rd, EaX(m, i), StoreIds[PdxMemX[key]])
<1>1. ASSUME NEW key \in {46, 558, 174}, NEW m, NEW i
      PROVE  Op31(key, m, i) = LoadTo(m, i.rd, EaX(m, i), LoadIds[PdxMemX[key]])
  <2>1. CASE key = 46
    BY <2>1, Op31Is, PdxLists, PdxWidths DEF gen_load_x
  <2>2. CASE key = 558
    BY <2>2, Op31Is, PdxLists, PdxWidths DEF gen_load_x
  <2>3. CASE key = 174
    BY <2>3, Op31Is, PdxLists, PdxWidths DEF gen_load_x
  <2> QED
    BY <2>1, <2>2, <2>3
<1>2. ASSUME NEW key \in {302, 814, 430}, NEW m, NEW i
      PROVE  Op31(key, m, i) = StoreFrom(m, i.rd, EaX(m, i), StoreIds[PdxMemX[key]])
  <2>1. CASE key = 302
    BY <2>1, Op31Is, PdxLists, PdxWidths DEF gen_store_x
  <2>2. CASE key = 814
    BY <2>2, Op31Is, PdxLists, PdxWidths DEF gen_store_x
  <2>3. CASE key = 430
    BY <2>3, Op31Is, PdxLists, PdxWidths DEF gen_store_x
  <2> QED
    BY <2>1, <2>2, <2>3
<1> QED
  BY <1>1, <1>2

\* zero_base stands for rA = 0 because it holds zero.
LEMMA BaseOperand ==
  ASSUME NEW m, Ready(m), NEW i, IsInsn(i)
  PROVE  GPRO(m, Base0(i)) = Base(PastFetch(m), i.ra)
<1>1. PastFetch(m).gpr = m.gpr
  BY PastFields DEF Ready
<1>2. CASE i.ra = 0
  BY <1>2, Offsets DEF Base0, Base, GPRO, Ready
<1>3. CASE i.ra # 0
  <2>1. i.ra \in Regs
    BY FieldTypes DEF Regs
  <2> QED
    BY <1>1, <1>3, <2>1, Operand DEF Base0, Base
<1> QED
  BY <1>2, <1>3

LEMMA MemFields ==
  \A i, id, base, c : LET e == MemEntry(i, id, base, c)
                      IN e.id = id /\ e.a = RO(i.rd) /\ e.b = base /\ e.c = c
BY EntryFields DEF MemEntry

LEMMA SameMemory ==
  ASSUME NEW m, Ready(m), NEW i, IsInsn(i), NEW wide,
         i.op \in {32, 34, 36, 38, 40, 44} \/ (i.op = 31 /\ Key31(i) \in DOMAIN PdxMemX)
  PROVE  Matches(m, i, wide)
<1> DEFINE e == pdx_decode(m.pc, i, wide)
           p == PastFetch(m)
<1>1. p.gpr = m.gpr
  BY PastFields DEF Ready
<1>2. i.rd \in Regs /\ P_RB(i) \in Regs
  BY FieldTypes DEF Regs
<1>3. GPRO(m, Base0(i)) = Base(p, i.ra)
  BY BaseOperand
<1>4. CASE i.op \in {32, 34, 36, 38, 40, 44}
  <2>1. e = MemEntry(i, PdxMemD[i.op], Base0(i), P_SIMM(i))
    <3>1. CASE i.op = 32
      BY <3>1, PdxDomains DEF pdx_decode
    <3>2. CASE i.op = 34
      BY <3>2, PdxDomains DEF pdx_decode
    <3>3. CASE i.op = 36
      BY <3>3, PdxDomains DEF pdx_decode
    <3>4. CASE i.op = 38
      BY <3>4, PdxDomains DEF pdx_decode
    <3>5. CASE i.op = 40
      BY <3>5, PdxDomains DEF pdx_decode
    <3>6. CASE i.op = 44
      BY <3>6, PdxDomains DEF pdx_decode
    <3> QED
      BY <1>4, <3>1, <3>2, <3>3, <3>4, <3>5, <3>6
  <2>2. e.id = PdxMemD[i.op] /\ e.a = RO(i.rd) /\ e.b = Base0(i) /\ e.c = P_SIMM(i)
    BY <2>1, MemFields
  <2> HIDE DEF e
  <2>3. Add(GPRO(m, e.b), e.c) = EaD(p, i) /\ e.a \div 4 = i.rd
    BY <1>2, <1>3, <2>2, Operand DEF EaD
  <2>4. CASE i.op \in {32, 34, 40}
    <3>1. e.id \in {"LWZ", "LHZ", "LBZ"}
      BY <2>2, <2>4, PdxLists
    <3>2. PdxStep(m, e, wide) = LoadTo(p, i.rd, EaD(p, i), LoadIds[e.id])
      BY <2>3, <3>1, StepMemD
    <3>3. Exec(m, i) = LoadTo(p, i.rd, EaD(p, i), LoadIds[PdxMemD[i.op]])
      BY <2>4, LoadRows DEF Exec
    <3> QED
      BY <2>2, <3>2, <3>3 DEF Matches, e
  <2>5. CASE i.op \in {36, 38, 44}
    <3>1. e.id \in {"STW", "STH", "STB"}
      BY <2>2, <2>5, PdxLists
    <3>2. PdxStep(m, e, wide) = StoreFrom(p, i.rd, EaD(p, i), StoreIds[e.id])
      BY <2>3, <3>1, StepMemD
    <3>3. Exec(m, i) = StoreFrom(p, i.rd, EaD(p, i), StoreIds[PdxMemD[i.op]])
      BY <2>5, StoreRows DEF Exec
    <3> QED
      BY <2>2, <3>2, <3>3 DEF Matches, e
  <2> QED
    BY <1>4, <2>4, <2>5
<1>5. CASE i.op = 31 /\ Key31(i) \in DOMAIN PdxMemX
  <2> DEFINE key == Key31(i)
  <2>1. e = MemEntry(i, PdxMemX[key], Base0(i), RO(P_RB(i)))
    BY <1>5, PdxDomains DEF pdx_decode
  <2>2. e.id = PdxMemX[key] /\ e.a = RO(i.rd) /\ e.b = Base0(i) /\ e.c = RO(P_RB(i))
    BY <2>1, MemFields
  <2>3. Exec(m, i) = Op31(key, p, i)
    BY <1>5, PdxDomains, ListedKeys, ExecOp31
  <2> HIDE DEF e
  <2>4. Add(GPRO(m, e.b), GPRO(m, e.c)) = EaX(p, i) /\ e.a \div 4 = i.rd
    BY <1>1, <1>2, <1>3, <2>2, Operand DEF EaX
  <2>5. CASE key \in {46, 558, 174}
    <3>1. e.id \in {"LWZX", "LHZX", "LBZX"}
      BY <2>2, <2>5, PdxLists
    <3>2. PdxStep(m, e, wide) = LoadTo(p, i.rd, EaX(p, i), LoadIds[e.id])
      BY <2>4, <3>1, StepMemX
    <3>3. Exec(m, i) = LoadTo(p, i.rd, EaX(p, i), LoadIds[PdxMemX[key]])
      BY <2>3, <2>5, IndexedRows
    <3> QED
      BY <2>2, <3>2, <3>3 DEF Matches, e
  <2>6. CASE key \in {302, 814, 430}
    <3>1. e.id \in {"STWX", "STHX", "STBX"}
      BY <2>2, <2>6, PdxLists
    <3>2. PdxStep(m, e, wide) = StoreFrom(p, i.rd, EaX(p, i), StoreIds[e.id])
      BY <2>4, <3>1, StepMemX
    <3>3. Exec(m, i) = StoreFrom(p, i.rd, EaX(p, i), StoreIds[PdxMemX[key]])
      BY <2>3, <2>6, IndexedRows
    <3> QED
      BY <2>2, <3>2, <3>3 DEF Matches, e
  <2> QED
    BY <1>5, <2>5, <2>6, PdxDomains
<1> QED
  BY <1>4, <1>5

LEMMA SameUpdate ==
  ASSUME NEW m, Ready(m), NEW i, IsInsn(i), NEW wide, i.op \in {33, 37}, i.ra # 0
  PROVE  Matches(m, i, wide)
<1> DEFINE e == pdx_decode(m.pc, i, wide)
           p == PastFetch(m)
<1>1. p.gpr = m.gpr
  BY PastFields DEF Ready
<1>2. i.rd \in Regs /\ i.ra \in Regs
  BY FieldTypes DEF Regs
<1>3. e = MemEntry(i, PdxMemD[i.op], RO(i.ra), P_SIMM(i))
  BY PdxDomains DEF pdx_decode, UpdateBase
<1>4. e.id = PdxMemD[i.op] /\ e.a = RO(i.rd) /\ e.b = RO(i.ra) /\ e.c = P_SIMM(i)
  BY <1>3, MemFields
<1> HIDE DEF e
<1>5. Add(GPRO(m, e.b), e.c) = EaD(p, i) /\ e.a \div 4 = i.rd /\ e.b \div 4 = i.ra
  BY <1>1, <1>2, <1>4, Operand DEF EaD, Base
<1>6. CASE i.op = 33
  <2>1. PdxStep(m, e, wide) = Update(LoadTo(p, i.rd, EaD(p, i), 4), i.ra, EaD(p, i))
    BY <1>4, <1>5, <1>6, PdxLists, StepMemD
  <2>2. Exec(m, i) = gen_load_d(p, i, 4, TRUE)
    BY <1>6, PrimaryIs DEF Exec, PPC_PRIMARY
  <2> QED
    BY <2>1, <2>2 DEF Matches, gen_load_d, e
<1>7. CASE i.op = 37
  <2>1. PdxStep(m, e, wide) = Update(StoreFrom(p, i.rd, EaD(p, i), 4), i.ra, EaD(p, i))
    BY <1>4, <1>5, <1>7, PdxLists, StepMemD
  <2>2. Exec(m, i) = gen_store_d(p, i, 4, TRUE)
    BY <1>7, PrimaryIs DEF Exec, PPC_PRIMARY
  <2> QED
    BY <2>1, <2>2 DEF Matches, gen_store_d, e
<1> QED
  BY <1>6, <1>7
----------------------------------------------------------------------------
\* The entry holds the target as an index, the step of the pc undone.
LEMMA BackAgain ==
  ASSUME NEW v \in Long
  PROVE  Sub(Add(v, 4), 4) = v
<1> DEFINE mod == LongMod
<1>1. mod \in Nat /\ mod >= 4 /\ v \in Nat /\ v < mod
  BY LongFacts DEF Long
<1> HIDE DEF mod
<1>2. CASE v + 4 < mod
  <2>1. (v + 4) % mod = v + 4
    BY <1>1, <1>2
  <2>2. v % mod = v /\ (v + 4) - 4 = v
    BY <1>1
  <2> QED
    BY <2>1, <2>2 DEF Add, Sub, mod
<1>3. CASE v + 4 >= mod
  <2>1. (v + 4) % mod = v + 4 - mod
    BY <1>1, <1>3
  <2>2. (v + 4 - mod) - 4 = v - mod /\ (v - mod) % mod = v
    BY <1>1
  <2> QED
    BY <2>1, <2>2 DEF Add, Sub, mod
<1> QED
  BY <1>1, <1>2, <1>3

LEMMA LastCount ==
  ASSUME NEW c \in Long
  PROVE  Sub(c, 1) = 0 <=> c = 1
<1> DEFINE mod == LongMod
<1>1. mod \in Nat /\ mod >= 4 /\ c \in Nat /\ c < mod
  BY LongFacts DEF Long
<1> HIDE DEF mod
<1>2. CASE c = 0
  <2>1. (c - 1) % mod = mod - 1
    BY <1>1, <1>2
  <2> QED
    BY <1>1, <1>2, <2>1 DEF Sub, mod
<1>3. CASE c > 0
  <2>1. (c - 1) % mod = c - 1
    BY <1>1, <1>3
  <2> QED
    BY <1>1, <1>3, <2>1 DEF Sub, mod
<1> QED
  BY <1>1, <1>2, <1>3

LEMMA TargetIs ==
  ASSUME NEW m, Ready(m), NEW disp \in Long, disp % 4 = 0
  PROVE  /\ 4 * (Add(m.pc, disp) \div 4) = Add(m.pc, disp)
         /\ Add(Sub(PastFetch(m).pc, 4), disp) = Add(m.pc, disp)
<1>1. m.pc \in Long /\ m.pc \in Int /\ m.pc % 4 = 0 /\ disp \in Int
  BY RegType, LongFacts DEF Ready, Aligned4
<1>2. Add(m.pc, disp) \in Int /\ Add(m.pc, disp) % 4 = 0
  <2>1. Add(m.pc, disp) \in Long /\ Add(m.pc, disp) % 4 = 0
    BY <1>1, AddAligned
  <2> QED
    BY <2>1, LongInt
<1>3. \A x \in Int : x % 4 = 0 => 4 * (x \div 4) = x
  OBVIOUS
<1>4. PastFetch(m).pc = Add(m.pc, 4)
  BY PastFields DEF Ready
<1> QED
  BY <1>1, <1>2, <1>3, <1>4, BackAgain

\* Rounding the pc of a good machine down changes nothing.
LEMMA AlreadyAligned ==
  ASSUME NEW m, NEW r, Good(m, r)
  PROVE  [r EXCEPT !.pc = Aligned(@)] = r
<1>1. r.pc \in Int /\ r.pc % 4 = 0 /\ IsMachine(r)
  BY RegType DEF Good, Aligned4
<1>2. Aligned(r.pc) = r.pc
  BY <1>1 DEF Aligned
<1> QED
  BY <1>1, <1>2 DEF IsMachine

LEMMA SameJump ==
  ASSUME NEW m, Ready(m), NEW i, IsInsn(i), NEW wide, i.op = 18
  PROVE  Matches(m, i, wide)
<1> DEFINE e == pdx_decode(m.pc, i, wide)
           p == PastFetch(m)
<1>1. Exec(m, i) = gen_b(p, i)
  BY PrimaryIs DEF Exec, PPC_PRIMARY
<1>2. CASE ~Rc(i) /\ ~AA(i)
  <2>1. e = Entry(i, "B", 0, 0, Add(m.pc, LI(i)) \div 4)
    BY <1>2, PdxDomains DEF pdx_decode
  <2>2. e.id = "B" /\ e.c = Add(m.pc, LI(i)) \div 4
    BY <2>1, EntryFields
  <2> HIDE DEF e
  <2>21. 4 * e.c = Add(m.pc, LI(i))
    BY <2>2, DisplacementTypes, TargetIs
  <2>22. PdxStep(m, e, wide) = [p EXCEPT !.pc = 4 * e.c]
    BY <2>2, StepJump
  <2>3. PdxStep(m, e, wide) = [p EXCEPT !.pc = Add(m.pc, LI(i))]
    BY <2>21, <2>22
  <2>4. gen_b(p, i) = [p EXCEPT !.pc = Add(m.pc, LI(i))]
    BY <1>2, DisplacementTypes, TargetIs DEF gen_b, Goto, Link
  <2> QED
    BY <1>1, <2>3, <2>4 DEF Matches, e
<1>3. CASE ~(~Rc(i) /\ ~AA(i))
  <2>1. e = Entry(i, "B_GEN", 0, 0, 0)
    BY <1>3, PdxDomains DEF pdx_decode
  <2>2. e.id = "B_GEN" /\ e.raw = i
    BY <2>1, EntryFields
  <2> HIDE DEF e
  <2>3. PdxStep(m, e, wide) = [gen_b(p, i) EXCEPT !.pc = Aligned(@)]
    BY <2>2, StepGeneric
  <2>4. Good(m, gen_b(p, i))
    BY <1>1, ExecGood DEF Ready
  <2> QED
    BY <1>1, <2>3, <2>4, AlreadyAligned DEF Matches, e
<1> QED
  BY <1>2, <1>3

LEMMA SameOp19 ==
  ASSUME NEW m, Ready(m), NEW i, IsInsn(i), NEW wide, i.op = 19
  PROVE  Matches(m, i, wide)
<1> DEFINE e == pdx_decode(m.pc, i, wide)
           p == PastFetch(m)
<1>1. Exec(m, i) = do_op19(p, i)
  BY PrimaryIs DEF Exec, PPC_PRIMARY
<1>2. e = Entry(i, "OP19_GEN", 0, 0, 0)
  BY PdxDomains DEF pdx_decode
<1>3. e.id = "OP19_GEN" /\ e.raw = i
  BY <1>2, EntryFields
<1> HIDE DEF e
<1>4. PdxStep(m, e, wide) = [do_op19(p, i) EXCEPT !.pc = Aligned(@)]
  BY <1>3, StepGeneric
<1>5. Good(m, do_op19(p, i))
  BY <1>1, ExecGood DEF Ready
<1> QED
  BY <1>1, <1>4, <1>5, AlreadyAligned DEF Matches, e

\* The BO fields with an id of their own.
LEMMA BranchKinds ==
  ASSUME NEW i
  PROVE  /\ i.rd = 16 => ~BO(i, 4) /\ ~BO(i, 2) /\ BO(i, 16)
         /\ i.rd = 12 => BO(i, 4) /\ ~BO(i, 16) /\ BO(i, 8)
         /\ i.rd = 4 => BO(i, 4) /\ ~BO(i, 16) /\ ~BO(i, 8)
BY DEF BO

LEMMA SameBranch ==
  ASSUME NEW m, Ready(m), NEW i, IsInsn(i), NEW wide, i.op = 16
  PROVE  Matches(m, i, wide)
<1> DEFINE e == pdx_decode(m.pc, i, wide)
           p == PastFetch(m)
           direct == ~Rc(i) /\ ~AA(i)
           target == Add(m.pc, BD(i))
<1>1. Exec(m, i) = gen_bc(p, i)
  BY PrimaryIs DEF Exec, PPC_PRIMARY
<1>2. 4 * (target \div 4) = target /\ Add(Sub(p.pc, 4), BD(i)) = target
  BY DisplacementTypes, TargetIs
<1>3. p.ctr = m.ctr /\ p.cr = m.cr /\ m.ctr \in Long
  BY PastFields, RegType DEF Ready
<1>4. CASE direct /\ i.rd = 16 /\ i.ra = 0
  <2> DEFINE c == [p EXCEPT !.ctr = Sub(@, 1)]
  <2>1. e = Entry(i, "BDNZ", 0, 0, target \div 4)
    BY <1>4, PdxDomains DEF pdx_decode
  <2>2. e.id = "BDNZ" /\ e.c = target \div 4
    BY <2>1, EntryFields
  <2>3. c.ctr = Sub(m.ctr, 1) /\ c.pc = p.pc
    BY <1>3, PastFields DEF Ready, IsMachine, PastFetch
  <2>4. Counts(i, TRUE) /\ Counted(p, i, TRUE) = c /\ Link(c, i) = c
    BY <1>4, BranchKinds DEF Counts, Counted, Link
  <2> HIDE DEF e, c
  <2>5. PdxStep(m, e, wide) = IF m.ctr # 1 THEN [c EXCEPT !.pc = target] ELSE c
    <3>1. 4 * e.c = target
      BY <1>2, <2>2
    <3>2. PdxStep(m, e, wide) = IF m.ctr # 1
                                THEN [[p EXCEPT !.ctr = Sub(@, 1)] EXCEPT !.pc = 4 * e.c]
                                ELSE [p EXCEPT !.ctr = Sub(@, 1)]
      BY <2>2, IndexedIs, PdxDomains DEF PdxStep, AluR, AluI
    <3> QED
      BY <3>1, <3>2 DEF c
  <2>6. bc_taken(p, i, TRUE) <=> m.ctr # 1
    BY <1>3, <1>4, <2>3, <2>4, BranchKinds, LastCount DEF bc_taken
  <2>7. Goto(c, i, BD(i)) = [c EXCEPT !.pc = target]
    BY <1>2, <1>4, <2>3 DEF Goto
  <2>8. gen_bc(p, i) = IF m.ctr # 1 THEN [c EXCEPT !.pc = target] ELSE c
    BY <2>4, <2>6, <2>7 DEF gen_bc
  <2> QED
    BY <1>1, <2>5, <2>8 DEF Matches, e
<1>5. CASE direct /\ i.rd \in {4, 12}
  <2>1. e.c = target \div 4 /\ e.a = 31 - i.ra /\ e.id = IF i.rd = 12 THEN "BC_T" ELSE "BC_F"
    <3>1. CASE i.rd = 12
      <4>1. e = Entry(i, "BC_T", 31 - i.ra, 0, target \div 4)
        BY <1>5, <3>1, PdxDomains DEF pdx_decode
      <4> QED
        BY <3>1, <4>1, EntryFields
    <3>2. CASE i.rd = 4
      <4>1. e = Entry(i, "BC_F", 31 - i.ra, 0, target \div 4)
        BY <1>5, <3>2, PdxDomains DEF pdx_decode
      <4> QED
        BY <3>2, <4>1, EntryFields
    <3> QED
      BY <1>5, <3>1, <3>2
  <2> HIDE DEF e
  <2>2. PdxStep(m, e, wide) = IF (31 - i.ra \in m.cr) <=> i.rd = 12
                              THEN [p EXCEPT !.pc = target] ELSE p
    <3>1. 4 * e.c = target
      BY <1>2, <2>1
    <3>2. CASE i.rd = 12
      <4>1. PdxStep(m, e, wide) = IF e.a \in m.cr THEN [p EXCEPT !.pc = 4 * e.c] ELSE p
        BY <2>1, <3>2, StepJump
      <4> QED
        BY <2>1, <3>1, <3>2, <4>1
    <3>3. CASE i.rd = 4
      <4>1. PdxStep(m, e, wide) = IF e.a \notin m.cr THEN [p EXCEPT !.pc = 4 * e.c] ELSE p
        <5>1. e.id = "BC_F"
          BY <2>1, <3>3
        <5> QED
          BY <5>1, StepJump
      <4> QED
        BY <2>1, <3>1, <3>3, <4>1
    <3> QED
      BY <1>5, <3>2, <3>3
  <2>3. ~Counts(i, TRUE) /\ Counted(p, i, TRUE) = p /\ Link(p, i) = p
    BY <1>5, BranchKinds DEF Counts, Counted, Link
  <2>4. bc_taken(p, i, TRUE) <=> ((31 - i.ra \in m.cr) <=> i.rd = 12)
    BY <1>3, <1>5, <2>3, BranchKinds DEF bc_taken
  <2>5. Goto(p, i, BD(i)) = [p EXCEPT !.pc = target]
    BY <1>2, <1>5 DEF Goto
  <2>6. gen_bc(p, i) = IF (31 - i.ra \in m.cr) <=> i.rd = 12
                       THEN [p EXCEPT !.pc = target] ELSE p
    BY <2>3, <2>4, <2>5 DEF gen_bc
  <2> QED
    BY <1>1, <2>2, <2>6 DEF Matches, e
<1>6. CASE ~(direct /\ (i.rd \in {4, 12} \/ (i.rd = 16 /\ i.ra = 0)))
  <2>1. e = Entry(i, "BC_GEN", 0, 0, 0)
    BY <1>6, PdxDomains DEF pdx_decode
  <2>2. e.id = "BC_GEN" /\ e.raw = i
    BY <2>1, EntryFields
  <2> HIDE DEF e
  <2>3. PdxStep(m, e, wide) = [gen_bc(p, i) EXCEPT !.pc = Aligned(@)]
    BY <2>2, StepGeneric
  <2>4. Good(m, gen_bc(p, i))
    BY <1>1, ExecGood DEF Ready
  <2> QED
    BY <1>1, <2>3, <2>4, AlreadyAligned DEF Matches, e
<1> QED
  BY <1>4, <1>5, <1>6

LEMMA SameMove ==
  ASSUME NEW m, Ready(m), NEW i, IsInsn(i), NEW wide, i.op = 31, Key31(i) \in {KeyMfspr, KeyMtspr}
  PROVE  Matches(m, i, wide)
<1> DEFINE e == pdx_decode(m.pc, i, wide)
           p == PastFetch(m)
<1>1. p.gpr = m.gpr /\ p.lr = m.lr /\ p.ctr = m.ctr
  BY PastFields DEF Ready
<1>2. i.rd \in Regs
  BY FieldTypes DEF Regs
<1>3. RO(i.rd) \div 4 = i.rd
  BY <1>2, Operand
<1>4. CASE Key31(i) = KeyMfspr
  <2>1. Exec(m, i) = gen_mspr(p, i, FALSE)
    BY <1>4, ExecLiteral, Zenon
  <2>2. CASE Spr(i) = 8
    <3>1. e = Entry(i, "MFLR", RO(i.rd), 0, 0)
      BY <1>4, <2>2, PdxDomains DEF pdx_decode, KeyMfspr
    <3>2. e.id = "MFLR" /\ e.a = RO(i.rd)
      BY <3>1, EntryFields
    <3> HIDE DEF e
    <3>3. PdxStep(m, e, wide) = Write(p, e.a \div 4, m.lr, Plain)
      BY <3>2, StepMoveFrom
    <3>4. Exec(m, i) = Write(p, i.rd, p.lr, Plain)
      BY <2>1, <2>2 DEF gen_mspr, Plain
    <3> QED
      BY <1>1, <1>3, <3>2, <3>3, <3>4 DEF Matches, e
  <2>3. CASE Spr(i) = 9
    <3>1. e = Entry(i, "MFCTR", RO(i.rd), 0, 0)
      BY <1>4, <2>3, PdxDomains DEF pdx_decode, KeyMfspr
    <3>2. e.id = "MFCTR" /\ e.a = RO(i.rd)
      BY <3>1, EntryFields
    <3> HIDE DEF e
    <3>3. PdxStep(m, e, wide) = Write(p, e.a \div 4, m.ctr, Plain)
      BY <3>2, StepMoveFrom
    <3>4. Exec(m, i) = Write(p, i.rd, p.ctr, Plain)
      BY <2>1, <2>3 DEF gen_mspr, Plain
    <3> QED
      BY <1>1, <1>3, <3>2, <3>3, <3>4 DEF Matches, e
  <2>4. CASE Spr(i) \notin {8, 9}
    <3>1. e = Entry(i, "ILLEGAL", 0, 0, 0)
      BY <1>4, <2>4, PdxDomains DEF pdx_decode, KeyMfspr
    <3>2. e.id = "ILLEGAL"
      BY <3>1, EntryFields
    <3> HIDE DEF e
    <3>3. PdxStep(m, e, wide) = ppc_illegal(p)
      BY <3>2, StepIllegal
    <3> QED
      BY <2>1, <2>4, <3>3, MsprElse DEF Matches, e
  <2> QED
    BY <2>2, <2>3, <2>4
<1>5. CASE Key31(i) = KeyMtspr
  <2>1. Exec(m, i) = gen_mspr(p, i, TRUE)
    BY <1>5, ExecLiteral, Zenon
  <2>2. CASE Spr(i) = 8
    <3>1. e = Entry(i, "MTLR", RO(i.rd), 0, 0)
      BY <1>5, <2>2, PdxDomains DEF pdx_decode, KeyMtspr
    <3>2. e.id = "MTLR" /\ e.a = RO(i.rd)
      BY <3>1, EntryFields
    <3> HIDE DEF e
    <3>3. PdxStep(m, e, wide) = [p EXCEPT !.lr = m.gpr[e.a \div 4]]
      BY <3>2, StepMoveTo
    <3> QED
      BY <1>1, <1>3, <2>1, <2>2, <3>2, <3>3 DEF Matches, gen_mspr, e
  <2>3. CASE Spr(i) = 9
    <3>1. e = Entry(i, "MTCTR", RO(i.rd), 0, 0)
      BY <1>5, <2>3, PdxDomains DEF pdx_decode, KeyMtspr
    <3>2. e.id = "MTCTR" /\ e.a = RO(i.rd)
      BY <3>1, EntryFields
    <3> HIDE DEF e
    <3>3. PdxStep(m, e, wide) = [p EXCEPT !.ctr = m.gpr[e.a \div 4]]
      BY <3>2, StepMoveTo
    <3> QED
      BY <1>1, <1>3, <2>1, <2>3, <3>2, <3>3 DEF Matches, gen_mspr, e
  <2>4. CASE Spr(i) \notin {8, 9}
    <3>1. e = Entry(i, "ILLEGAL", 0, 0, 0)
      BY <1>5, <2>4, PdxDomains DEF pdx_decode, KeyMtspr
    <3>2. e.id = "ILLEGAL"
      BY <3>1, EntryFields
    <3> HIDE DEF e
    <3>3. PdxStep(m, e, wide) = ppc_illegal(p)
      BY <3>2, StepIllegal
    <3> QED
      BY <2>1, <2>4, <3>3, MsprElse DEF Matches, e
  <2> QED
    BY <2>2, <2>3, <2>4
<1> QED
  BY <1>4, <1>5

\* The instructions of neither list.
LEMMA DecodeUnlisted ==
  ASSUME NEW op, NEW i, NEW addr, NEW wide, i.op = op, op \notin PPC_PRIMARY \cup {27}
  PROVE  pdx_decode(addr, i, wide) = Entry(i, "ILLEGAL", 0, 0, 0)
<1>1. /\ op # 7 /\ op # 10 /\ op # 11 /\ op # 14 /\ op # 15 /\ op # 16
      /\ op # 18 /\ op # 19 /\ op # 21 /\ op # 24 /\ op # 25 /\ op # 26
      /\ op # 27 /\ op # 28 /\ op # 31 /\ op \notin DOMAIN PdxMemD /\ op \notin {33, 37}
  BY PdxDomains DEF PPC_PRIMARY
<1> QED
  BY <1>1 DEF pdx_decode

LEMMA SameIllegal ==
  ASSUME NEW m, Ready(m), NEW i, IsInsn(i), NEW wide, i.op # 27,
         i.op \notin PPC_PRIMARY \/ (i.op = 31 /\ Key31(i) \notin PPC_OP31)
  PROVE  Matches(m, i, wide)
<1> DEFINE e == pdx_decode(m.pc, i, wide)
           p == PastFetch(m)
<1>1. CASE i.op \notin PPC_PRIMARY
  <2>1. e = Entry(i, "ILLEGAL", 0, 0, 0)
    BY <1>1, DecodeUnlisted
  <2>2. e.id = "ILLEGAL"
    BY <2>1, EntryFields
  <2> HIDE DEF e
  <2>3. PdxStep(m, e, wide) = ppc_illegal(p)
    BY <2>2, StepIllegal
  <2> QED
    BY <1>1, <2>3 DEF Matches, Exec, e
<1>2. CASE i.op = 31 /\ Key31(i) \notin PPC_OP31
  <2>1. e = Entry(i, "ILLEGAL", 0, 0, 0)
    BY <1>2, PdxDomains, ListedKeys DEF pdx_decode
  <2>2. e.id = "ILLEGAL"
    BY <2>1, EntryFields
  <2> HIDE DEF e
  <2>3. PdxStep(m, e, wide) = ppc_illegal(p)
    BY <2>2, StepIllegal
  <2> QED
    BY <1>2, <2>3, ExecOp31 DEF Matches, e
<1> QED
  BY <1>1, <1>2
----------------------------------------------------------------------------
\* The forms a format answers differently: the lists have no xoris and the
\* formats do, and the update forms with rA = 0 base on register 0 where the
\* bodies base on zero.
Divergent(i) == i.op = 27 \/ (i.op \in {33, 37} /\ i.ra = 0)

\* ppc_pdx_impl.h:3: "every operand [is] pre-extracted at decode time", and an
\* entry then runs as the body of ppc_ops.h would have: for every machine,
\* every instruction but the divergent ones, in both widths of entry, the case
\* of the decoded entry leaves the machine the interpreter leaves.
THEOREM FormatRunsTheBodies ==
  ASSUME NEW m, Ready(m), NEW i, IsInsn(i), ~Divergent(i), NEW wide
  PROVE  Matches(m, i, wide)
<1>1. CASE i.op = 31
  <2>1. CASE Key31(i) \in DOMAIN PdxXo \cup DOMAIN PdxLogic
    BY <1>1, <2>1, SameRegister
  <2>2. CASE Key31(i) \in DOMAIN PdxMemX
    BY <1>1, <2>2, SameMemory
  <2>3. CASE Key31(i) \in {0, 64}
    BY <1>1, <2>3, SameCompare DEF KeyCmp, KeyCmpl
  <2>4. CASE Key31(i) \in {1648, 1649}
    BY <1>1, <2>4, SameSrawi
  <2>5. CASE Key31(i) \in {678, 934}
    BY <1>1, <2>5, SameMove DEF KeyMfspr, KeyMtspr
  <2>6. CASE Key31(i) \notin PPC_OP31
    BY <1>1, <2>6, SameIllegal
  <2> QED
    BY <2>1, <2>2, <2>3, <2>4, <2>5, <2>6, PdxDomains, ListedKeys
<1>2. CASE i.op \in {7, 14, 15, 24, 25, 26, 28}
  BY <1>2, SameImmediate
<1>3. CASE i.op \in {10, 11}
  BY <1>3, SameCompare
<1>4. CASE i.op = 16
  BY <1>4, SameBranch
<1>5. CASE i.op = 18
  BY <1>5, SameJump
<1>6. CASE i.op = 19
  BY <1>6, SameOp19
<1>7. CASE i.op = 21
  BY <1>7, SameRotate
<1>8. CASE i.op \in {32, 34, 36, 38, 40, 44}
  BY <1>8, SameMemory
<1>9. CASE i.op \in {33, 37}
  BY <1>9, SameUpdate DEF Divergent
<1>10. CASE i.op \notin PPC_PRIMARY
  BY <1>10, SameIllegal DEF Divergent
<1> QED
  BY <1>1, <1>2, <1>3, <1>4, <1>5, <1>6, <1>7, <1>8, <1>9, <1>10 DEF PPC_PRIMARY
=============================================================================
