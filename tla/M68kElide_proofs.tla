-------------------------- MODULE M68kElide_proofs --------------------------
(***************************************************************************)
(* Facts about mpd_decode and the elide pass's view of an entry; then the  *)
(* elide pass of backend C, for every program, table size and budget:      *)
(* types, what an elided entry may be (ElisionSound), that backend B never *)
(* holds a stale flag (EagerIsExact), and that backend C holds one only    *)
(* where it is about to be overwritten (FlagsExactOrDead).                 *)
(***************************************************************************)
EXTENDS M68kElide, TLAPS

\* A well-formed decoding: an entry without the no-flags mark and no filler, of
\* one to three words, and as long as its handler where the elide pass cares.
IsEntry(e) == /\ DOMAIN e = {"id", "nf", "a", "b", "c"}
              /\ e = [id |-> e.id, nf |-> e.nf, a |-> e.a, b |-> e.b, c |-> e.c]

GoodDecoding(d) ==
    /\ IsEntry(d.ent) /\ d.ent.nf = FALSE /\ d.ent.id # "FILLER"
    /\ d.len \in 1..3
    /\ d.ent.id \in Elidable \cup PureFlag => d.len = HandlerLen(d.ent.id)

LEMMA GoodIs ==
    ASSUME NEW id, NEW a, NEW b, NEW c, NEW len \in 1..3, id # "FILLER",
           id \in Elidable \cup PureFlag => len = HandlerLen(id)
    PROVE  GoodDecoding(Is(id, a, b, c, len))
BY DEF GoodDecoding, Is, Entry, IsEntry

LEMMA GoodUndecoded == ASSUME NEW op PROVE GoodDecoding(Undecoded(op))
BY GoodIs DEF Undecoded, Elidable, PureFlag

LEMMA GoodMove ==
    ASSUME NEW op, NEW w16, NEW w32
    PROVE  GoodDecoding(DecodeMove(op, w16, w32))
BY GoodIs, GoodUndecoded DEF DecodeMove, SizedId, HandlerLen, Elidable, PureFlag

LEMMA GoodMisc ==
    ASSUME NEW op, NEW w16 PROVE GoodDecoding(DecodeMisc(op, w16))
BY GoodIs, GoodUndecoded DEF DecodeMisc, HandlerLen, Elidable, PureFlag

LEMMA GoodQuick ==
    ASSUME NEW op, NEW w16, NEW addr PROVE GoodDecoding(DecodeQuick(op, w16, addr))
BY GoodIs, GoodUndecoded DEF DecodeQuick, HandlerLen, Elidable, PureFlag

LEMMA GoodBranch ==
    ASSUME NEW op, NEW w16, NEW addr PROVE GoodDecoding(DecodeBranch(op, w16, addr))
<1>1. BccId(Cond(op)) \notin Elidable \cup PureFlag /\ BccId(Cond(op)) # "FILLER"
  BY DEF BccId, Elidable, PureFlag
<1> QED
  BY <1>1, GoodIs, GoodUndecoded DEF DecodeBranch

LEMMA GoodAlu ==
    ASSUME NEW op, NEW id, HandlerLen(id) = 1, id # "FILLER"
    PROVE  GoodDecoding(DecodeAlu(id, op))
BY GoodIs, GoodUndecoded DEF DecodeAlu

\* Whatever the opcode and the words after it, mpd_decode yields a well-formed
\* decoding: the elide pass, which walks by decoded lengths, and the handlers,
\* which advance by their own, never disagree (m68k_pd_impl.h:75-237, 325-337).
THEOREM DecodeIsGood ==
    ASSUME NEW op, NEW w16, NEW w32, NEW addr
    PROVE  GoodDecoding(Decode(op, w16, w32, addr))
<1> DEFINE GoodAluAt(id) == GoodDecoding(DecodeAlu(id, op))
<1>1. GoodAluAt("OR_L_DD") /\ GoodAluAt("SUB_L_DD") /\ GoodAluAt("CMP_L_DD")
      /\ GoodAluAt("AND_L_DD") /\ GoodAluAt("ADD_L_DD")
  BY GoodAlu DEF HandlerLen
<1>2. HandlerLen("CMPI_L_DN") = 3 /\ HandlerLen("MOVEQ") = 1 /\ HandlerLen("EOR_L_DD") = 1
      /\ HandlerLen("LSL_L_IMM") = 1 /\ HandlerLen("LSR_L_IMM") = 1
  BY DEF HandlerLen
<1> QED
  BY <1>1, <1>2, GoodIs, GoodUndecoded, GoodMove, GoodMisc, GoodQuick, GoodBranch DEF Decode
----------------------------------------------------------------------------
\* Retargeting keeps the operands, and is the identity on what is not elidable.
LEMMA RetargetKeeps ==
    ASSUME NEW e, IsEntry(e)
    PROVE  /\ IsEntry(Retarget(e))
           /\ Retarget(e).a = e.a /\ Retarget(e).b = e.b /\ Retarget(e).c = e.c
           /\ e.nf \in BOOLEAN => Retarget(e).nf \in BOOLEAN
           /\ ~WritesAll(e) /\ ~e.nf => Retarget(e) = e
BY DEF IsEntry, Retarget, IsElidable, WritesAll, PureFlag

\* A filler written over an entry does not depend on its id or mark.
LEMMA FillerFacts ==
    \A e : Filler(e).id = "FILLER" /\ Filler(e).nf = FALSE /\ ~WritesAll(Filler(e))
BY DEF Filler, Entry, WritesAll, Elidable, PureFlag

LEMMA FillerType ==
    ASSUME NEW e, IsEntry(e)
    PROVE  IsEntry(Filler(e)) /\ Filler(Retarget(e)) = Filler(e)
BY RetargetKeeps DEF IsEntry, Filler, Entry

LEMMA FillerPair ==
    ASSUME NEW d, NEW e, IsEntry(d), IsEntry(e), d = e \/ d = Retarget(e)
    PROVE  IsEntry(Filler(d)) /\ IsEntry(Filler(e)) /\ Filler(d) = Filler(e)
<1>1. IsEntry(Filler(d))
  BY FillerType, Zenon
<1>2. IsEntry(Filler(e)) /\ Filler(Retarget(e)) = Filler(e)
  BY FillerType, Zenon
<1> QED
  BY <1>1, <1>2

\* A filler over a filler changes nothing.
LEMMA FillerAgain ==
    ASSUME NEW e, IsEntry(e), e.id = "FILLER", ~e.nf PROVE Filler(e) = e
BY DEF IsEntry, Filler, Entry
----------------------------------------------------------------------------
\* An entry is the one the sweep decoded, or its retargeting before an
\* instruction that overwrites the flags.
Elided(i) ==
    \/ tab[i] = otab[i]
    \/ tab[i] = Retarget(otab[i]) /\ Kills(i + HandlerLen(otab[i].id))

\* In every phase: both tables hold entries, an entry differs from the decoded
\* one by its retargeting at most, and the length the pass walks by is the
\* length the handler advances by.
TableInv ==
    /\ \A i \in Entries : IsEntry(tab[i]) /\ IsEntry(otab[i])
    /\ \A i \in Entries : tab[i] = otab[i] \/ (elide /\ tab[i] = Retarget(otab[i]))
    /\ elide => \A i \in Entries :
                   WritesAll(otab[i]) => mlen[i] = HandlerLen(otab[i].id)

\* The sweep leaves no elided entry behind it; the pass finds none ahead of it,
\* and leaves only sound ones behind.
PhaseInv ==
    /\ phase = "decode" =>
         at <= MPD_ENTRIES /\ \A i \in Entries : i < at => tab[i] = otab[i]
    /\ phase = "elide" =>
         /\ elide /\ at \in Entries
         /\ \A i \in Entries : IF i < at THEN Elided(i) ELSE tab[i] = otab[i]
    /\ phase = "run" => \A i \in Entries : Elided(i)

Inv == TypeOK /\ TableInv /\ PhaseInv
----------------------------------------------------------------------------
LEMMA HandlerLenPositive == ASSUME NEW id PROVE HandlerLen(id) \in 1..3
BY DEF HandlerLen

LEMMA InvInit == InitH => Inv
<1> SUFFICES ASSUME InitH PROVE Inv
  OBVIOUS
<1> USE DEF InitH, Init
<1>1. \A i \in Entries : tab[i] = Entry("ILLEGAL", 0, 0, 0) /\ otab[i] = tab[i]
  OBVIOUS
<1>2. TypeOK
  <2>1. mlen \in [Entries -> 0..3]
    OBVIOUS
  <2>2. DOMAIN tab = Entries /\ DOMAIN otab = Entries
    OBVIOUS
  <2>3. \A i \in Entries : tab[i].nf \in BOOLEAN /\ otab[i].nf = FALSE
    BY <1>1 DEF Entry
  <2>4. /\ elide \in BOOLEAN /\ n \in Nat /\ at \in Nat
        /\ phase \in {"idle", "decode", "elide", "run", "exited", "wild"}
    OBVIOUS
  <2> QED
    BY <2>1, <2>2, <2>3, <2>4 DEF TypeOK
<1>3. TableInv
  BY <1>1 DEF TableInv, IsEntry, Entry, WritesAll, Elidable, PureFlag
<1>4. PhaseInv
  BY DEF PhaseInv
<1> QED
  BY <1>2, <1>3, <1>4 DEF Inv

\* What one iteration of the sweep does to either table.
LEMMA FillEntry ==
    ASSUME NEW t, NEW head \in Entries, NEW len \in 1..3, NEW e, DOMAIN t = Entries
    PROVE  /\ DOMAIN Fill(t, head, e, len) = Entries
           /\ Fill(t, head, e, len)[head] = e
           /\ \A i \in Entries : head < i /\ i < head + len
                => Fill(t, head, e, len)[i] = Filler(t[i])
           /\ \A i \in Entries : i < head \/ i >= head + len
                => Fill(t, head, e, len)[i] = t[i]
BY RegionAssumption DEF Fill, Entries

LEMMA DecodedIsGood == GoodDecoding(Decoded)
BY DecodeIsGood DEF Decoded, DecodeAt

LEMMA InvDecodeStep == Inv /\ DecodeStepH => Inv'
<1> SUFFICES ASSUME Inv, DecodeStepH PROVE Inv'
  OBVIOUS
<1> DEFINE len == Decoded.len
           e   == Decoded.ent
           behind(i) == at < i /\ i < at + len
<1>1. /\ len \in 1..3 /\ at \in Entries /\ at + len <= MPD_ENTRIES /\ at' = at + len
      /\ IsEntry(e) /\ e.nf = FALSE
      /\ e.id \in Elidable \cup PureFlag => len = HandlerLen(e.id)
  BY DecodedIsGood, RegionAssumption
     DEF DecodeStepH, DecodeStep, GoodDecoding, Inv, TypeOK, Entries
<1>2. /\ tab' = Fill(tab, at, e, len) /\ otab' = Fill(otab, at, e, len)
      /\ DOMAIN tab = Entries /\ DOMAIN otab = Entries
  BY DEF DecodeStepH, DecodeStep, Inv, TypeOK
<1>7. /\ mlen' = IF elide THEN [mlen EXCEPT ![at] = len] ELSE mlen
      /\ phase = "decode" /\ UNCHANGED <<elide, n, phase>>
  BY DEF DecodeStepH, DecodeStep
<1> HIDE DEF len, e
<1>3. /\ DOMAIN tab' = Entries /\ tab'[at] = e
      /\ \A i \in Entries : behind(i) => tab'[i] = Filler(tab[i])
      /\ \A i \in Entries : i < at \/ i >= at + len => tab'[i] = tab[i]
  BY <1>1, <1>2, FillEntry
<1>4. /\ DOMAIN otab' = Entries /\ otab'[at] = e
      /\ \A i \in Entries : behind(i) => otab'[i] = Filler(otab[i])
      /\ \A i \in Entries : i < at \/ i >= at + len => otab'[i] = otab[i]
  BY <1>1, <1>2, FillEntry
<1>d. \A i \in Entries : /\ IsEntry(tab[i]) /\ IsEntry(otab[i])
                         /\ tab[i] = otab[i] \/ tab[i] = Retarget(otab[i])
  BY DEF Inv, TableInv
<1>e. ASSUME NEW i \in Entries
      PROVE  /\ IsEntry(Filler(tab[i])) /\ IsEntry(Filler(otab[i]))
             /\ Filler(tab[i]) = Filler(otab[i])
  <2>1. /\ IsEntry(tab[i]) /\ IsEntry(otab[i])
        /\ tab[i] = otab[i] \/ tab[i] = Retarget(otab[i])
    BY <1>d
  <2> QED
    BY <2>1, FillerPair, Zenon
<1>5. \A i \in Entries : behind(i) =>
         /\ IsEntry(Filler(tab[i])) /\ IsEntry(Filler(otab[i]))
         /\ Filler(tab[i]).nf = FALSE /\ Filler(otab[i]).nf = FALSE /\ ~WritesAll(Filler(otab[i]))
  BY <1>e, FillerFacts
<1>c. \A i \in Entries : i = at \/ behind(i) \/ i < at \/ i >= at + len
  BY <1>1, RegionAssumption DEF Entries
<1>6. \A i \in Entries : behind(i) => tab'[i] = otab'[i]
  BY <1>3, <1>4, <1>e
<1> HIDE DEF behind
<1>8. TypeOK'
  <2>1. \A i \in Entries : tab'[i].nf \in BOOLEAN /\ otab'[i].nf = FALSE
    <3> SUFFICES ASSUME NEW i \in Entries
                 PROVE  tab'[i].nf \in BOOLEAN /\ otab'[i].nf = FALSE
      OBVIOUS
    <3>1. CASE i = at
      BY <1>1, <1>3, <1>4, <3>1
    <3>2. CASE behind(i)
      BY <1>3, <1>4, <1>5, <3>2
    <3>3. CASE i < at \/ i >= at + len
      BY <1>3, <1>4, <3>3 DEF Inv, TypeOK
    <3> QED
      BY <1>c, <3>1, <3>2, <3>3
  <2>2. mlen' \in [Entries -> 0..3]
    BY <1>1, <1>7 DEF Inv, TypeOK
  <2> QED
    BY <2>1, <2>2, <1>1, <1>3, <1>4, <1>7 DEF Inv, TypeOK
<1>9. TableInv'
  <2>1. \A i \in Entries : IsEntry(tab'[i]) /\ IsEntry(otab'[i])
    BY <1>1, <1>3, <1>4, <1>5, <1>c DEF Inv, TableInv
  <2>2. \A i \in Entries : tab'[i] = otab'[i] \/ (elide' /\ tab'[i] = Retarget(otab'[i]))
    BY <1>3, <1>4, <1>6, <1>7, <1>c DEF Inv, TableInv
  <2>3. ASSUME elide', NEW i \in Entries, WritesAll(otab'[i])
        PROVE  mlen'[i] = HandlerLen(otab'[i].id)
    <3>1. CASE i = at
      BY <2>3, <3>1, <1>1, <1>4, <1>7 DEF WritesAll, Inv, TypeOK
    <3>2. CASE behind(i)
      BY <2>3, <3>2, <1>4, <1>5
    <3>3. CASE i # at /\ (i < at \/ i >= at + len)
      BY <2>3, <3>3, <1>4, <1>7 DEF Inv, TypeOK, TableInv
    <3> QED
      BY <3>1, <3>2, <3>3, <1>c
  <2> QED
    BY <2>1, <2>2, <2>3 DEF TableInv
<1>10. PhaseInv'
  <2>1. ASSUME NEW i \in Entries, i < at' PROVE tab'[i] = otab'[i]
    <3>1. CASE i < at
      BY <3>1, <1>3, <1>4, <1>7 DEF Inv, PhaseInv
    <3>2. CASE i >= at + len
      BY <3>2, <2>1, <1>1 DEF Entries
    <3> QED
      BY <3>1, <3>2, <1>3, <1>4, <1>6, <1>c
  <2> QED
    BY <2>1, <1>1, <1>7 DEF PhaseInv
<1> QED
  BY <1>8, <1>9, <1>10 DEF Inv
----------------------------------------------------------------------------
\* Only an elided entry carries the no-flags mark, and then its handler is one
\* of the paired ones.
LEMMA MarkedIsPaired ==
    ASSUME Inv, NEW i \in Entries, tab[i].nf
    PROVE  tab[i].id \in Elidable
<1>1. tab[i] = Retarget(otab[i]) /\ otab[i].nf = FALSE /\ IsEntry(otab[i])
  BY DEF Inv, TypeOK, TableInv
<1> QED
  BY <1>1 DEF Retarget, IsElidable, IsEntry

\* What the handlers have in common: where they leave off, and that they write
\* the condition codes exactly when the entry writes all of them.
HandlerEffect ==
    /\ phase = "run" /\ n > 0 /\ cur \in Entries /\ n' = n - 1
    /\ UNCHANGED <<elide, kernel, mpc, tab, mlen, at, phase, sprints>>
    /\ ccr' = IF WritesAll(tab[cur]) THEN FlagsOf(tab[cur]) ELSE ccr
    /\ tab[cur].id \in Elidable \cup PureFlag => cur' = cur + HandlerLen(tab[cur].id)
    /\ tab[cur].id = "NOP1" => cur' = cur + 1
    /\ tab[cur].id = "NOP3" => cur' = cur + 3

LEMMA PairEffect ==
    ASSUME Inv, NEW id \in Elidable, NEW r, NEW x1, NEW m, HPair(id, HandlerLen(id), r, x1, m)
    PROVE  HandlerEffect
BY DEF HPair, Step, Running, E, HandlerEffect, WritesAll, Inv, TypeOK, Elidable, PureFlag

LEMMA PlainEffect ==
    ASSUME NEW id, NEW next, Step(id, ccr, next), id \notin Elidable \cup PureFlag,
           id = "NOP1" => next = cur + 1, id = "NOP3" => next = cur + 3
    PROVE  HandlerEffect
BY DEF Step, Running, E, HandlerEffect, WritesAll

LEMMA ExecuteEffect == Inv /\ Execute => HandlerEffect
<1> SUFFICES ASSUME Inv, Execute PROVE HandlerEffect
  OBVIOUS
<1>1. CASE MoveImm
  BY <1>1, PairEffect DEF MoveImm, SetReg, HandlerLen, Elidable
<1>2. CASE MovePostInc
  BY <1>2, PairEffect DEF MovePostInc, HandlerLen, Elidable
<1>3. CASE MoveD16
  BY <1>3, PairEffect DEF MoveD16, LoadD16, StoreD16, SetReg, HandlerLen, Elidable
<1>4. CASE Arith
  BY <1>4, PairEffect DEF Arith, SetRegX, HandlerLen, Elidable
<1>5. CASE Logic
  BY <1>5, PairEffect DEF Logic, SetReg, HandlerLen, Elidable
<1>6. CASE Shift
  BY <1>6, PairEffect DEF Shift, SetRegX, HandlerLen, Elidable
<1>7. CASE Compare
  <2>1. PICK id \in PureFlag : Step(id, FlagsOf(E), cur + HandlerLen(id))
    BY <1>7 DEF Compare, HandlerLen, PureFlag
  <2>2. ~E.nf
    BY <2>1, MarkedIsPaired DEF Step, Running, E, Elidable, PureFlag
  <2> QED
    BY <2>1, <2>2 DEF Step, Running, E, HandlerEffect, WritesAll, PureFlag
<1>8. CASE AddressRegister
  BY <1>8, PlainEffect DEF AddressRegister, Elidable, PureFlag
<1>9. CASE Nops
  BY <1>9, PlainEffect DEF Nops, NopLen, Elidable, PureFlag
<1>10. CASE Dbra
  BY <1>10, PlainEffect DEF Dbra, Elidable, PureFlag
<1>11. CASE Branch
  <2>1. \A cond \in Conds :
           BccId(cond) \notin Elidable \cup PureFlag /\ BccId(cond) \notin {"NOP1", "NOP3"}
    BY DEF Conds, BccId, Elidable, PureFlag
  <2> QED
    BY <1>11, <2>1, PlainEffect DEF Branch, Elidable, PureFlag
<1> QED
  BY <1>1, <1>2, <1>3, <1>4, <1>5, <1>6, <1>7, <1>8, <1>9, <1>10, <1>11 DEF Execute
----------------------------------------------------------------------------
\* A step that leaves the tables alone keeps everything but the phase's part.
LEMMA InvTables ==
    ASSUME Inv, UNCHANGED <<elide, tab, otab, mlen>>, n' \in Nat, at' \in Nat,
           phase' \in {"idle", "decode", "elide", "run", "exited", "wild"}, PhaseInv'
    PROVE  Inv'
BY DEF Inv, TypeOK, TableInv

\* One iteration of the elide pass: the successor is still as decoded, so the
\* entry may be retargeted, and the pass moves on past it.
LEMMA InvElideStep == Inv /\ ElideStep /\ UNCHANGED hvars => Inv'
<1> SUFFICES ASSUME Inv, ElideStep, UNCHANGED hvars PROVE Inv'
  OBVIOUS
<1> DEFINE next == at + mlen[at]
           sure == WritesAll(tab[next])
<1>1. /\ phase = "elide" /\ elide /\ at \in Entries /\ next < MPD_ENTRIES
      /\ tab' = IF sure THEN [tab EXCEPT ![at] = Retarget(@)] ELSE tab
      /\ at' = next /\ UNCHANGED <<elide, otab, mlen, n, phase>>
  BY DEF ElideStep, hvars, Inv, PhaseInv
<1>2. at \in Nat /\ mlen[at] \in Nat /\ next \in Entries /\ at <= next
  BY <1>1, RegionAssumption DEF Entries, Inv, TypeOK
<1>3. tab[at] = otab[at] /\ tab[next] = otab[next] /\ IsEntry(tab[at]) /\ otab[at].nf = FALSE
  BY <1>1, <1>2 DEF Inv, PhaseInv, TableInv, TypeOK
<1>4. DOMAIN tab' = Entries /\ \A i \in Entries : i # at => tab'[i] = tab[i]
  BY <1>1 DEF Inv, TypeOK
<1>5. tab'[at] = IF sure THEN Retarget(otab[at]) ELSE otab[at]
  BY <1>1, <1>3 DEF Inv, TypeOK
<1>6. ASSUME NEW i \in Entries, i = at PROVE Elided(i)'
  <2>1. CASE ~sure \/ ~WritesAll(otab[at])
    BY <2>1, <1>1, <1>3, <1>5, <1>6, RetargetKeeps DEF Elided
  <2>2. CASE sure /\ WritesAll(otab[at])
    <3>1. next = at + HandlerLen(otab[at].id)
      BY <2>2, <1>1 DEF Inv, TableInv
    <3> QED
      BY <2>2, <3>1, <1>1, <1>2, <1>3, <1>4, <1>5, <1>6 DEF Elided, Kills
  <2> QED
    BY <2>1, <2>2
<1>7. at' = at => tab'[at] = otab'[at]
  <2>1. WritesAll(otab[at]) => mlen[at] \in 1..3
    BY <1>1, HandlerLenPositive DEF Inv, TableInv
  <2> QED
    BY <2>1, <1>1, <1>2, <1>3, <1>5
<1>8. \A i \in Entries : i # at => (Elided(i) => Elided(i)')
  BY <1>1, <1>4 DEF Elided, Kills
<1>9. TypeOK'
  BY <1>1, <1>2, <1>3, <1>4, <1>5, RetargetKeeps DEF Inv, TypeOK
<1>10. TableInv'
  BY <1>1, <1>3, <1>4, <1>5, RetargetKeeps DEF Inv, TableInv
<1>11. PhaseInv'
  <2>1. ASSUME NEW i \in Entries, i < at' PROVE Elided(i)'
    <3>1. CASE i = at
      BY <3>1, <1>6
    <3>2. CASE i < at
      BY <3>2, <1>1, <1>8 DEF Inv, PhaseInv, Entries
    <3>3. CASE i > at
      BY <3>3, <1>1, <1>8 DEF Inv, PhaseInv, Entries, Elided
    <3> QED
      BY <3>1, <3>2, <3>3, <1>2, RegionAssumption DEF Entries
  <2>2. ASSUME NEW i \in Entries, ~(i < at') PROVE tab'[i] = otab'[i]
    <3>1. i >= at
      BY <2>2, <1>1, <1>2, RegionAssumption DEF Entries
    <3>2. CASE i = at
      BY <3>2, <2>2, <1>1, <1>2, <1>7, RegionAssumption DEF Entries
    <3>3. CASE i # at
      BY <3>1, <3>3, <1>1, <1>4 DEF Inv, PhaseInv, Entries
    <3> QED
      BY <3>2, <3>3
  <2> QED
    BY <2>1, <2>2, <1>1, <1>2 DEF PhaseInv
<1> QED
  BY <1>9, <1>10, <1>11 DEF Inv

LEMMA InvNext == Inv /\ [NextH]_evars => Inv'
<1> SUFFICES ASSUME Inv, [NextH]_evars PROVE Inv'
  OBVIOUS
<1>1. CASE SetupH
  BY <1>1, InvTables DEF SetupH, Setup, hvars, Inv, TypeOK, PhaseInv
<1>2. ASSUME NEW budget \in Budgets, EnterH(budget) PROVE Inv'
  <2>1. /\ phase' = "decode" /\ at' = 0 /\ n' \in Nat
        /\ UNCHANGED <<elide, tab, otab, mlen>>
    BY <1>2, ImageAssumption DEF EnterH, Enter
  <2>2. PhaseInv'
    BY <2>1, RegionAssumption DEF PhaseInv, Entries
  <2> QED
    BY <2>1, <2>2, InvTables
<1>3. CASE DecodeStepH
  BY <1>3, InvDecodeStep
<1>4. CASE ExecuteH
  <2>1. HandlerEffect /\ otab' = otab
    BY <1>4, ExecuteEffect DEF ExecuteH
  <2>2. /\ phase = "run" /\ n' \in Nat /\ at' \in Nat
        /\ UNCHANGED <<elide, tab, otab, mlen, phase>>
    BY <2>1 DEF HandlerEffect, Inv, TypeOK
  <2>3. PhaseInv'
    BY <2>2 DEF Inv, PhaseInv, Elided, Kills
  <2> QED
    BY <2>2, <2>3, InvTables
<1>5. CASE DecodeEnd /\ UNCHANGED hvars
  <2>1. /\ phase = "decode" /\ phase' \in {"elide", "run"} /\ at' = 0 /\ n' = n
        /\ phase' = "elide" => elide
        /\ UNCHANGED <<elide, tab, otab, mlen>>
    BY <1>5 DEF DecodeEnd, hvars, Inv, TypeOK
  <2>2. \A i \in Entries : tab'[i] = otab'[i]
    BY <1>5, <2>1, RegionAssumption DEF DecodeEnd, Inv, TypeOK, PhaseInv, Entries
  <2>3. PhaseInv'
    BY <2>1, <2>2, RegionAssumption DEF PhaseInv, Elided, Entries
  <2> QED
    BY <2>1, <2>3, InvTables DEF Inv, TypeOK
<1>6. CASE ElideStep /\ UNCHANGED hvars
  BY <1>6, InvElideStep
<1>7. CASE ElideEnd /\ UNCHANGED hvars
  <2>1. \A i \in Entries : Elided(i)'
    BY <1>7 DEF ElideEnd, hvars, Inv, PhaseInv, Elided, Kills
  <2> QED
    BY <1>7, <2>1, InvTables DEF ElideEnd, hvars, Inv, TypeOK, PhaseInv
<1>8. CASE (Illegal \/ BadAccess) /\ UNCHANGED hvars
  <2>1. phase' = "exited" /\ n' \in Nat /\ at' \in Nat /\ UNCHANGED <<elide, tab, otab, mlen>>
    BY <1>8 DEF Illegal, BadAccess, Running, hvars, Inv, TypeOK
  <2> QED
    BY <2>1, InvTables DEF PhaseInv
<1>9. CASE (BadSweep \/ Wild) /\ UNCHANGED hvars
  BY <1>9, InvTables DEF BadSweep, Wild, hvars, Inv, TypeOK, PhaseInv
<1>10. CASE Leave /\ UNCHANGED hvars
  BY <1>10, InvTables DEF Leave, hvars, Inv, TypeOK, PhaseInv
<1>11. CASE UNCHANGED evars
  BY <1>11 DEF evars, vars, hvars, Inv, TypeOK, TableInv, PhaseInv, Elided, Kills
<1> QED
  BY <1>1, <1>2, <1>3, <1>4, <1>5, <1>6, <1>7, <1>8, <1>9, <1>10, <1>11 DEF NextH, Work

THEOREM Invariance == SpecH => []Inv
BY InvInit, InvNext, PTL DEF SpecH

\* Type correctness of the predecoded backends.
THEOREM TypeCorrect == SpecH => []TypeOK
<1>1. Inv => TypeOK
  BY DEF Inv
<1> QED
  BY Invariance, <1>1, PTL

\* Every entry that runs is the decoded one, or its twin without flags in front
\* of an instruction that overwrites all four flags (m68k_pd_impl.h:267-298).
THEOREM ElisionIsSound == SpecH => []ElisionSound
<1>1. Inv => ElisionSound
  BY DEF Inv, PhaseInv, Elided, ElisionSound
<1> QED
  BY Invariance, <1>1, PTL
----------------------------------------------------------------------------
\* What a step of the eager run does: the entry that runs is the decoded one, or
\* its retargeting, and then the next instruction overwrites the flags.
LEMMA FlagStep ==
    ASSUME Inv, ExecuteH, ccr = shadow \/ (elide /\ Kills(cur))
    PROVE  /\ ~elide /\ ccr = shadow => ccr' = shadow'
           /\ ccr' = shadow' \/ (elide' /\ Kills(cur)')
<1>1. /\ HandlerEffect /\ cur \in Entries /\ otab' = otab /\ elide' = elide
      /\ shadow' = IF WritesAll(otab[cur]) THEN FlagsOf(otab[cur]) ELSE shadow
  BY ExecuteEffect DEF ExecuteH, HandlerEffect
<1>2. CASE tab[cur] = otab[cur]
  BY <1>1, <1>2 DEF HandlerEffect, Kills
<1>3. CASE tab[cur] # otab[cur]
  <2>1. /\ elide /\ tab[cur] = Retarget(otab[cur]) /\ IsEntry(otab[cur])
        /\ Kills(cur + HandlerLen(otab[cur].id)) /\ otab[cur].nf = FALSE
    BY <1>1, <1>3 DEF Inv, TypeOK, TableInv, PhaseInv, Elided, HandlerEffect
  <2>2. WritesAll(otab[cur])
    BY <1>3, <2>1, RetargetKeeps
  <2>3. cur' = cur + HandlerLen(otab[cur].id)
    <3>1. CASE otab[cur].id \in Elidable
      BY <3>1, <1>1, <2>1 DEF HandlerEffect, Retarget, IsElidable, IsEntry
    <3>2. CASE otab[cur].id \in PureFlag /\ otab[cur].id \notin Elidable
      BY <3>2, <1>1, <2>1
         DEF HandlerEffect, Retarget, IsElidable, IsEntry, PureFlag, HandlerLen
    <3> QED
      BY <3>1, <3>2, <2>2 DEF WritesAll
  <2>4. Kills(cur')
    BY <2>1, <2>3
  <2> QED
    BY <1>1, <2>1, <2>4 DEF Kills
<1> QED
  BY <1>2, <1>3

\* Backend B, which never elides, holds the exact flags after every step.
THEOREM EagerIsExactAlways == SpecH => []EagerIsExact
<1>1. InitH => EagerIsExact
  BY DEF InitH, Init, EagerIsExact
<1>2. Inv /\ EagerIsExact /\ [NextH]_evars => EagerIsExact'
  <2> SUFFICES ASSUME Inv, EagerIsExact, [NextH]_evars, ~elide' PROVE ccr' = shadow'
    BY DEF EagerIsExact
  <2>1. CASE ExecuteH
    <3>1. ~elide
      BY <2>1, ExecuteEffect DEF ExecuteH, HandlerEffect
    <3> QED
      BY <2>1, <3>1, FlagStep DEF EagerIsExact
  <2>2. CASE SetupH
    BY <2>2 DEF SetupH, Setup
  <2>3. CASE UNCHANGED <<elide, ccr, shadow>>
    BY <2>3 DEF EagerIsExact
  <2> QED
    BY <2>1, <2>2, <2>3
       DEF NextH, Work, EnterH, Enter, DecodeStepH, DecodeStep, DecodeEnd, ElideStep, ElideEnd,
           Illegal, BadAccess, BadSweep, Wild, Leave, evars, vars, hvars, cpu
<1> QED
  BY <1>1, <1>2, Invariance, PTL DEF SpecH
----------------------------------------------------------------------------
\* The words the sweep reads do not change unless the program stores there.
LEMMA SameLoad ==
    ASSUME NEW r1, NEW r2, NEW addr \in Nat, addr <= 2 * MPD_ENTRIES,
           \A a \in Swept : r1[a] = r2[a], NEW size \in {2, 4}
    PROVE  Load(r1, addr, size) = Load(r2, addr, size)
<1>1. Masked(addr) = addr
  BY RegionAssumption, MemoryAssumption DEF Masked
<1>2. /\ addr \in Swept /\ addr + 1 \in Swept /\ addr + 2 \in Swept /\ addr + 3 \in Swept
  BY RegionAssumption DEF Swept
<1>3. /\ r1[addr] = r2[addr] /\ r1[addr + 1] = r2[addr + 1]
      /\ r1[addr + 2] = r2[addr + 2] /\ r1[addr + 3] = r2[addr + 3]
  BY <1>2
<1> QED
  BY <1>1, <1>3 DEF Load

LEMMA SameDecoding ==
    ASSUME \A a \in Swept : ram'[a] = ram[a]
    PROVE  \A i \in Entries : DecodeAt(i)' = DecodeAt(i)
<1> SUFFICES ASSUME NEW i \in Entries PROVE DecodeAt(i)' = DecodeAt(i)
  OBVIOUS
<1>1. /\ 2 * i \in Nat /\ 2 * i <= 2 * MPD_ENTRIES
      /\ 2 * i + 2 \in Nat /\ 2 * i + 2 <= 2 * MPD_ENTRIES
  BY RegionAssumption DEF Entries
<1>2. Add(2 * i, 2) = 2 * i + 2
  BY <1>1, RegionAssumption, MemoryAssumption, WidthAssumption DEF Add
<1>3. /\ Load(ram', 2 * i, 2) = Load(ram, 2 * i, 2)
      /\ Load(ram', 2 * i + 2, 2) = Load(ram, 2 * i + 2, 2)
      /\ Load(ram', 2 * i + 2, 4) = Load(ram, 2 * i + 2, 4)
  BY <1>1, SameLoad
<1> QED
  BY <1>2, <1>3 DEF DecodeAt

\* H is the set of entries at which the sweep has stopped on its way to entry p,
\* and the table holds what it decoded there.
SweptTo(H, p) ==
    /\ H \subseteq 0..p /\ 0 \in H /\ p \in H
    /\ \A h \in H : h # p =>
         /\ h \in Entries /\ h + DecodeAt(h).len \in H
         /\ otab[h] = DecodeAt(h).ent
         /\ \A i \in Entries : h < i /\ i < h + DecodeAt(h).len => otab[i].id = "FILLER"

WholeTable == \E H : SweptTo(H, MPD_ENTRIES)
HeadOfTable(i) == \E H : i \in H /\ SweptTo(H, MPD_ENTRIES)
Dead(i) == elide /\ Kills(i)

\* Between two sprints stale flags survive only with the table that shows them
\* dead; the sweep of the next sprint rewrites that table entry by entry with
\* what it already holds.
FlagInv ==
    ~modified =>
      /\ phase = "idle" => ccr = shadow \/ (Dead(mpc \div 2) /\ WholeTable)
      /\ phase = "decode" =>
           /\ ccr = shadow \/ (Dead(mpc \div 2) /\ HeadOfTable(at))
           /\ \E H : SweptTo(H, at)
      /\ phase \in {"elide", "run"} => (ccr = shadow \/ Dead(cur)) /\ WholeTable

\* The same table over the same code.
LEMMA SameSwept ==
    ASSUME \A i \in Entries : DecodeAt(i)' = DecodeAt(i),
           \A i \in Entries : otab'[i] = otab[i]
    PROVE  \A H : SweptTo(H, MPD_ENTRIES) => SweptTo(H, MPD_ENTRIES)'
BY DEF SweptTo

\* Decoding an entry again: the table already holds what is written.
LEMMA SweepAgain ==
    ASSUME Inv, DecodeStepH, NEW H, at \in H, SweptTo(H, MPD_ENTRIES)
    PROVE  \A i \in Entries : otab'[i] = otab[i]
<1> DEFINE len == Decoded.len
           e   == Decoded.ent
<1>1. /\ at \in Entries /\ at # MPD_ENTRIES /\ len \in 1..3
      /\ DOMAIN otab = Entries /\ otab' = Fill(otab, at, e, len)
      /\ otab[at] = e
      /\ \A i \in Entries : at < i /\ i < at + len => otab[i].id = "FILLER"
  BY DecodedIsGood, RegionAssumption
     DEF DecodeStepH, DecodeStep, GoodDecoding, Inv, TypeOK, Entries, SweptTo, Decoded
<1> HIDE DEF len, e
<1>2. \A i \in Entries : at < i /\ i < at + len => Filler(otab[i]) = otab[i]
  BY <1>1, FillerAgain DEF Inv, TypeOK, TableInv
<1>3. \A i \in Entries : i = at \/ (at < i /\ i < at + len) \/ i < at \/ i >= at + len
  BY <1>1, RegionAssumption DEF Entries
<1> QED
  BY <1>1, <1>2, <1>3, FillEntry

\* Decoding the next entry: the swept part grows by it.
LEMMA SweepOn ==
    ASSUME Inv, DecodeStepH, NEW H, SweptTo(H, at)
    PROVE  \E H1 : SweptTo(H1, at)'
<1> DEFINE len == Decoded.len
           e   == Decoded.ent
<1>0. PICK p : p = at + len
  OBVIOUS
<1>1. /\ at \in Entries /\ len \in 1..3 /\ at' = p
      /\ DOMAIN otab = Entries /\ otab' = Fill(otab, at, e, len)
      /\ len = DecodeAt(at).len /\ e = DecodeAt(at).ent
  BY <1>0, DecodedIsGood, RegionAssumption
     DEF DecodeStepH, DecodeStep, GoodDecoding, Inv, TypeOK, Entries, Decoded
<1>2. \A i \in Entries : DecodeAt(i)' = DecodeAt(i)
  BY SameDecoding DEF DecodeStepH, DecodeStep
<1> HIDE DEF len, e
<1>3. /\ otab'[at] = e
      /\ \A i \in Entries : i < at => otab'[i] = otab[i]
      /\ \A i \in Entries : at < i /\ i < at + len => otab'[i] = Filler(otab[i])
  BY <1>1, FillEntry
<1>4. \A i \in Entries : at < i /\ i < at + len => otab'[i].id = "FILLER"
  BY <1>3, FillerFacts
<1>5. at \in Nat /\ Entries \subseteq Nat /\ p \in Nat /\ at < p
  BY <1>0, <1>1, RegionAssumption DEF Entries
<1>6. \A i \in Entries : DecodeAt(i).len \in 1..3
  BY DecodeIsGood DEF DecodeAt, GoodDecoding
<1>7. /\ H \subseteq 0..at /\ 0 \in H /\ at \in H
      /\ \A h \in H : h # at =>
           /\ h \in Entries /\ h + DecodeAt(h).len \in H
           /\ otab[h] = DecodeAt(h).ent
           /\ \A i \in Entries : h < i /\ i < h + DecodeAt(h).len => otab[i].id = "FILLER"
  BY DEF SweptTo
<1>8. H \cup {p} \subseteq 0..p
  BY <1>5, <1>7
<1>9. ASSUME NEW h \in H, h # at
      PROVE  /\ h \in Entries /\ h + DecodeAt(h).len \in H /\ otab'[h] = DecodeAt(h).ent
             /\ \A i \in Entries : h < i /\ i < h + DecodeAt(h).len => otab'[i].id = "FILLER"
  <2> DEFINE l == DecodeAt(h).len
  <2>1. h \in Entries /\ h + l \in H
    BY <1>7, <1>9
  <2>2. h \in Nat /\ l \in 1..3 /\ h + l <= at /\ h < at
    BY <2>1, <1>5, <1>6, <1>7
  <2> HIDE DEF l
  <2>3. \A i \in Entries : i < h + l => i < at
    BY <2>2, <1>5
  <2> QED
    BY <2>1, <2>2, <2>3, <1>3, <1>7, <1>9 DEF l
<1>10. ASSUME NEW h \in H \cup {p}, h # p
       PROVE  /\ h \in Entries /\ h + DecodeAt(h)'.len \in H \cup {p}
              /\ otab'[h] = DecodeAt(h)'.ent
              /\ \A i \in Entries : h < i /\ i < h + DecodeAt(h)'.len => otab'[i].id = "FILLER"
  <2>1. CASE h = at
    BY <2>1, <1>0, <1>1, <1>2, <1>3, <1>4
  <2>2. CASE h # at
    <3>1. h \in H
      BY <1>10
    <3> QED
      BY <2>2, <3>1, <1>2, <1>9
  <2> QED
    BY <2>1, <2>2
<1>11. SweptTo(H \cup {p}, at)'
  BY <1>1, <1>7, <1>8, <1>10 DEF SweptTo
<1> QED
  BY <1>11

\* The code, the table and the mode are as before, and so is what is dead.
LEMMA SameDead ==
    ASSUME \A i \in Entries : DecodeAt(i)' = DecodeAt(i),
           \A i \in Entries : otab'[i] = otab[i], elide' = elide
    PROVE  /\ WholeTable => WholeTable'
           /\ \A i : Dead(i) => Dead(i)'
<1>1. WholeTable => WholeTable'
  BY SameSwept DEF WholeTable
<1>2. \A i : Dead(i) => Dead(i)'
  BY DEF Dead, Kills
<1> QED
  BY <1>1, <1>2

LEMMA FlagDecodeStep == Inv /\ FlagInv /\ DecodeStepH => FlagInv'
<1> SUFFICES ASSUME Inv, FlagInv, DecodeStepH, ~modified' PROVE FlagInv'
  BY DEF FlagInv
<1>1. /\ phase = "decode" /\ phase' = "decode" /\ modified' = modified /\ at # MPD_ENTRIES
      /\ UNCHANGED <<elide, ccr, shadow, mpc>> /\ at' = at + Decoded.len
      /\ \A i \in Entries : DecodeAt(i)' = DecodeAt(i)
  BY SameDecoding, RegionAssumption DEF DecodeStepH, DecodeStep, cpu, Inv, TypeOK
<1>2. \E H1 : SweptTo(H1, at)'
  BY <1>1, SweepOn DEF FlagInv
<1>3. CASE ccr = shadow
  BY <1>1, <1>2, <1>3 DEF FlagInv
<1>4. CASE Dead(mpc \div 2) /\ HeadOfTable(at)
  <2>1. PICK H : at \in H /\ SweptTo(H, MPD_ENTRIES)
    BY <1>4 DEF HeadOfTable
  <2>2. \A i \in Entries : otab'[i] = otab[i]
    BY <2>1, SweepAgain
  <2>3. SweptTo(H, MPD_ENTRIES)'
    BY <1>1, <2>1, <2>2, SameSwept
  <2>4. at + Decoded.len \in H
    BY <1>1, <2>1 DEF SweptTo, Decoded
  <2>5. HeadOfTable(at)'
    BY <1>1, <2>3, <2>4 DEF HeadOfTable
  <2>6. Dead(mpc \div 2)'
    BY <1>1, <1>4, <2>2 DEF Dead, Kills
  <2> QED
    BY <1>1, <1>2, <2>5, <2>6 DEF FlagInv
<1> QED
  BY <1>1, <1>3, <1>4 DEF FlagInv

LEMMA FlagExecute == Inv /\ FlagInv /\ ExecuteH => FlagInv'
<1> SUFFICES ASSUME Inv, FlagInv, ExecuteH, ~modified' PROVE FlagInv'
  BY DEF FlagInv
<1>1. /\ phase = "run" /\ phase' = "run" /\ ~modified /\ elide' = elide /\ otab' = otab
      /\ \A a \in Swept : ram'[a] = ram[a]
  BY ExecuteEffect DEF ExecuteH, HandlerEffect
<1>2. \A i \in Entries : DecodeAt(i)' = DecodeAt(i)
  BY <1>1, SameDecoding
<1>3. WholeTable'
  BY <1>1, <1>2, SameDead DEF FlagInv
<1>4. ccr' = shadow' \/ Dead(cur)'
  BY <1>1, FlagStep DEF FlagInv, Dead
<1> QED
  BY <1>1, <1>3, <1>4 DEF FlagInv

LEMMA FlagNext == Inv /\ FlagInv /\ [NextH]_evars => FlagInv'
<1> SUFFICES ASSUME Inv, FlagInv, [NextH]_evars PROVE FlagInv'
  OBVIOUS
<1>1. CASE SetupH
  BY <1>1 DEF SetupH, Setup, FlagInv
<1>2. ASSUME NEW budget \in Budgets, EnterH(budget) PROVE FlagInv'
  <2>1. /\ phase = "idle" /\ phase' = "decode" /\ at' = 0
        /\ UNCHANGED <<elide, ccr, shadow, mpc, ram, otab, modified>>
    BY <1>2 DEF EnterH, Enter, cpu
  <2>2. /\ \A i \in Entries : DecodeAt(i)' = DecodeAt(i)
        /\ \A i \in Entries : otab'[i] = otab[i]
    BY <2>1, SameDecoding
  <2>3. SweptTo({0}, at)'
    BY <2>1 DEF SweptTo
  <2>4. WholeTable => HeadOfTable(at)'
    BY <2>1, <2>2, SameSwept DEF WholeTable, HeadOfTable, SweptTo
  <2>5. Dead(mpc \div 2) => Dead(mpc \div 2)'
    BY <2>1 DEF Dead, Kills
  <2> QED
    BY <2>1, <2>3, <2>4, <2>5 DEF FlagInv
<1>3. CASE DecodeStepH
  BY <1>3, FlagDecodeStep
<1>4. CASE ExecuteH
  BY <1>4, FlagExecute
<1>5. CASE DecodeEnd /\ UNCHANGED hvars
  <2>1. /\ phase = "decode" /\ phase' \in {"elide", "run"} /\ at = MPD_ENTRIES
        /\ cur' = mpc \div 2 /\ UNCHANGED <<elide, ccr, shadow, ram, otab, modified>>
    BY <1>5, RegionAssumption DEF DecodeEnd, hvars, cpu, Inv, TypeOK, PhaseInv
  <2>2. /\ \A i \in Entries : DecodeAt(i)' = DecodeAt(i)
        /\ \A i \in Entries : otab'[i] = otab[i]
    BY <2>1, SameDecoding
  <2>3. ~modified => WholeTable'
    BY <2>1, <2>2, SameSwept DEF FlagInv, WholeTable
  <2>4. Dead(mpc \div 2) => Dead(cur)'
    BY <2>1 DEF Dead, Kills
  <2> QED
    BY <2>1, <2>3, <2>4 DEF FlagInv
<1>6. CASE (ElideStep \/ ElideEnd) /\ UNCHANGED hvars
  <2>1. /\ phase = "elide" /\ phase' \in {"elide", "run"}
        /\ UNCHANGED <<elide, ccr, shadow, cur, ram, otab, modified>>
    BY <1>6 DEF ElideStep, ElideEnd, hvars, cpu
  <2>2. WholeTable => WholeTable'
    BY <2>1, SameDecoding, SameDead
  <2>3. Dead(cur) => Dead(cur)'
    BY <2>1 DEF Dead, Kills
  <2> QED
    BY <2>1, <2>2, <2>3 DEF FlagInv
<1>7. CASE (Illegal \/ BadAccess \/ BadSweep \/ Wild) /\ UNCHANGED hvars
  BY <1>7 DEF Illegal, BadAccess, BadSweep, Wild, FlagInv
<1>8. CASE Leave /\ UNCHANGED hvars
  <2>1. /\ phase = "run" /\ phase' = "idle" /\ mpc' = (2 * cur) % LongMod
        /\ UNCHANGED <<elide, ccr, shadow, cur, ram, otab, modified>>
    BY <1>8 DEF Leave, hvars, cpu
  <2>2. WholeTable => WholeTable'
    BY <2>1, SameDecoding, SameDead
  <2>3. ASSUME Dead(cur) PROVE Dead(mpc \div 2)'
    <3>1. cur \in Nat /\ 2 * cur < LongMod /\ LongMod \in Nat
      BY <2>3, RegionAssumption, MemoryAssumption, WidthAssumption DEF Dead, Kills, Entries
    <3>2. (2 * cur) % LongMod = 2 * cur
      BY <3>1
    <3>3. mpc' \div 2 = cur
      BY <3>1, <3>2, <2>1
    <3> QED
      BY <2>1, <2>3, <3>3 DEF Dead, Kills
  <2> QED
    BY <2>1, <2>2, <2>3 DEF FlagInv
<1>9. CASE UNCHANGED evars
  <2>1. UNCHANGED <<elide, ccr, shadow, cur, mpc, ram, otab, modified, phase, at>>
    BY <1>9 DEF evars, vars, hvars, cpu
  <2> QED
    BY <2>1 DEF FlagInv, WholeTable, HeadOfTable, SweptTo, DecodeAt, Dead, Kills
<1> QED
  BY <1>1, <1>2, <1>3, <1>4, <1>5, <1>6, <1>7, <1>8, <1>9 DEF NextH, Work

\* In every sprint of every program that does not store into its own code,
\* backend C holds the exact flags, or flags that the next instruction to run
\* overwrites (m68k_pd_impl.h:15-21).
THEOREM FlagsAreExactOrDead == SpecH => []FlagsExactOrDead
<1>1. InitH => FlagInv
  BY DEF InitH, Init, FlagInv
<1>2. FlagInv => FlagsExactOrDead
  BY DEF FlagInv, FlagsExactOrDead, Dead
<1> QED
  BY <1>1, <1>2, FlagNext, Invariance, PTL DEF SpecH
----------------------------------------------------------------------------
\* The sweep has decoded what it left behind it, and RAM has not changed since:
\* every entry before `at` is fresh.
SweptFresh == (phase = "decode" /\ elide) => \A i \in Entries : i < at => FreshAt(i)

FreshInv == Inv /\ SweptFresh /\ TableIsFresh

\* Freshness looks at the decoded table, the lengths and RAM, nothing else.
LEMMA FreshKeeps ==
    ASSUME UNCHANGED <<otab, mlen, ram>>, NEW i \in Entries, FreshAt(i)
    PROVE  FreshAt(i)'
BY DEF FreshAt, DecodeAt

LEMMA FreshDecodeStep == Inv /\ SweptFresh /\ DecodeStepH => SweptFresh'
<1> SUFFICES ASSUME Inv, SweptFresh, DecodeStepH, elide, NEW i \in Entries, i < at'
             PROVE  FreshAt(i)'
  BY DEF SweptFresh, DecodeStepH, DecodeStep
<1> DEFINE len == DecodeAt(at).len
           e   == DecodeAt(at).ent
<1>1. /\ len \in 1..3 /\ at \in Entries /\ at' = at + len /\ at \in Nat /\ i \in Nat
      /\ IsEntry(e) /\ e.id # "FILLER"
  <2>1. GoodDecoding(DecodeAt(at))
    BY DecodedIsGood DEF Decoded
  <2>2. at \in Nat /\ at < MPD_ENTRIES /\ at' = at + DecodeAt(at).len
    BY DEF DecodeStepH, DecodeStep, Decoded, Inv, TypeOK
  <2>3. at \in Entries /\ i \in Nat
    BY <2>2, RegionAssumption DEF Entries
  <2> QED
    BY <2>1, <2>2, <2>3 DEF GoodDecoding
<1>2. /\ otab' = Fill(otab, at, e, len) /\ mlen' = [mlen EXCEPT ![at] = len] /\ ram' = ram
      /\ phase = "decode" /\ DOMAIN otab = Entries /\ mlen \in [Entries -> 0..3]
  BY DEF DecodeStepH, DecodeStep, Decoded, Inv, TypeOK
<1>3. \A j \in Entries : DecodeAt(j)' = DecodeAt(j)
  BY <1>2 DEF DecodeAt
<1> HIDE DEF len, e
<1>4. /\ otab'[at] = e /\ mlen'[at] = len
      /\ \A j \in Entries : j < at => otab'[j] = otab[j] /\ mlen'[j] = mlen[j]
      /\ \A j \in Entries : at < j /\ j < at + len => otab'[j] = Filler(otab[j])
  <2>1. \A j \in Entries : j < at => j # at
    BY <1>1, RegionAssumption DEF Entries
  <2>2. mlen'[at] = len /\ \A j \in Entries : j < at => mlen'[j] = mlen[j]
    BY <1>1, <1>2, <2>1
  <2>3. /\ otab'[at] = e
        /\ \A j \in Entries : at < j /\ j < at + len => otab'[j] = Filler(otab[j])
        /\ \A j \in Entries : j < at => otab'[j] = otab[j]
    <3>1. otab' = Fill(otab, at, e, len) /\ DOMAIN otab = Entries /\ at \in Entries /\ len \in 1..3
      BY <1>1, <1>2
    <3> QED
      BY <3>1, FillEntry
  <2> QED
    BY <2>2, <2>3
<1>5. CASE i < at
  <2>1. FreshAt(i)
    BY <1>2, <1>5 DEF SweptFresh
  <2>2. otab'[i] = otab[i] /\ mlen'[i] = mlen[i] /\ DecodeAt(i)' = DecodeAt(i)
    BY <1>3, <1>4, <1>5
  <2>3. CASE otab[i].id = "FILLER"
    <3>1. PICK j \in Entries : j < i /\ i < j + mlen[j] /\ otab[j].id # "FILLER"
      BY <2>1, <2>3 DEF FreshAt
    <3>2. j < at
      BY <1>1, <1>5, <3>1, RegionAssumption DEF Entries
    <3>3. otab'[j] = otab[j] /\ mlen'[j] = mlen[j]
      BY <1>4, <3>2
    <3> QED
      BY <2>2, <2>3, <3>1, <3>3 DEF FreshAt
  <2>4. CASE otab[i].id # "FILLER"
    BY <2>1, <2>2, <2>4 DEF FreshAt
  <2> QED
    BY <2>3, <2>4
<1>6. CASE i = at
  BY <1>1, <1>3, <1>4, <1>6 DEF FreshAt, len, e
<1>7. CASE at < i
  <2>1. i < at + len /\ otab'[i] = Filler(otab[i])
    BY <1>1, <1>4, <1>7
  <2>2. otab'[i].id = "FILLER"
    BY <2>1, FillerFacts
  <2>3. at < i /\ i < at + mlen'[at] /\ otab'[at].id # "FILLER"
    BY <1>1, <1>4, <1>7, <2>1
  <2> QED
    BY <1>1, <2>2, <2>3 DEF FreshAt
<1> QED
  BY <1>1, <1>5, <1>6, <1>7

LEMMA FreshNext == FreshInv /\ [NextH]_evars => FreshInv'
<1> SUFFICES ASSUME FreshInv, [NextH]_evars PROVE FreshInv'
  OBVIOUS
<1>1. Inv'
  BY InvNext DEF FreshInv
<1>2. CASE DecodeStepH
  <2>1. SweptFresh'
    BY <1>2, FreshDecodeStep DEF FreshInv
  <2>2. phase' = "decode"
    BY <1>2 DEF DecodeStepH, DecodeStep
  <2> QED
    BY <1>1, <2>1, <2>2 DEF FreshInv, TableIsFresh
<1>3. CASE DecodeEnd /\ UNCHANGED hvars
  <2>1. /\ phase = "decode" /\ phase' \in {"elide", "run"} /\ at >= MPD_ENTRIES /\ at \in Nat
        /\ phase' = "elide" => elide
        /\ UNCHANGED <<otab, mlen, ram>>
    BY <1>3 DEF DecodeEnd, hvars, FreshInv, Inv, TypeOK
  <2>2. \A i \in Entries : i < at
    BY <2>1, RegionAssumption DEF Entries
  <2>3. phase' = "elide" => \A i \in Entries : FreshAt(i)'
    BY <2>1, <2>2, FreshKeeps DEF FreshInv, SweptFresh
  <2> QED
    BY <1>1, <2>1, <2>3 DEF FreshInv, SweptFresh, TableIsFresh
<1>4. ASSUME NEW budget \in Budgets, EnterH(budget) PROVE FreshInv'
  <2>1. phase' = "decode" /\ at' = 0
    BY <1>4 DEF EnterH, Enter
  <2>2. SweptFresh'
    BY <2>1, RegionAssumption DEF SweptFresh, Entries
  <2> QED
    BY <1>1, <2>1, <2>2 DEF FreshInv, TableIsFresh
<1>5. CASE ElideStep /\ UNCHANGED hvars
  <2>1. /\ phase = "elide" /\ phase' = "elide" /\ at' = at + mlen[at]
        /\ UNCHANGED <<otab, mlen, ram>> /\ at \in Entries /\ mlen[at] \in Nat
    BY <1>5, RegionAssumption DEF ElideStep, hvars, FreshInv, Inv, TypeOK, PhaseInv
  <2>2. at' = 0 => at = 0
    BY <2>1, RegionAssumption DEF Entries
  <2>3. at' = 0 => \A i \in Entries : FreshAt(i)'
    BY <2>1, <2>2, FreshKeeps DEF FreshInv, TableIsFresh
  <2> QED
    BY <1>1, <2>1, <2>3 DEF FreshInv, SweptFresh, TableIsFresh
<1>6. CASE ElideEnd \/ Illegal \/ BadAccess \/ BadSweep \/ Wild \/ Leave \/ SetupH
  <2>1. phase' \notin {"decode", "elide"}
    BY <1>6 DEF ElideEnd, Illegal, BadAccess, BadSweep, Wild, Leave, SetupH, Setup
  <2> QED
    BY <1>1, <2>1 DEF FreshInv, SweptFresh, TableIsFresh
<1>7. CASE ExecuteH
  <2>1. phase' = "run"
    BY <1>7, ExecuteEffect DEF ExecuteH, HandlerEffect, FreshInv
  <2> QED
    BY <1>1, <2>1 DEF FreshInv, SweptFresh, TableIsFresh
<1>8. CASE UNCHANGED evars
  <2>1. UNCHANGED <<phase, elide, at, otab, mlen, ram>>
    BY <1>8 DEF evars, vars, hvars
  <2>2. SweptFresh' /\ TableIsFresh'
    BY <2>1, FreshKeeps DEF FreshInv, SweptFresh, TableIsFresh
  <2> QED
    BY <1>1, <2>2 DEF FreshInv
<1> QED
  BY <1>2, <1>3, <1>4, <1>5, <1>6, <1>7, <1>8 DEF NextH, Work

\* Nothing of an earlier kernel, or of code since overwritten, outlives a sweep:
\* when the elide pass starts every entry is the decoding of its word or a
\* filler behind the instruction that covers it (m68k_pd_impl.h:303-311).
THEOREM FreshTable == SpecH => []TableIsFresh
<1>1. InitH => FreshInv
  BY InvInit DEF InitH, Init, FreshInv, SweptFresh, TableIsFresh
<1>2. FreshInv => TableIsFresh
  BY DEF FreshInv
<1> QED
  BY <1>1, <1>2, FreshNext, PTL DEF SpecH
=============================================================================
