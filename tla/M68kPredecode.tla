--------------------------- MODULE M68kPredecode ---------------------------
(***************************************************************************)
(* Backends B and C, m68k/m68k_pd_impl.h: decode the whole region into a   *)
(* table with one entry per guest word, optionally retarget instructions   *)
(* whose flags are dead (backend C, M68K_ELIDE), then run `budget`         *)
(* instructions from the table.                                            *)
(*                                                                         *)
(* One action per iteration of the decode sweep, per iteration of the      *)
(* elide pass, and per handler.  The table and the lengths are static in   *)
(* the code: they keep their contents from one call to the next.  An       *)
(* access outside the table is undefined behaviour in C: phase = "wild"    *)
(* stands for everything that may follow it.                               *)
(***************************************************************************)
EXTENDS M68kDecode

VARIABLES
    elide,    \* TRUE in the object built with -DM68K_ELIDE; never changes
    kernel,   \* the kernel of the last setup
    regs, ccr, x, ram,
    mpc,      \* m->pc
    tab,      \* MPD_TAB
    mlen,     \* MPD_LEN (written by backend C only)
    at,       \* entry index of the decode sweep or of the elide pass
    cur,      \* entry index of the next instruction
    n,        \* instructions left in the sprint
    phase,    \* "idle", "decode", "elide", "run", "exited" or "wild"
    sprints   \* calls of the backend so far (bounded by MaxSprints)

cpu  == <<kernel, regs, ccr, x>>
vars == <<elide, cpu, ram, mpc, tab, mlen, at, cur, n, phase, sprints>>
----------------------------------------------------------------------------
Init ==
    /\ elide \in BOOLEAN
    /\ regs = ZeroRegs /\ ccr = ZeroFlags /\ x = FALSE
    /\ kernel \in Kernels /\ ram = Image(kernel)
    /\ mpc = CODE_BASE
    /\ tab = [i \in Entries |-> Entry("ILLEGAL", 0, 0, 0)]   \* zeroed statics
    /\ mlen = [i \in Entries |-> 0]
    /\ at = 0 /\ cur = 0 /\ n = 0 /\ phase = "idle" /\ sprints = 0

\* Between two calls the harness may set up a kernel again; the static table
\* keeps what the last kernel left in it.
Setup ==
    /\ phase = "idle" /\ sprints \in 1..(MaxSprints - 1)
    /\ regs' = ZeroRegs /\ ccr' = ZeroFlags /\ x' = FALSE
    /\ kernel' \in Kernels /\ ram' = Image(kernel') /\ mpc' = CODE_BASE
    /\ UNCHANGED <<elide, tab, mlen, at, cur, n, phase, sprints>>

\* Mutant: the region is decoded in the first call only.
MutEnter(budget) ==
    /\ phase = "idle" /\ sprints < MaxSprints
    /\ phase' = IF sprints = 0 THEN "decode" ELSE "run"
    /\ cur' = mpc \div 2
    /\ at' = 0 /\ n' = budget /\ sprints' = sprints + 1
    /\ UNCHANGED <<elide, cpu, ram, mpc, tab, mlen>>

\* The harness calls the backend, which first decodes the whole region.
Enter(budget) ==
    /\ phase = "idle" /\ sprints < MaxSprints
    /\ phase' = "decode" /\ at' = 0 /\ n' = budget /\ sprints' = sprints + 1
    /\ UNCHANGED <<elide, cpu, ram, mpc, tab, mlen, cur>>

\* One iteration of the sweep: the entry, its length, and its fillers, whose
\* operands keep what an earlier sweep left in them.
DecodeAt(i) ==
    Decode(OpcodeOf[Load(ram, 2 * i, 2)],
           Load(ram, Add(2 * i, 2), 2), Load(ram, Add(2 * i, 2), 4), 2 * i)
Decoded == DecodeAt(at)
SweepReads == Fast(2 * at, 2) /\ (Decoded.len = 3 => Fast(2 * at + 2, 4))

\* Mutant: the trailing words keep the entries of an earlier sweep.
MutFill(t, head, e, len) == [t EXCEPT ![head] = e]

Fill(t, head, e, len) ==
    [i \in DOMAIN t |->
        IF i = head THEN e
        ELSE IF i \in (head + 1)..(head + len - 1)
             THEN Filler(t[i])
             ELSE t[i]]

\* Mutants: the length kept in bytes, the length not kept.
MutByteLength ==
    /\ phase = "decode" /\ at < MPD_ENTRIES /\ SweepReads
    /\ at + Decoded.len <= MPD_ENTRIES
    /\ tab' = Fill(tab, at, Decoded.ent, Decoded.len)
    /\ mlen' = IF elide THEN [mlen EXCEPT ![at] = 2 * Decoded.len] ELSE mlen
    /\ at' = at + Decoded.len
    /\ UNCHANGED <<elide, cpu, ram, mpc, cur, n, phase, sprints>>
MutNoLength ==
    /\ phase = "decode" /\ at < MPD_ENTRIES /\ SweepReads
    /\ at + Decoded.len <= MPD_ENTRIES
    /\ tab' = Fill(tab, at, Decoded.ent, Decoded.len)
    /\ at' = at + Decoded.len
    /\ UNCHANGED <<elide, cpu, ram, mpc, mlen, cur, n, phase, sprints>>

DecodeStep ==
    /\ phase = "decode" /\ at < MPD_ENTRIES /\ SweepReads
    /\ at + Decoded.len <= MPD_ENTRIES
    /\ tab' = Fill(tab, at, Decoded.ent, Decoded.len)
    /\ mlen' = IF elide THEN [mlen EXCEPT ![at] = Decoded.len] ELSE mlen
    /\ at' = at + Decoded.len
    /\ UNCHANGED <<elide, cpu, ram, mpc, cur, n, phase, sprints>>

\* The sweep ends; backend C goes on to the elide pass.
DecodeEnd ==
    /\ phase = "decode" /\ at >= MPD_ENTRIES
    /\ phase' = IF elide THEN "elide" ELSE "run"
    /\ at' = 0 /\ cur' = mpc \div 2
    /\ UNCHANGED <<elide, cpu, ram, mpc, tab, mlen, n, sprints>>
----------------------------------------------------------------------------
\* Mutant: a successor that reads no flags counts as one that overwrites them.
MutElideStep ==
    LET next == at + mlen[at]
        reads(e) == e.id \in {BccId(c) : c \in Conds}
    IN /\ phase = "elide" /\ at < MPD_ENTRIES /\ next < MPD_ENTRIES
       /\ tab' = IF ~reads(tab[next]) THEN [tab EXCEPT ![at] = Retarget(@)] ELSE tab
       /\ at' = next
       /\ UNCHANGED <<elide, cpu, ram, mpc, mlen, cur, n, phase, sprints>>

\* One iteration of mpd_elide_pass.
ElideStep ==
    LET next == at + mlen[at]
    IN /\ phase = "elide" /\ at < MPD_ENTRIES /\ next < MPD_ENTRIES
       /\ tab' = IF WritesAll(tab[next]) THEN [tab EXCEPT ![at] = Retarget(@)] ELSE tab
       /\ at' = next
       /\ UNCHANGED <<elide, cpu, ram, mpc, mlen, cur, n, phase, sprints>>

ElideEnd ==
    /\ phase = "elide" /\ (at >= MPD_ENTRIES \/ at + mlen[at] >= MPD_ENTRIES)
    /\ phase' = "run"
    /\ UNCHANGED <<elide, cpu, ram, mpc, tab, mlen, at, cur, n, sprints>>
----------------------------------------------------------------------------
Running == phase = "run" /\ n > 0 /\ cur \in Entries

E == tab[cur]
S == regs[E.b]               \* source register operand
D == regs[E.a]               \* destination register operand
EA == Add(S, E.c)            \* d16(An)
\* Mutant: the bit below the last one shifted out to the right.
MutShiftedOut(e) ==
    (regs[e.a] \div 2^(IF e.id = "LSL_L_IMM" THEN LongBits - e.b ELSE e.b)) % 2 = 1
ShiftedOut(e) ==
    (regs[e.a] \div 2^(IF e.id = "LSL_L_IMM" THEN LongBits - e.b ELSE e.b - 1)) % 2 = 1
Shifted(e) ==
    IF e.id = "LSL_L_IMM" THEN (regs[e.a] % 2^(LongBits - e.b)) * 2^e.b ELSE regs[e.a] \div 2^e.b

\* The flags the handler of e computes when it does (FL = 1).
FlagsOf(e) ==
    LET s == regs[e.b]
        d == regs[e.a]
        ea == Add(s, e.c)
    IN CASE e.id \in {"MOVEQ", "MV_L_IMM_DN"} -> cc_nz_l(e.c)
         [] e.id = "MV_W_IMM_DN" -> cc_nz_w(e.c)
         [] e.id = "MV_L_DD"     -> cc_nz_l(s)
         [] e.id = "MV_L_ANP_DN" -> cc_nz_l(Load(ram, s, 4))
         [] e.id = "MV_L_D16_DN" -> cc_nz_l(Load(ram, ea, 4))
         [] e.id = "MV_W_D16_DN" -> cc_nz_w(Load(ram, ea, 2))
         [] e.id = "MV_B_D16_DN" -> cc_nz_b(Load(ram, ea, 1))
         [] e.id \in {"MV_L_DN_ANP", "MV_L_DN_D16", "TST_L_DN"} -> cc_nz_l(d)
         [] e.id \in {"MV_W_DN_D16", "TST_W_DN"} -> cc_nz_w(d)
         [] e.id \in {"MV_B_DN_D16", "TST_B_DN"} -> cc_nz_b(d)
         [] e.id = "ADD_L_DD"    -> cc_add_l(s, d, Add(d, s))
         [] e.id = "SUB_L_DD"    -> cc_sub_l(s, d, Sub(d, s))
         [] e.id = "ADDQ_L_DN"   -> cc_add_l(e.b, d, Add(d, e.b))
         [] e.id = "SUBQ_L_DN"   -> cc_sub_l(e.b, d, Sub(d, e.b))
         [] e.id = "AND_L_DD"    -> cc_nz_l(And(d, s))
         [] e.id = "OR_L_DD"     -> cc_nz_l(Or(d, s))
         [] e.id = "EOR_L_DD"    -> cc_nz_l(Eor(d, s))
         [] e.id \in {"LSL_L_IMM", "LSR_L_IMM"} -> cc_shift(Shifted(e), ShiftedOut(e))
         [] e.id = "CMP_L_DD"    -> cc_cmp_l(s, d, Sub(d, s))
         [] e.id = "CMPI_L_DN"   -> cc_cmp_l(e.c, d, Sub(d, e.c))

\* What every handler does after its body: flags, cur, n.
Step(id, f, next) ==
    /\ Running /\ E.id = id
    /\ ccr' = f /\ cur' = next /\ n' = n - 1
    /\ UNCHANGED <<elide, kernel, mpc, tab, mlen, at, phase, sprints>>

\* HPAIR: the body runs in both twins, the condition codes only where FL = 1.
HPair(id, len, r, x1, m) ==
    /\ Step(id, IF E.nf THEN ccr ELSE FlagsOf(E), cur + len)
    /\ regs' = r /\ x' = x1 /\ ram' = m

\* A handler that writes register E.a only.
SetReg(id, len, r) == HPair(id, len, [regs EXCEPT ![E.a] = r], x, ram)
SetRegX(id, r, x1) == HPair(id, 1, [regs EXCEPT ![E.a] = r], x1, ram)

MoveImm ==
    \/ SetReg("MOVEQ", 1, E.c)
    \/ SetReg("MV_L_IMM_DN", 3, E.c)
    \/ SetReg("MV_W_IMM_DN", 2, Merge(D, E.c, WordMod))
    \/ SetReg("MV_L_DD", 1, S)

MovePostInc ==
    /\ Running /\ Fast(S, 4)
    /\ \/ HPair("MV_L_ANP_DN", 1,
                [regs EXCEPT ![E.b] = Add(S, 4), ![E.a] = Load(ram, S, 4)], x, ram)
       \/ HPair("MV_L_DN_ANP", 1, [regs EXCEPT ![E.b] = Add(S, 4)], x, Store(ram, S, 4, D))

LoadD16(id, size) ==
    /\ Running /\ Fast(EA, size)
    /\ SetReg(id, 2, IF size = 4 THEN Load(ram, EA, 4) ELSE Merge(D, Load(ram, EA, size), SizeMod(size)))
StoreD16(id, size) ==
    Running /\ Fast(EA, size) /\ HPair(id, 2, regs, x, Store(ram, EA, size, D))

MoveD16 ==
    \/ LoadD16("MV_L_D16_DN", 4) \/ StoreD16("MV_L_DN_D16", 4)
    \/ LoadD16("MV_W_D16_DN", 2) \/ StoreD16("MV_W_DN_D16", 2)
    \/ LoadD16("MV_B_D16_DN", 1) \/ StoreD16("MV_B_DN_D16", 1)

\* Mutant: the no-flags twins leave X alone.
MutArith ==
    \/ SetRegX("ADD_L_DD", Add(D, S), IF E.nf THEN x ELSE Add(D, S) < S)
    \/ SetRegX("SUB_L_DD", Sub(D, S), IF E.nf THEN x ELSE S > D)
    \/ SetRegX("ADDQ_L_DN", Add(D, E.b), IF E.nf THEN x ELSE Add(D, E.b) < E.b)
    \/ SetRegX("SUBQ_L_DN", Sub(D, E.b), IF E.nf THEN x ELSE E.b > D)

\* The no-flags twins compute X on their own.
Arith ==
    \/ SetRegX("ADD_L_DD", Add(D, S), Add(D, S) < S)
    \/ SetRegX("SUB_L_DD", Sub(D, S), S > D)
    \/ SetRegX("ADDQ_L_DN", Add(D, E.b), Add(D, E.b) < E.b)
    \/ SetRegX("SUBQ_L_DN", Sub(D, E.b), E.b > D)

Logic ==
    \/ SetReg("AND_L_DD", 1, And(D, S))
    \/ SetReg("OR_L_DD", 1, Or(D, S))
    \/ SetReg("EOR_L_DD", 1, Eor(D, S))

Shift ==
    \/ SetRegX("LSL_L_IMM", Shifted(E), ShiftedOut(E))
    \/ SetRegX("LSR_L_IMM", Shifted(E), ShiftedOut(E))
----------------------------------------------------------------------------
\* Compare and test: condition codes only.
Compare ==
    /\ \/ \E id \in PureFlag \ {"CMPI_L_DN"} : Step(id, FlagsOf(E), cur + 1)
       \/ Step("CMPI_L_DN", FlagsOf(E), cur + 3)
    /\ UNCHANGED <<regs, x, ram>>

\* Mutant: ADDQ to an address register sets N and Z.
MutAddressRegister ==
    /\ \/ Step("MOVEA_L_IMM", ccr, cur + 3) /\ regs' = [regs EXCEPT ![E.a] = E.c]
       \/ /\ Step("ADDQ_L_AN", cc_nz_l(Add(D, E.b)), cur + 1)
          /\ regs' = [regs EXCEPT ![E.a] = Add(D, E.b)]
       \/ Step("LEA_D16", ccr, cur + 2) /\ regs' = [regs EXCEPT ![E.a] = EA]
    /\ UNCHANGED <<x, ram>>

\* Address-register operations leave the condition codes alone.
AddressRegister ==
    /\ \/ Step("MOVEA_L_IMM", ccr, cur + 3) /\ regs' = [regs EXCEPT ![E.a] = E.c]
       \/ Step("ADDQ_L_AN", ccr, cur + 1) /\ regs' = [regs EXCEPT ![E.a] = Add(D, E.b)]
       \/ Step("LEA_D16", ccr, cur + 2) /\ regs' = [regs EXCEPT ![E.a] = EA]
    /\ UNCHANGED <<x, ram>>

NopLen(id) == CASE id = "NOP3" -> 3 [] id = "NOP2" -> 2 [] OTHER -> 1
Nops ==
    /\ \E id \in {"NOP", "NOP1", "NOP2", "NOP3"} : Step(id, ccr, cur + NopLen(id))
    /\ UNCHANGED <<regs, x, ram>>

Dbra ==
    LET w == (S - 1) % WordMod
    IN /\ Step("DBRA", ccr, IF w # WordMod - 1 THEN E.c ELSE cur + 2)
       /\ regs' = [regs EXCEPT ![E.b] = Merge(S, w, WordMod)]
       /\ UNCHANGED <<x, ram>>

\* BRA and the ten conditional branches.
Branch ==
    /\ \/ Step("BRA", ccr, E.c)
       \/ \E cond \in Conds :
             Step(BccId(cond), ccr, IF m68k_cond(ccr, cond) THEN E.c ELSE cur + E.a)
    /\ UNCHANGED <<regs, x, ram>>

Execute ==
    \/ MoveImm \/ MovePostInc \/ MoveD16 \/ Arith \/ Logic \/ Shift
    \/ Compare \/ AddressRegister \/ Nops \/ Dbra \/ Branch
----------------------------------------------------------------------------
\* Fillers have no handler: they reach the default case, like ILLEGAL.
Illegal ==
    /\ Running /\ E.id \in {"ILLEGAL", "FILLER"}
    /\ mpc' = (2 * cur) % LongMod /\ n' = n - 1 /\ phase' = "exited"
    /\ UNCHANGED <<elide, cpu, ram, tab, mlen, at, cur, sprints>>

\* A slow-path access of a handler or of the sweep is fatal (bad_access).
AccessSize(id) ==
    CASE id \in {"MV_W_D16_DN", "MV_W_DN_D16"} -> 2
      [] id \in {"MV_B_D16_DN", "MV_B_DN_D16"} -> 1
      [] OTHER -> 4
BadAccess ==
    /\ Running
    /\ \/ E.id \in {"MV_L_ANP_DN", "MV_L_DN_ANP"} /\ ~Fast(S, 4)
       \/ /\ E.id \in {"MV_L_D16_DN", "MV_L_DN_D16", "MV_W_D16_DN", "MV_W_DN_D16",
                       "MV_B_D16_DN", "MV_B_DN_D16"}
          /\ ~Fast(EA, AccessSize(E.id))
    /\ phase' = "exited" /\ n' = n - 1
    /\ UNCHANGED <<elide, cpu, ram, mpc, tab, mlen, at, cur, sprints>>

BadSweep ==
    /\ phase = "decode" /\ at < MPD_ENTRIES /\ ~SweepReads
    /\ phase' = "exited"
    /\ UNCHANGED <<elide, cpu, ram, mpc, tab, mlen, at, cur, n, sprints>>

\* Fillers written, or entries read, outside the table.
Wild ==
    /\ \/ phase = "run" /\ n > 0 /\ cur \notin Entries
       \/ /\ phase = "decode" /\ at < MPD_ENTRIES /\ SweepReads
          /\ at + Decoded.len > MPD_ENTRIES
    /\ phase' = "wild"
    /\ UNCHANGED <<elide, cpu, ram, mpc, tab, mlen, at, cur, n, sprints>>

\* The loop ends: m->pc = (cur - tab) << 1.
Leave ==
    /\ phase = "run" /\ n = 0
    /\ phase' = "idle" /\ mpc' = (2 * cur) % LongMod
    /\ UNCHANGED <<elide, cpu, ram, tab, mlen, at, cur, n, sprints>>

Next ==
    \/ Setup
    \/ \E budget \in Budgets : Enter(budget)
    \/ DecodeStep \/ DecodeEnd \/ ElideStep \/ ElideEnd
    \/ Execute
    \/ Illegal \/ BadAccess \/ BadSweep \/ Wild \/ Leave

Spec == Init /\ [][Next]_vars
=============================================================================
