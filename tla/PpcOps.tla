------------------------------- MODULE PpcOps -------------------------------
(***************************************************************************)
(* ppc/ppc_ops.h: the instruction bodies every PPC backend is stamped      *)
(* from, and the lists that say which opcodes exist.                       *)
(*                                                                         *)
(* An instruction word is a record of the fields the bodies extract: the   *)
(* primary opcode, the two register fields and the low 16 bits.  A machine *)
(* is a record: gpr with zero_base behind it as gpr[32], LR, CTR, CR as    *)
(* the set of its one bits (bit 0 least significant), CA, RAM, the local   *)
(* pc of the backend, and fate, which says whether the process survived    *)
(* the last instruction.  A body maps the machine whose pc is CIA + 4 to   *)
(* the one it leaves.                                                      *)
(***************************************************************************)
EXTENDS Words

Halfwords == 0..65535
IsInsn(i) == i \in [op : 0..63, rd : 0..31, ra : 0..31, lo : Halfwords]

ZERO == 32                     \* zero_base, behind gpr[31]
CrBits == 0..31
Fates == {"ok", "illegal", "bad_access"}

IsMachine(m) ==
    m \in [gpr : [0..ZERO -> Long], lr : Long, ctr : Long, cr : SUBSET CrBits, ca : BOOLEAN,
           ram : [Address -> Byte], pc : Long, fate : Fates]

\* Fields.  rS, BO and crfD lie in rd, BI in ra, SH in rb.
P_RD(i)   == i.rd
P_RA(i)   == i.ra
P_RB(i)   == i.lo \div 2048
P_SIMM(i) == SignExtend(i.lo, 65536)
P_UIMM(i) == i.lo % LongMod
Rc(i)     == i.lo % 2 = 1      \* also LK
AA(i)     == (i.lo \div 2) % 2 = 1
Key31(i)  == i.lo % 2048       \* (XO << 1) | Rc
Key19(i)  == (i.lo \div 2) % 1024
Spr(i)    == i.ra + 32 * P_RB(i)
crfD(i)   == i.rd \div 4
High(imm) == (imm * WordMod) % LongMod   \* imm << 16

\* The process ends in a diagnostic.
Stop(m, f) == [m EXCEPT !.fate = f]
ppc_illegal(m) == Stop(m, "illegal")
----------------------------------------------------------------------------
\* CR field values: LT = 8, GT = 4, EQ = 2, as bit positions in the field.
LT == {3}
GT == {2}
EQ == {1}
Order(a, b) == IF a < b THEN LT ELSE IF a > b THEN GT ELSE EQ

\* Replace the field whose lowest bit is sh.
PutField(cr, sh, bits) == (cr \ (sh..(sh + 3))) \cup {sh + b : b \in bits}

set_crf(m, f, bits) == [m EXCEPT !.cr = PutField(@, 28 - 4 * f, bits)]
record0(m, r) == set_crf(m, 0, Order(Signed(r), 0))

\* Write register d, and CR0 in the record forms.
Write(m, d, r, rc) ==
    LET w == [m EXCEPT !.gpr[d] = r] IN IF rc THEN record0(w, r) ELSE w

rotl32(v, sh) ==
    LET k == sh % LongBits IN ShiftLeft(v, k) + ShiftRight(v, LongBits - k)

\* The MB..ME mask, which wraps when MB > ME.
ppc_mask(mb, me) ==
    LET all == LongMod - 1
        x == ShiftRight(all, mb)
        y == IF me = 31 THEN all ELSE all - ShiftRight(all, me + 1)
    IN IF mb <= me THEN And(x, y) ELSE Or(x, y)

\* The operation of each K_ selector; a shift count of 32 or more gives zero.
Kind(k, a, b) ==
    CASE k = "ADD"   -> Add(a, b)
      [] k = "SUBF"  -> Sub(b, a)
      [] k = "MULLW" -> (a * b) % LongMod
      [] k = "AND"   -> And(a, b)
      [] k = "OR"    -> Or(a, b)
      [] k = "XOR"   -> Eor(a, b)
      [] k = "SLW"   -> IF (b \div 32) % 2 = 1 THEN 0 ELSE ShiftLeft(a, b % 32)
      [] k = "SRW"   -> IF (b \div 32) % 2 = 1 THEN 0 ELSE ShiftRight(a, b % 32)
----------------------------------------------------------------------------
Base(m, ra) == IF ra = 0 THEN 0 ELSE m.gpr[ra]      \* (rA|0)

gen_addi(m, i, shifted) ==
    LET imm == IF shifted THEN High(P_SIMM(i)) ELSE P_SIMM(i)
    IN Write(m, i.rd, Add(Base(m, i.ra), imm), FALSE)

\* The product modulo 2^32, which every build computes for the signed one.
gen_mulli(m, i) == Write(m, i.rd, (m.gpr[i.ra] * P_SIMM(i)) % LongMod, FALSE)

gen_logic_d(m, i, kind, shifted, rc) ==
    LET imm == IF shifted THEN High(P_UIMM(i)) ELSE P_UIMM(i)
    IN Write(m, i.ra, Kind(kind, m.gpr[i.rd], imm), rc)

gen_xo_arith(m, i, kind, rc) ==
    Write(m, i.rd, Kind(kind, m.gpr[i.ra], m.gpr[P_RB(i)]), rc)

gen_x_logic(m, i, kind, rc) ==
    Write(m, i.ra, Kind(kind, m.gpr[i.rd], m.gpr[P_RB(i)]), rc)

\* CA is set when a negative value loses one bits.
Sraw(m, dst, s, sh, rc) ==
    Write([m EXCEPT !.ca = Msb(s) /\ LowBits(s, sh) # 0], dst, ShiftArith(s, sh), rc)
gen_srawi(m, i, rc) == Sraw(m, i.ra, m.gpr[i.rd], P_RB(i), rc)

gen_rlwinm(m, i) ==
    LET mask == ppc_mask((i.lo \div 64) % 32, (i.lo \div 2) % 32)
    IN Write(m, i.ra, And(rotl32(m.gpr[i.rd], P_RB(i)), mask), Rc(i))

gen_cmp(m, i, immediate, unsigned) ==
    LET a == m.gpr[i.ra]
        b == IF ~immediate THEN m.gpr[P_RB(i)]
             ELSE IF unsigned THEN P_UIMM(i) ELSE P_SIMM(i)
    IN set_crf(m, crfD(i), IF unsigned THEN Order(a, b) ELSE Order(Signed(a), Signed(b)))
----------------------------------------------------------------------------
\* A load into register d and a store of register s; a page crossing is fatal.
LoadTo(m, d, ea, width) ==
    IF Fast(ea, width) THEN Write(m, d, Load(m.ram, ea, width), FALSE)
    ELSE Stop(m, "bad_access")
StoreFrom(m, s, ea, width) ==
    IF Fast(ea, width) THEN [m EXCEPT !.ram = Store(@, ea, width, m.gpr[s])]
    ELSE Stop(m, "bad_access")

EaD(m, i) == Add(Base(m, i.ra), P_SIMM(i))
EaX(m, i) == Add(Base(m, i.ra), m.gpr[P_RB(i)])

\* Update forms write the address back last, to rA whatever it is.
Update(m, ra, ea) == [m EXCEPT !.gpr[ra] = ea]
gen_load_d(m, i, width, update) ==
    LET l == LoadTo(m, i.rd, EaD(m, i), width)
    IN IF update THEN Update(l, i.ra, EaD(m, i)) ELSE l
gen_store_d(m, i, width, update) ==
    LET s == StoreFrom(m, i.rd, EaD(m, i), width)
    IN IF update THEN Update(s, i.ra, EaD(m, i)) ELSE s
gen_load_x(m, i, width)  == LoadTo(m, i.rd, EaX(m, i), width)
gen_store_x(m, i, width) == StoreFrom(m, i.rd, EaX(m, i), width)
----------------------------------------------------------------------------
\* Branches: LR takes CIA + 4, a relative target counts from CIA.
Link(m, i) == IF Rc(i) THEN [m EXCEPT !.lr = m.pc] ELSE m
Goto(m, i, disp) == [m EXCEPT !.pc = IF AA(i) THEN disp ELSE Add(Sub(@, 4), disp)]
Aligned(a) == a - (a % 4)      \* a & ~3

LI(i) == SignExtend((i.rd * 32 + i.ra) * 65536 + Aligned(i.lo), 2^26)
BD(i) == SignExtend(Aligned(i.lo), 65536)

gen_b(m, i) == Goto(Link(m, i), i, LI(i))

\* bc_taken: its effect on CTR, and its answer.  BO is, from the most
\* significant bit: ignore CR, the CR bit wanted, keep CTR, branch on CTR = 0.
BO(i, mask) == (i.rd \div mask) % 2 = 1
Counts(i, allow_ctr) == allow_ctr /\ ~BO(i, 4)
Counted(m, i, allow_ctr) == IF Counts(i, allow_ctr) THEN [m EXCEPT !.ctr = Sub(@, 1)] ELSE m
bc_taken(m, i, allow_ctr) ==
    /\ Counts(i, allow_ctr) => ((Counted(m, i, allow_ctr).ctr = 0) <=> BO(i, 2))
    /\ BO(i, 16) \/ (((31 - i.ra) \in m.cr) <=> BO(i, 8))

gen_bc(m, i) ==
    LET l == Link(Counted(m, i, TRUE), i)
    IN IF bc_taken(m, i, TRUE) THEN Goto(l, i, BD(i)) ELSE l

bclr(m, i) ==
    LET l == Link(Counted(m, i, TRUE), i)
    IN IF bc_taken(m, i, TRUE) THEN [l EXCEPT !.pc = Aligned(m.lr)] ELSE l
bcctr(m, i) ==
    LET l == Link(m, i)
    IN IF bc_taken(m, i, FALSE) THEN [l EXCEPT !.pc = Aligned(m.ctr)] ELSE l

gen_mspr(m, i, to_spr) ==
    CASE Spr(i) = 8 /\ to_spr  -> [m EXCEPT !.lr = m.gpr[i.rd]]
      [] Spr(i) = 9 /\ to_spr  -> [m EXCEPT !.ctr = m.gpr[i.rd]]
      [] Spr(i) = 8 /\ ~to_spr -> Write(m, i.rd, m.lr, FALSE)
      [] Spr(i) = 9 /\ ~to_spr -> Write(m, i.rd, m.ctr, FALSE)
      [] OTHER -> ppc_illegal(m)
----------------------------------------------------------------------------
\* The secondary list, by (XO << 1) | Rc; an odd key is a record form.
Xo31 == [key \in {532, 80, 470} |->
    CASE key = 532 -> "ADD" [] key = 80 -> "SUBF" [] key = 470 -> "MULLW"]
Logic31 == [key \in {56, 888, 632, 48, 1072} |->
    CASE key = 56 -> "AND" [] key = 888 -> "OR" [] key = 632 -> "XOR"
      [] key = 48 -> "SLW" [] key = 1072 -> "SRW"]
Load31  == [key \in {46, 558, 174} |-> CASE key = 46 -> 4 [] key = 558 -> 2 [] key = 174 -> 1]
Store31 == [key \in {302, 814, 430} |-> CASE key = 302 -> 4 [] key = 814 -> 2 [] key = 430 -> 1]
Recorded31 == {533, 81, 471, 57, 889, 633}
Odd(key)  == key % 2 = 1
Even(key) == key - (key % 2)

PPC_OP31 == DOMAIN Xo31 \cup DOMAIN Logic31 \cup DOMAIN Load31 \cup DOMAIN Store31
            \cup Recorded31 \cup {0, 64, 1648, 1649, 678, 934}

\* The statement of entry `key`.
Op31(key, m, i) ==
    LET rc == Odd(key)
    IN CASE Even(key) \in DOMAIN Xo31    -> gen_xo_arith(m, i, Xo31[Even(key)], rc)
         [] Even(key) \in DOMAIN Logic31 -> gen_x_logic(m, i, Logic31[Even(key)], rc)
         [] key \in DOMAIN Load31  -> gen_load_x(m, i, Load31[key])
         [] key \in DOMAIN Store31 -> gen_store_x(m, i, Store31[key])
         [] key = 0  -> gen_cmp(m, i, FALSE, FALSE)
         [] key = 64 -> gen_cmp(m, i, FALSE, TRUE)
         [] key \in {1648, 1649} -> gen_srawi(m, i, rc)
         [] key = 678 -> gen_mspr(m, i, FALSE)
         [] key = 934 -> gen_mspr(m, i, TRUE)

do_op31(m, i) == IF Key31(i) \in PPC_OP31 THEN Op31(Key31(i), m, i) ELSE ppc_illegal(m)

\* Mutant: the default returns pc without the diagnostic.
MutDoOp19(m, i) ==
    CASE Key19(i) = 16  -> bclr(m, i)
      [] Key19(i) = 528 -> bcctr(m, i)
      [] OTHER -> m
do_op19(m, i) ==
    CASE Key19(i) = 16  -> bclr(m, i)
      [] Key19(i) = 528 -> bcctr(m, i)
      [] OTHER -> ppc_illegal(m)

\* The primary list.
PPC_PRIMARY == {7, 10, 11, 14, 15, 16, 18, 19, 21, 24, 25, 26, 28, 31,
                32, 33, 34, 36, 37, 38, 40, 44}
Primary(key, m, i) ==
    CASE key = 7  -> gen_mulli(m, i)
      [] key = 10 -> gen_cmp(m, i, TRUE, TRUE)
      [] key = 11 -> gen_cmp(m, i, TRUE, FALSE)
      [] key = 14 -> gen_addi(m, i, FALSE)
      [] key = 15 -> gen_addi(m, i, TRUE)
      [] key = 16 -> gen_bc(m, i)
      [] key = 18 -> gen_b(m, i)
      [] key = 19 -> do_op19(m, i)
      [] key = 21 -> gen_rlwinm(m, i)
      [] key = 24 -> gen_logic_d(m, i, "OR", FALSE, FALSE)
      [] key = 25 -> gen_logic_d(m, i, "OR", TRUE, FALSE)
      [] key = 26 -> gen_logic_d(m, i, "XOR", FALSE, FALSE)
      [] key = 28 -> gen_logic_d(m, i, "AND", FALSE, TRUE)
      [] key = 31 -> do_op31(m, i)
      [] key = 32 -> gen_load_d(m, i, 4, FALSE)
      [] key = 33 -> gen_load_d(m, i, 4, TRUE)
      [] key = 34 -> gen_load_d(m, i, 1, FALSE)
      [] key = 36 -> gen_store_d(m, i, 4, FALSE)
      [] key = 37 -> gen_store_d(m, i, 4, TRUE)
      [] key = 38 -> gen_store_d(m, i, 1, FALSE)
      [] key = 40 -> gen_load_d(m, i, 2, FALSE)
      [] key = 44 -> gen_store_d(m, i, 2, FALSE)
=============================================================================
