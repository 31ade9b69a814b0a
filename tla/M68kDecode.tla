----------------------------- MODULE M68kDecode -----------------------------
(***************************************************************************)
(* mpd_decode and the id tables of m68k/m68k_pd_impl.h as pure operators:  *)
(* what an entry of the table is, the entry and the length in words that   *)
(* an opcode and the words after it decode to, and how the elide pass      *)
(* classifies and retargets an entry.  Ids are the names of the enum; the  *)
(* twin MI_<nm>_NF at id + 1 is the entry of <nm> with nf set.             *)
(***************************************************************************)
EXTENDS M68kImage

CONSTANT MPD_ENTRIES   \* entries of MPD_TAB, words of the decoded region

\* 131072 entries (256 KiB of code) in 8 MiB of RAM and a 32-bit space.
ASSUME RegionAssumption ==
    /\ MPD_ENTRIES \in Nat \ {0}
    /\ 2 * MPD_ENTRIES + 4 <= RamSize
    /\ RamSize <= LongMod

Entries == 0..(MPD_ENTRIES - 1)

\* Ids whose handler comes as a pair, with and without flags (M68K_ELIDABLE).
Elidable ==
    {"MOVEQ", "MV_L_IMM_DN", "MV_W_IMM_DN", "MV_L_DD", "MV_L_ANP_DN",
     "MV_L_DN_ANP", "MV_L_D16_DN", "MV_L_DN_D16", "MV_W_D16_DN", "MV_W_DN_D16",
     "MV_B_D16_DN", "MV_B_DN_D16", "ADD_L_DD", "SUB_L_DD", "ADDQ_L_DN",
     "SUBQ_L_DN", "AND_L_DD", "OR_L_DD", "EOR_L_DD", "LSL_L_IMM", "LSR_L_IMM"}

\* Ids whose only effect is the condition codes (M68K_PUREFLAG).
PureFlag == {"CMP_L_DD", "CMPI_L_DN", "TST_L_DN", "TST_W_DN", "TST_B_DN"}

Entry(id, a, b, c) == [id |-> id, nf |-> FALSE, a |-> a, b |-> b, c |-> c]

\* A trailing word of a multi-word instruction keeps its operands.
Filler(e) == Entry("FILLER", e.a, e.b, e.c)

\* mpd_writes_all_nzvc and mpd_is_elidable look at the id as it is stored.
WritesAll(e)   == ~e.nf /\ e.id \in Elidable \cup PureFlag
IsElidable(e)  == ~e.nf /\ e.id \in Elidable

\* Mutant: one NOP for all pure-flag instructions, whatever their length.
MutRetarget(e) ==
    IF IsElidable(e) THEN [e EXCEPT !.nf = TRUE]
    ELSE IF e.id \in PureFlag THEN [e EXCEPT !.id = "NOP1"]
    ELSE e

\* The no-flags twin, or a NOP as long as the instruction it replaces.
Retarget(e) ==
    IF IsElidable(e) THEN [e EXCEPT !.nf = TRUE]
    ELSE IF e.id = "CMPI_L_DN" THEN [e EXCEPT !.id = "NOP3"]
    ELSE IF e.id \in PureFlag THEN [e EXCEPT !.id = "NOP1"]
    ELSE e

\* Words by which the handler of id advances, for the ids of the elide pass.
HandlerLen(id) ==
    CASE id \in {"MV_L_IMM_DN", "CMPI_L_DN"} -> 3
      [] id \in {"MV_W_IMM_DN", "MV_L_D16_DN", "MV_L_DN_D16", "MV_W_D16_DN",
                 "MV_W_DN_D16", "MV_B_D16_DN", "MV_B_DN_D16"} -> 2
      [] OTHER -> 1
----------------------------------------------------------------------------
\* What mpd_decode stores and returns.
Is(id, a, b, c, len) == [ent |-> Entry(id, a, b, c), len |-> len]
Undecoded(op) == Is("ILLEGAL", 0, 0, op, 1)

\* The operand w16 is the word after the opcode, w32 the long after it.
D16Of(w16) == SignExtend(w16, WordMod)
IsDD(op)   == Mode(op) = 0 /\ Opmode(op) = 2      \* (op & 0x01F8) == 0x0080
IsImm(op)  == Mode(op) = 7 /\ Sr(op) = 4

SizedId(op, l, w, b) == CASE Line(op) = 2 -> l [] Line(op) = 3 -> w [] OTHER -> b

DecodeMove(op, w16, w32) ==
    LET dn == DReg(Dr(op))
        an == AReg(Dr(op))
        dm == DReg(Sr(op))
        am == AReg(Sr(op))
    IN CASE Line(op) = 2 /\ Opmode(op) = 1 /\ IsImm(op) -> Is("MOVEA_L_IMM", an, 0, w32, 3)
         [] Line(op) = 2 /\ Opmode(op) = 0 /\ IsImm(op) -> Is("MV_L_IMM_DN", dn, 0, w32, 3)
         [] Line(op) = 3 /\ Opmode(op) = 0 /\ IsImm(op) -> Is("MV_W_IMM_DN", dn, 0, w16, 2)
         [] Line(op) = 2 /\ Opmode(op) = 0 /\ Mode(op) = 0 -> Is("MV_L_DD", dn, dm, op, 1)
         [] Line(op) = 2 /\ Opmode(op) = 0 /\ Mode(op) = 3 -> Is("MV_L_ANP_DN", dn, am, op, 1)
         [] Line(op) = 2 /\ Opmode(op) = 3 /\ Mode(op) = 0 -> Is("MV_L_DN_ANP", dm, an, op, 1)
         [] Mode(op) = 5 /\ Opmode(op) = 0 ->
              Is(SizedId(op, "MV_L_D16_DN", "MV_W_D16_DN", "MV_B_D16_DN"), dn, am, D16Of(w16), 2)
         [] Mode(op) = 0 /\ Opmode(op) = 5 ->
              Is(SizedId(op, "MV_L_DN_D16", "MV_W_DN_D16", "MV_B_DN_D16"), dm, an, D16Of(w16), 2)
         [] OTHER -> Undecoded(op)

DecodeMisc(op, w16) ==
    LET tst == Dr(op) = 5 /\ Dir(op) = 0 /\ Mode(op) = 0
        dn  == DReg(Sr(op))
    IN CASE tst /\ Size(op) = 2 -> Is("TST_L_DN", dn, 0, op, 1)
         [] tst /\ Size(op) = 1 -> Is("TST_W_DN", dn, 0, op, 1)
         [] tst /\ Size(op) = 0 -> Is("TST_B_DN", dn, 0, op, 1)
         [] Opmode(op) = 7 /\ Mode(op) = 5 ->
              Is("LEA_D16", AReg(Dr(op)), AReg(Sr(op)), D16Of(w16), 2)
         [] op = 20081 -> Is("NOP", 0, 0, op, 1)
         [] OTHER -> Undecoded(op)

DecodeQuick(op, w16, addr) ==
    CASE Size(op) = 3 /\ Mode(op) = 1 /\ Cond(op) = 1 ->
           Is("DBRA", 0, DReg(Sr(op)), Add(Add(addr, 2), D16Of(w16)) \div 2, 2)
      [] Size(op) = 2 /\ Mode(op) = 0 ->
           Is(IF Dir(op) = 1 THEN "SUBQ_L_DN" ELSE "ADDQ_L_DN", DReg(Sr(op)), Quick(op), op, 1)
      [] Size(op) = 2 /\ Mode(op) = 1 /\ Dir(op) = 0 ->
           Is("ADDQ_L_AN", AReg(Sr(op)), Quick(op), op, 1)
      [] OTHER -> Undecoded(op)

BccId(cond) ==
    CASE cond = 0  -> "BRA"
      [] cond = 4  -> "BCC"  [] cond = 5  -> "BCS"
      [] cond = 6  -> "BNE"  [] cond = 7  -> "BEQ"
      [] cond = 10 -> "BPL"  [] cond = 11 -> "BMI"
      [] cond = 12 -> "BGE"  [] cond = 13 -> "BLT"
      [] cond = 14 -> "BGT"  [] cond = 15 -> "BLE"
      [] OTHER     -> "ILLEGAL"

DecodeBranch(op, w16, addr) ==
    LET d8 == Disp8(op)
        len == IF d8 = 0 THEN 2 ELSE 1
        target == Add(Add(addr, 2), IF d8 = 0 THEN D16Of(w16) ELSE d8)
    IN IF BccId(Cond(op)) = "ILLEGAL" THEN Undecoded(op)
       ELSE Is(BccId(Cond(op)), len, 0, target \div 2, len)

DecodeAlu(id, op) ==
    IF IsDD(op) THEN Is(id, DReg(Dr(op)), DReg(Sr(op)), op, 1) ELSE Undecoded(op)

\* The entry for opcode `op` at `addr`, and the length mpd_decode returns.
Decode(op, w16, w32, addr) ==
    CASE Line(op) = 0 ->
           IF Dr(op) = 6 /\ IsDD(op) THEN Is("CMPI_L_DN", DReg(Sr(op)), 0, w32, 3) ELSE Undecoded(op)
      [] Line(op) \in {1, 2, 3} -> DecodeMove(op, w16, w32)
      [] Line(op) = 4 -> DecodeMisc(op, w16)
      [] Line(op) = 5 -> DecodeQuick(op, w16, addr)
      [] Line(op) = 6 -> DecodeBranch(op, w16, addr)
      [] Line(op) = 7 -> Is("MOVEQ", DReg(Dr(op)), 0, Disp8(op), 1)
      [] Line(op) = 8 -> DecodeAlu("OR_L_DD", op)
      [] Line(op) = 9 -> DecodeAlu("SUB_L_DD", op)
      [] Line(op) = 11 ->
           IF Mode(op) = 0 /\ Opmode(op) = 6
           THEN Is("EOR_L_DD", DReg(Sr(op)), DReg(Dr(op)), op, 1) ELSE DecodeAlu("CMP_L_DD", op)
      [] Line(op) = 12 -> DecodeAlu("AND_L_DD", op)
      [] Line(op) = 13 -> DecodeAlu("ADD_L_DD", op)
      [] Line(op) = 14 /\ Size(op) = 2 /\ Mode(op) = 1 ->
           Is(IF Dir(op) = 1 THEN "LSL_L_IMM" ELSE "LSR_L_IMM", DReg(Sr(op)), Quick(op), op, 1)
      [] OTHER -> Undecoded(op)
=============================================================================
