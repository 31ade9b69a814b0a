---------------------------- MODULE M68kKernels ----------------------------
(***************************************************************************)
(* The three benchmark kernels of m68k/bench_main.c.  A kernel is the      *)
(* sequence of instructions its emitter writes; branch displacements are   *)
(* those the macros compute from the absolute targets.                     *)
(***************************************************************************)
EXTENDS M68kAsm, Lcg

CONSTANTS
    WindowBase,   \* DATA_BASE: 0x100000
    STORE_BASE,   \* 0x180000
    Offsets,      \* 0x800: the stress kernel's offsets are longs below it
    Passes,       \* 0x0FFF: the inner counter of the two loops
    STREAM_LEN    \* instructions in the random straight-line stream (8192)

\* A 32-bit immediate drawn from the generator: its halves are the two words.
WithLong(ins, v) == [ins EXCEPT !.ext = <<v.hi % WordMod, v.lo % WordMod>>]

CC_GT == 14

emit_kernel_alu == <<
    WithLong(MOVE_L_IMM_DN(2, 0), U32(\h1234, \h5678)),
    \* top:
    MOVE_W_IMM_DN(0, Passes),
    \* loop:
    ADD_L_DD(1, 2), MOVE_L_DD(3, 1), LSR_L(7, 3), EOR_L_DD(1, 3), ADDQ_L_DN(3, 2),
    CMP_L_DD(1, 2), BCC_B(CC_GT, 2), SUB_L_DD(1, 2), LSL_L(1, 4), DBRA(0, -20),
    BRA_B(-28)>>

emit_kernel_mem == <<
    \* top:
    MOVEA_L_IMM(0, WindowBase), MOVEA_L_IMM(1, STORE_BASE), MOVE_W_IMM_DN(0, Passes),
    \* loop:
    MOVE_L_ANP_DN(1, 0), ADD_L_DD(2, 1), MOVE_L_DN_ANP(1, 2), MOVE_B_D16_DN(3, 0, 2),
    EOR_L_DD(2, 3), DBRA(0, -14),
    BRA_W(-34)>>
----------------------------------------------------------------------------
\* The instruction a draw r picks; v is the draw after it.
Picked(r, v, pick) ==
  LET dn  == Shr(r, 8) % 8
      dm  == Shr(r, 12) % 8
      off == LET h == r.hi % Offsets IN h - (h % 4)
      q   == 1 + (Shr(r, 26) % 8)
  IN CASE pick \in 0..7   -> ADD_L_DD(dn, dm)
       [] pick \in 8..13  -> SUB_L_DD(dn, dm)
       [] pick \in 14..18 -> EOR_L_DD(dn, dm)
       [] pick \in 19..22 -> AND_L_DD(dn, dm)
       [] pick \in 23..25 -> OR_L_DD(dn, dm)
       [] pick \in 26..29 -> MOVE_L_DD(dn, dm)
       [] pick \in 30..32 -> MOVEQ(dn, (r.lo % 256) - 128)
       [] pick \in 33..35 -> IF Bit(r, 20) = 1 THEN ADDQ_L_DN(q, dn) ELSE SUBQ_L_DN(q, dn)
       [] pick \in 36..39 -> IF Bit(r, 20) = 1 THEN LSR_L(q, dn) ELSE LSL_L(q, dn)
       [] pick \in 40..45 -> MOVE_L_D16_DN(dn, 5, off)
       [] pick \in 46..49 -> MOVE_W_D16_DN(dn, 5, off)
       [] pick \in 50..52 -> MOVE_B_D16_DN(dn, 5, off)
       [] pick \in 53..58 -> MOVE_L_DN_D16(6, off, dn)
       [] pick \in 59..61 -> MOVE_W_DN_D16(6, off, dn)
       [] pick \in 62..64 -> MOVE_B_DN_D16(6, off, dn)
       [] pick \in 65..69 -> WithLong(MOVE_L_IMM_DN(dn, 0), v)
       [] pick \in 70..75 -> CMP_L_DD(dn, dm)
       [] pick \in 76..79 -> WithLong(CMPI_L_DN(0, dn), v)
       [] pick \in 80..83 -> TST_L_DN(dn)
       [] pick \in 84..99 -> BCC_B(<<7, 6, 13, 12, 11, 10>>[(Shr(r, 5) % 6) + 1], 2)

\* Mutant: the immediate is the draw the pick was made from.
MutDrawsTwice(pick) == FALSE
DrawsTwice(pick) == pick \in 65..69 \cup 76..79

\* After a skip of one word the pick is below 40: an instruction of one word.
\* Mutant: force_short is never looked at.
MutPick(r, force_short) == Mod(r, 100)
Pick(r, force_short) == IF force_short THEN Mod(r, 40) ELSE Mod(r, 100)

\* Is the i-th of len instructions, counted from 1, one of the last two?
\* Mutant: the test is never true.
MutNearEnd(i, len) == i > len
NearEnd(i, len) == i > len - 2

\* One turn of the stream's loop: the state is the seed, force_short and the
\* instruction emitted last.
Emit(s, last) ==
  LET r == lcg(s.seed)
      v == lcg(r)
      pick == Pick(r, s.force_short)
      skip == pick >= 84
  IN [seed |-> IF DrawsTwice(pick) THEN v ELSE r,
      force_short |-> skip /\ ~last,
      ins |-> IF skip /\ last THEN ADD_L_DD(Shr(r, 8) % 8, Shr(r, 12) % 8)
              ELSE Picked(r, v, pick)]

\* What precedes the stream; seeding d0 to d7 takes the first eight draws.
Bases == <<MOVEA_L_IMM(5, WindowBase), MOVEA_L_IMM(6, STORE_BASE)>>
Seeding(seed) == [j \in 1..8 |-> WithLong(MOVE_L_IMM_DN(j - 1, 0), After(seed, j))]

\* Bytes of a sequence of instructions.
Bytes(ins) == 2 + 2 * Len(ins.ext)

\* The stream so far, extended by e; the whole kernel.
Extended(so_far, e) ==
    [st |-> e, code |-> Append(so_far.code, e.ins), bytes |-> so_far.bytes + Bytes(e.ins)]
Kernel3(seed, stream) ==
    Bases \o Seeding(seed) \o stream.code \o <<BRA_W(-(stream.bytes + 2))>>

emit_kernel_stress(seed) ==
  LET s[i \in 0..STREAM_LEN] ==
        IF i = 0 THEN [st |-> [seed |-> After(seed, 8), force_short |-> FALSE, ins |-> NOP],
                       code |-> <<>>, bytes |-> 0]
        ELSE LET p == s[i - 1] IN Extended(p, Emit(p.st, NearEnd(i, STREAM_LEN)))
  IN Kernel3(seed, s[STREAM_LEN])
=============================================================================
