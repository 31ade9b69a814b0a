------------------------------ MODULE Streams ------------------------------
(***************************************************************************)
(* The two random-stream generators, emit_kernel_stress of                 *)
(* m68k/bench_main.c and of ppc/bench_main.c, at their real size: the real *)
(* seed, window addresses, page size and length, one instruction a step.   *)
(* What is emitted is looked at, not run: the question is whether the      *)
(* stream is a program every backend can run for ever.                     *)
(***************************************************************************)
EXTENDS Integers, Sequences, Lcg

CONSTANT Jobs   \* the streams to generate: [lane, seed, len]

\* A draw of lcg, a uint32_t; any draw may seed a stream, of any length.
Half == {n \in Nat : n < 65536}
Draw == [hi : Half, lo : Half]
ASSUME JobsAssumption == Jobs \subseteq [lane : {"m68k", "ppc"}, seed : Draw, len : Nat]

CODE_BASE  == \h1000
DATA_BASE  == \h100000
STORE_BASE == \h180000
Page   == 4096
Region == 262144     \* MPD_REGION_BYTES, PD_REGION_BYTES, PDX_REGION_BYTES
Window == 2048       \* bytes the offsets stay below

M == INSTANCE M68kKernels WITH
    ByteBits <- 8, PageSize <- Page, RamSize <- 8388608, WindowBase <- DATA_BASE,
    Offsets <- Window, Passes <- \h0FFF, STREAM_LEN <- 8192
P == INSTANCE PpcKernels WITH
    ByteBits <- 8, PageSize <- Page, RamSize <- 8388608, WindowBase <- DATA_BASE,
    WrapMask <- \h3FFC, Offsets <- Window, STREAM_LEN <- 16384

\* The decoder of M68K backends B and C; ids do not depend on the widths.
NoProgram(k) == <<>>
D == INSTANCE M68kDecode WITH
    ByteBits <- 4, PageSize <- 32, RamSize <- 64, Kernels <- {}, Program <- NoProgram,
    Data <- <<>>, OpcodeOf <- <<>>, Budgets <- {}, MaxSprints <- 0, MPD_ENTRIES <- 16

VARIABLES
    job,     \* the stream being generated
    i,       \* instructions emitted so far; len + 1 once the loop is closed
    pc,      \* g_pc, g_emit_pc: where the next instruction lands
    top,     \* the address the stream starts at
    st,      \* the generator: seed, force_short (M68K), the last instruction
    prev     \* the instruction before it

vars == <<job, i, pc, top, st, prev>>

M68k == job.lane = "m68k"
Size(ins) == IF M68k THEN M!Bytes(ins) ELSE 4

\* The prologues: the bases, and the registers seeded with draws.
PrologueBytes(lane) == IF lane = "m68k" THEN 2 * 6 + 8 * 6 ELSE 10 * 8 + 2 * 4

Init ==
    /\ job \in Jobs
    /\ i = 0 /\ pc = CODE_BASE + PrologueBytes(job.lane) /\ top = pc
    /\ st = [seed |-> After(job.seed, IF M68k THEN 8 ELSE 10), force_short |-> FALSE,
             ins |-> IF M68k THEN M!NOP ELSE P!E_ORI(0, 0, 0)]
    /\ prev = st.ins

\* One turn of the stream's loop.
Turn ==
    /\ i < job.len
    /\ IF M68k THEN st' = M!Emit(st, M!NearEnd(i + 1, job.len))
       ELSE LET r == lcg(st.seed)
            IN st' = [st EXCEPT !.seed = r, !.ins = P!StressInsn(r, i + 1 = job.len)]
    /\ prev' = st.ins /\ pc' = pc + Size(st'.ins) /\ i' = i + 1
    /\ UNCHANGED <<job, top>>

\* The branch back to the top.
Close ==
    /\ i = job.len
    /\ st' = [st EXCEPT !.ins = IF M68k THEN M!BRA_W(top - (pc + 2)) ELSE P!E_B(top - pc)]
    /\ prev' = st.ins /\ pc' = pc + Size(st'.ins) /\ i' = i + 1
    /\ UNCHANGED <<job, top>>

Next == Turn \/ Close

Spec == Init /\ [][Next]_vars
----------------------------------------------------------------------------
\* The address of the instruction emitted last.
Here == pc - Size(st.ins)
Closed == i = job.len + 1

Skips(ins) ==
    IF M68k THEN ins.op \div 4096 = 6 /\ ins.op % 256 # 0 ELSE ins.op = 16

\* m68k/bench_main.c:148 and 176, ppc/bench_main.c:193: a conditional branch
\* skips exactly the instruction after it.  What follows it is one word long
\* in the M68K stream and no branch, and the branch that closes the loop is
\* never the one skipped.
SkipLandsOnHead ==
    Skips(prev) =>
        /\ Size(st.ins) = (IF M68k THEN 2 ELSE 4)
        /\ ~Closed
        /\ M68k => ~Skips(st.ins)

\* m68k_switch.c:58 and m68k_pd_impl.h:86: a 32-bit immediate is fetched in
\* one access, which mem_fastpath.h sends to the fatal slow path when it
\* crosses a page; where an immediate falls depends on every draw before it.
ImmediateInPage ==
    M68k /\ Len(st.ins.ext) = 2 => (Here + 2) % Page <= Page - 4

Decoded == D!Decode(st.ins.op, 0, 0, 0).ent

\* ppc_bench.h:43, m68k_bench.h: what the stream holds is in the subset every
\* backend decodes, and clear of the forms on which the PPC backends disagree.
KnownToAll ==
    IF M68k THEN Decoded.id # "ILLEGAL"
    ELSE /\ st.ins.op \in P!PPC_PRIMARY
         /\ st.ins.op = 31 => P!Key31(st.ins) \in P!PPC_OP31
         /\ st.ins.op \in {33, 37} => st.ins.ra # 0

Width == IF M68k THEN D!SizedId(st.ins.op, 4, 2, 1)
         ELSE CASE st.ins.op \in {32, 36} -> 4 [] st.ins.op \in {40, 44} -> 2 [] OTHER -> 1
LoadOps  == {"MV_L_D16_DN", "MV_W_D16_DN", "MV_B_D16_DN"}
StoreOps == {"MV_L_DN_D16", "MV_W_DN_D16", "MV_B_DN_D16"}
InWindow(off) == off + Width <= Window /\ off % 4 = 0

\* The registers that point at the two windows, a5 and a6, r20 and r21, are
\* never written, loads go through the first and stores through the second,
\* and no access leaves its window or crosses a page: code and data stay apart
\* however long the stream is run.
StaysInWindows ==
  i \in 1..job.len =>
    LET ins == st.ins
    IN IF M68k
       THEN CASE Decoded.id \in LoadOps  -> Decoded.b = D!AReg(5) /\ InWindow(ins.ext[1])
              [] Decoded.id \in StoreOps -> Decoded.b = D!AReg(6) /\ InWindow(ins.ext[1])
              [] OTHER -> Skips(ins) \/ Decoded.a \in {D!DReg(r) : r \in 0..7}
       ELSE CASE ins.op \in {32, 34, 40} -> ins.ra = 20 /\ ins.rd # 20 /\ InWindow(ins.lo)
              [] ins.op \in {36, 38, 44} -> ins.ra = 21 /\ InWindow(ins.lo)
              [] OTHER -> Skips(ins) \/ {ins.rd, ins.ra} \cap {20, 21} = {}

\* m68k/bench_main.c:79 and 183: the branch back is a 16-bit displacement over
\* some 22 KB of code, 26 bits over 64 KB in the PPC stream; it reaches the top,
\* and the code ends inside the region the predecoding backends decode.
Distance ==
    IF M68k THEN st.ins.ext[1] - (IF st.ins.ext[1] >= 32768 THEN 65536 ELSE 0) + 2
    ELSE LET d == (st.ins.rd * 32 + st.ins.ra) * 65536 + P!Aligned(st.ins.lo)
         IN d - (IF d >= 2^25 THEN 2^26 ELSE 0)
LoopCloses == Closed => Here + Distance = top /\ pc <= Region
=============================================================================
