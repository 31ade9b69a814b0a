------------------------------ MODULE PpcImage ------------------------------
(***************************************************************************)
(* The guest a PPC backend is started on: ppc/bench_main.c clears RAM and  *)
(* the CPU, fills the read window, assembles one kernel at CODE_BASE and   *)
(* points c->pc at it (setup_kernel).                                      *)
(*                                                                         *)
(* A program is a sequence of guest words.  InsnOf gives the instruction a *)
(* guest word stands for, so that a narrow word still reaches the whole    *)
(* opcode space; with ByteBits = 8 it splits the word into its fields.     *)
(***************************************************************************)
EXTENDS PpcOps

CONSTANTS
    Kernels,      \* the kernels setup_kernel can assemble
    Program(_),   \* kernel -> the guest words the assembler emits for it
    CODE_BASE,    \* guest address of the first instruction
    DATA_BASE,    \* guest address of the read window
    Data,         \* bytes of the read window (the generator's output)
    InsnOf,       \* guest word -> instruction
    REGION,       \* PD_REGION_BYTES, PDX_REGION_BYTES: the bytes D to F decode
    Budgets,      \* instruction budgets a call may be given
    MaxSprints    \* bound: calls of a backend in one process

ASSUME PpcAssumption ==
    /\ CODE_BASE \in Nat /\ CODE_BASE % 4 = 0 /\ CODE_BASE < LongMod
    /\ DATA_BASE \in Nat /\ Data \in Seq(Byte)
    /\ \A k \in Kernels : Program(k) \in Seq(Nat)
    /\ REGION \in Nat /\ REGION % 4 = 0 /\ REGION <= RamSize
    /\ LongMod % 4 = 0 /\ RamSize <= LongMod
    /\ DOMAIN InsnOf = Long /\ \A w \in Long : IsInsn(InsnOf[w])
    /\ Budgets \subseteq Nat
    /\ MaxSprints \in Nat

\* Arithmetic, true of every ByteBits; stated because the provers know nothing
\* of powers, nor of sums over a set.
ASSUME PowerAssumption ==
    /\ \A k \in 0..LongBits : 2^k \in Nat \ {0}
    /\ \A j, k \in 0..LongBits : j + k <= LongBits => 2^j * 2^k = 2^(j + k)
    /\ \A S \in SUBSET (0..(LongBits - 1)) : OfOnes(S) \in Long

\* RAM as setup_kernel leaves it for kernel k.
Image(k) ==
  LET p == Program(k)
      ByteOf(w, b) == (w \div SizeMod(3 - b)) % ByteMod
  IN [a \in Address |->
        IF a - CODE_BASE \in 0..(4 * Len(p) - 1)
        THEN ByteOf(p[(a - CODE_BASE) \div 4 + 1], (a - CODE_BASE) % 4)
        ELSE IF a - DATA_BASE \in 0..(Len(Data) - 1) THEN Data[a - DATA_BASE + 1]
        ELSE 0]

\* The machine after setup_kernel(k).
SetUp(k) ==
    [gpr |-> [r \in 0..ZERO |-> 0], lr |-> 0, ctr |-> 0, cr |-> {}, ca |-> FALSE,
     ram |-> Image(k), pc |-> CODE_BASE, fate |-> "ok"]

\* The instruction at guest address a.
Fetch(m, a) == InsnOf[Load(m.ram, a, 4)]

\* The machine a body starts from: pc = CIA + 4.
PastFetch(m) == [m EXCEPT !.pc = Add(@, 4)]

\* The switch on the primary opcode, and what the instruction at pc makes of m.
Exec(m, i) ==
    IF i.op \in PPC_PRIMARY THEN Primary(i.op, PastFetch(m), i) ELSE ppc_illegal(PastFetch(m))
Result(m) == Exec(m, Fetch(m, m.pc))
=============================================================================
