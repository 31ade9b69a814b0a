----------------------------- MODULE M68kImage -----------------------------
(***************************************************************************)
(* The guest a backend is started on: m68k/bench_main.c clears RAM and the *)
(* CPU, fills a data area from a pseudo-random generator, assembles one    *)
(* kernel at CODE_BASE and points pc at it (setup_kernel), then calls the  *)
(* backend with a budget of instructions.                                  *)
(*                                                                         *)
(* A program is a sequence of guest words.  OpcodeOf gives the 16-bit      *)
(* opcode a guest word stands for, so that a narrow word still reaches the *)
(* whole opcode space; with ByteBits = 8 it is the identity.  A word that  *)
(* stands for no opcode in use decodes as opcode 0, which is illegal.      *)
(***************************************************************************)
EXTENDS M68kOps

CONSTANTS
    Kernels,      \* the kernels setup_kernel can assemble
    Program(_),   \* kernel -> the guest words the assembler emits for it
    CODE_BASE,    \* guest address of the first word of a program
    DATA_BASE,    \* guest address of the data area
    Data,         \* bytes of the data area (the generator's output)
    OpcodeOf,     \* guest word -> opcode it stands for
    Budgets,      \* instruction budgets a sprint may be given
    MaxSprints    \* bound: calls of the backend in one process

ASSUME ImageAssumption ==
    /\ CODE_BASE \in Nat /\ CODE_BASE % 2 = 0 /\ CODE_BASE < LongMod
    /\ DATA_BASE \in Nat
    /\ Budgets \subseteq Nat
    /\ MaxSprints \in Nat

\* RAM as setup_kernel leaves it for kernel k.
Image(k) ==
  LET p == Program(k)
  IN [a \in Address |->
        CASE a - CODE_BASE \in 0..(2 * Len(p) - 1) ->
                LET w == p[(a - CODE_BASE) \div 2 + 1]
                IN IF (a - CODE_BASE) % 2 = 0 THEN w \div ByteMod ELSE w % ByteMod
          [] a - DATA_BASE \in 0..(Len(Data) - 1) -> Data[a - DATA_BASE + 1]
          [] OTHER -> 0]

\* The cleared CPU of setup_kernel.
ZeroRegs  == [i \in 0..15 |-> 0]
ZeroFlags == [n |-> FALSE, z |-> FALSE, v |-> FALSE, c |-> FALSE]
=============================================================================
