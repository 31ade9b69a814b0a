---------------------------- MODULE GuestMemory ----------------------------
(***************************************************************************)
(* The SoA memory fast path of common/mem_fastpath.h as pure operators:    *)
(* address masking, the page-crossing test that sends an access to the     *)
(* slow path, and big-endian loads and stores.                             *)
(*                                                                         *)
(* A byte is a number below ByteMod.  With ByteBits = 8, PageSize = 4096   *)
(* and RamSize = 2^23 this is the benchmark's memory; TLC runs it narrower. *)
(* Every page-table entry is nonzero in the benchmark environment          *)
(* (mem_env_init), so the only way to the slow path is a page crossing.    *)
(***************************************************************************)
EXTENDS Integers, Sequences, Functions

CONSTANTS
    ByteBits,   \* bits of a byte (8)
    PageSize,   \* MEM_PAGE_SIZE, bytes of a page
    RamSize     \* ram_bytes handed to mem_env_init; g_address_mask + 1

ASSUME MemoryAssumption ==
    /\ ByteBits \in Nat \ {0}
    /\ PageSize \in Nat \ {0}
    /\ PageSize % 4 = 0
    /\ RamSize \in Nat \ {0}
    /\ RamSize % PageSize = 0

ByteMod == 2^ByteBits
WordMod == 2^(2 * ByteBits)
LongBits == 4 * ByteBits
LongMod == 2^LongBits

\* True of every ByteBits; stated because the provers know nothing of powers.
ASSUME WidthAssumption == LongMod \in Nat \ {0} /\ LongMod % 2 = 0

Byte == 0..(ByteMod - 1)
Long == 0..(LongMod - 1)
Address == 0..(RamSize - 1)

\* 8-, 16- and 32-bit accesses, by their number of bytes.
SizeMod(size) == 2^(size * ByteBits)

\* addr & g_address_mask, for a RAM whose size is a power of two.
Masked(addr) == addr % RamSize

\* The fast-path test: the access does not cross a page boundary.
Fast(addr, size) == Masked(addr) % PageSize <= PageSize - size

\* LOAD_BE8/16/32: the first byte is the most significant one.
Load(ram, addr, size) ==
    LET m == Masked(addr)
    IN CASE size = 1 -> ram[m]
         [] size = 2 -> ram[m] * ByteMod + ram[m + 1]
         [] size = 4 -> (ram[m] * ByteMod + ram[m + 1]) * WordMod
                        + ram[m + 2] * ByteMod + ram[m + 3]

\* STORE_BE8/16/32: the low `size` bytes of v, most significant first.
Store(ram, addr, size, v) ==
    [a \in DOMAIN ram |->
        IF a - Masked(addr) \in 0..(size - 1)
        THEN (v \div SizeMod(size - 1 - (a - Masked(addr)))) % ByteMod
        ELSE ram[a]]
=============================================================================
