------------------------------ MODULE M68kOps ------------------------------
(***************************************************************************)
(* m68k/m68k_ops.h: condition-code computation and condition evaluation,   *)
(* the semantics every M68K backend shares, and the opcode fields both     *)
(* decoders extract.  Flags are Booleans where the code keeps 0/1 words.   *)
(***************************************************************************)
EXTENDS Words

Flags == [n : BOOLEAN, z : BOOLEAN, v : BOOLEAN, c : BOOLEAN]

\* Replace the low half-word or byte of a register.
Merge(old, v, mod) == old - (old % mod) + (v % mod)

----------------------------------------------------------------------------
\* N and Z from a result of `mod` values, V = C = 0: cc_nz_l, cc_nz_w, cc_nz_b.
cc_nz(r, mod) ==
    [n |-> r % mod >= mod \div 2, z |-> r % mod = 0, v |-> FALSE, c |-> FALSE]
cc_nz_l(r) == cc_nz(r, LongMod)
cc_nz_w(r) == cc_nz(r, WordMod)
cc_nz_b(r) == cc_nz(r, ByteMod)

\* Mutant: the carry as r <= s, wrong where d = 0.
MutAdd(s, d, r) ==
    [n |-> Msb(r), z |-> r = 0,
     v |-> Msb(s) # Msb(r) /\ Msb(d) # Msb(r), c |-> r <= s]

\* r = d + s; the carry is also the new X.
cc_add_l(s, d, r) ==
    [n |-> Msb(r), z |-> r = 0,
     v |-> Msb(s) # Msb(r) /\ Msb(d) # Msb(r), c |-> r < s]

\* r = d - s; the borrow is also the new X.
cc_sub_l(s, d, r) ==
    [n |-> Msb(r), z |-> r = 0,
     v |-> Msb(d) # Msb(s) /\ Msb(d) # Msb(r), c |-> s > d]

\* Mutant: V with the operands of an addition.
MutCmp(s, d, r) ==
    [n |-> Msb(r), z |-> r = 0,
     v |-> Msb(s) # Msb(r) /\ Msb(d) # Msb(r), c |-> s > d]

\* Same flags as cc_sub_l; X is left alone by the caller.
cc_cmp_l(s, d, r) == cc_sub_l(s, d, r)

\* Shifts: V is cleared and C is the last bit shifted out.
cc_shift(r, out) == [n |-> Msb(r), z |-> r = 0, v |-> FALSE, c |-> out]

\* The conditions of the subset (M68K_CONDS); every other code is false.
Conds == {4, 5, 6, 7, 10, 11, 12, 13, 14, 15}
m68k_cond(f, cond) ==
    CASE cond = 4  -> ~f.c
      [] cond = 5  -> f.c
      [] cond = 6  -> ~f.z
      [] cond = 7  -> f.z
      [] cond = 10 -> ~f.n
      [] cond = 11 -> f.n
      [] cond = 12 -> f.n = f.v
      [] cond = 13 -> f.n # f.v
      [] cond = 14 -> ~f.z /\ f.n = f.v
      [] cond = 15 -> f.z \/ f.n # f.v
      [] OTHER     -> FALSE
----------------------------------------------------------------------------
\* Fields of a 16-bit opcode.
Field(op, low, width) == (op \div 2^low) % 2^width
Line(op)   == Field(op, 12, 4)   \* op >> 12
Dr(op)     == Field(op, 9, 3)    \* destination register, quick value, count
Opmode(op) == Field(op, 6, 3)    \* also the destination EA mode of a MOVE
Mode(op)   == Field(op, 3, 3)    \* source EA mode
Sr(op)     == Field(op, 0, 3)    \* source register
Size(op)   == Field(op, 6, 2)
Cond(op)   == Field(op, 8, 4)
Dir(op)    == Field(op, 8, 1)    \* op & 0x0100
Disp8(op)  == SignExtend(Field(op, 0, 8), 2^8)
Quick(op)  == IF Dr(op) = 0 THEN 8 ELSE Dr(op)

\* Registers: D0-D7 are 0..7, A0-A7 are 8..15 (DR_OFF and AR_OFF over 4).
DReg(i) == i
AReg(i) == 8 + i
=============================================================================
