----------------------------- MODULE M68kSwitch -----------------------------
(***************************************************************************)
(* Backend A, m68k/m68k_switch.c: fetch the opcode at pc, decode it at run *)
(* time, execute it with eager condition codes; exactly `budget` times.    *)
(*                                                                         *)
(* One action per case of the opcode switch.  exit(1) from an illegal      *)
(* opcode or a slow-path access ends the process: phase = "exited".        *)
(***************************************************************************)
EXTENDS M68kImage

VARIABLES
    kernel,   \* the kernel of the last setup
    regs,     \* m->regs, 0..7 = D0-D7, 8..15 = A0-A7
    ccr,      \* m->n, m->z, m->v, m->cf
    x,        \* m->x
    ram,      \* guest RAM
    mpc,      \* m->pc, written back only at the end of a sprint
    pc,       \* the local pc of m68k_run_switch; m->pc between calls
    n,        \* instructions left in the sprint
    phase,    \* "idle" between calls, "run" inside one, "exited"
    sprints   \* calls of the backend so far (bounded by MaxSprints)

cpu  == <<kernel, regs, ccr, x>>
vars == <<cpu, ram, mpc, pc, n, phase, sprints>>

Init ==
    /\ regs = ZeroRegs /\ ccr = ZeroFlags /\ x = FALSE
    /\ kernel \in Kernels /\ ram = Image(kernel)
    /\ mpc = CODE_BASE /\ pc = CODE_BASE
    /\ n = 0 /\ phase = "idle" /\ sprints = 0

\* Between two calls the harness may set up a kernel again.
Setup ==
    /\ phase = "idle" /\ sprints \in 1..(MaxSprints - 1)
    /\ regs' = ZeroRegs /\ ccr' = ZeroFlags /\ x' = FALSE
    /\ kernel' \in Kernels /\ ram' = Image(kernel') /\ mpc' = CODE_BASE /\ pc' = CODE_BASE
    /\ UNCHANGED <<n, phase, sprints>>

\* The harness calls the backend.
Enter(budget) ==
    /\ phase = "idle" /\ sprints < MaxSprints
    /\ phase' = "run" /\ pc' = mpc /\ n' = budget /\ sprints' = sprints + 1
    /\ UNCHANGED <<cpu, ram, mpc>>

\* The loop ends: m->pc = pc.
Leave ==
    /\ phase = "run" /\ n = 0
    /\ phase' = "idle" /\ mpc' = pc
    /\ UNCHANGED <<cpu, ram, pc, n, sprints>>
----------------------------------------------------------------------------
Running == phase = "run" /\ n > 0

Op    == OpcodeOf[Load(ram, pc, 2)]
pc2   == Add(pc, 2)                                \* pc after the opcode
Ext16 == Load(ram, pc2, 2)                         \* f16(pc)
Ext32 == Load(ram, pc2, 4)                         \* f32(pc)
D16   == SignExtend(Ext16, WordMod)

\* The end of every case: registers, X, flags, RAM and pc as it left them.
Retire(r, f, x1, m, next) ==
    /\ Running /\ Fast(pc, 2)
    /\ regs' = r /\ ccr' = f /\ x' = x1 /\ ram' = m /\ pc' = next
    /\ n' = n - 1
    /\ UNCHANGED <<kernel, mpc, phase, sprints>>

\* A case that only writes register i and the condition codes.
Write(i, r, f, x1) == Retire([regs EXCEPT ![i] = r], f, x1, ram, pc2)
----------------------------------------------------------------------------
\* Which opcodes each case executes; the rest reach m68k_illegal.
IsCmpi(op)  == Line(op) = 0 /\ Dr(op) = 6 /\ Opmode(op) = 2 /\ Mode(op) = 0
IsMove(op)  ==
    /\ Line(op) \in {1, 2, 3}
    /\ Mode(op) \in {0, 3, 5} \/ (Mode(op) = 7 /\ Sr(op) = 4)
    /\ Opmode(op) \in {0, 1, 3, 5}
IsTst(op)   == Line(op) = 4 /\ Dr(op) = 5 /\ Dir(op) = 0 /\ Size(op) < 3 /\ Mode(op) = 0
IsLea(op)   == Line(op) = 4 /\ Opmode(op) = 7 /\ Mode(op) = 5
IsNop(op)   == op = 20081  \* 0x4E71
IsDbcc(op)  == Line(op) = 5 /\ Size(op) = 3 /\ Mode(op) = 1
IsQuick(op) == /\ Line(op) = 5 /\ Size(op) = 2
               /\ Mode(op) = 0 \/ (Mode(op) = 1 /\ Dir(op) = 0)
IsBcc(op)   == Line(op) = 6 /\ Cond(op) # 1
IsMoveq(op) == Line(op) = 7
IsAlu(op)   ==
    \/ Line(op) \in {8, 9, 11, 12, 13} /\ Opmode(op) = 2 /\ Mode(op) = 0
    \/ Line(op) = 11 /\ Opmode(op) = 6 /\ Mode(op) = 0
IsShift(op) == Line(op) = 14 /\ Size(op) = 2 /\ Mode(op) = 1

SwitchAccepts(op) ==
    \/ IsCmpi(op) \/ IsMove(op) \/ IsTst(op) \/ IsLea(op) \/ IsNop(op)
    \/ IsDbcc(op) \/ IsQuick(op) \/ IsBcc(op) \/ IsMoveq(op)
    \/ IsAlu(op) \/ IsShift(op)
----------------------------------------------------------------------------
\* MOVE and MOVEA: the operand size, and what the source EA consumes.
MoveSize(op) == IF Line(op) = 2 THEN 4 ELSE IF Line(op) = 3 THEN 2 ELSE 1
SrcExt(op) ==
    CASE Mode(op) \in {0, 3} -> 0
      [] Mode(op) = 5 -> 2
      [] Mode(op) = 7 -> IF MoveSize(op) = 4 THEN 4 ELSE 2

SrcAddr(op) ==
    LET a == regs[AReg(Sr(op))]
    IN IF Mode(op) = 7 THEN pc2 ELSE IF Mode(op) = 5 THEN Add(a, D16) ELSE a
\* An immediate byte is the low half of an extension word.
SrcSize(op) == IF Mode(op) = 7 /\ MoveSize(op) = 1 THEN 2 ELSE MoveSize(op)
SrcValue(op) ==
    IF Mode(op) = 0 THEN regs[Sr(op)] ELSE Load(ram, SrcAddr(op), SrcSize(op))

\* (An)+ advances An; the source does so before the destination looks.
PostInc(r, mode, i, size) ==
    IF mode = 3 THEN [r EXCEPT ![AReg(i)] = Add(@, size)] ELSE r

DstExt(op)  == Add(pc2, SrcExt(op))
DstAddr(op) ==
    LET a == PostInc(regs, Mode(op), Sr(op), MoveSize(op))[AReg(Dr(op))]
    IN IF Opmode(op) = 5 THEN Add(a, SignExtend(Load(ram, DstExt(op), 2), WordMod)) ELSE a

\* A long replaces Dn; a word or a byte its low part.
PutReg(old, val, size) == IF size = 4 THEN val ELSE Merge(old, val, SizeMod(size))

MoveIsFast(op) ==
    /\ Mode(op) = 5 => Fast(pc2, 2)
    /\ Mode(op) = 0 \/ Fast(SrcAddr(op), SrcSize(op))
    /\ Opmode(op) = 5 => Fast(DstExt(op), 2)
    /\ Opmode(op) \in {0, 1} \/ Fast(DstAddr(op), MoveSize(op))

Move ==
    LET size == MoveSize(Op)
        val  == SrcValue(Op)
        r1   == PostInc(regs, Mode(Op), Sr(Op), size)
        dr   == Dr(Op)
        dst  == Opmode(Op)
    IN /\ IsMove(Op) /\ MoveIsFast(Op)
       /\ Retire(
            CASE dst = 0 -> [r1 EXCEPT ![DReg(dr)] = PutReg(@, val, size)]
              [] dst = 1 -> [r1 EXCEPT ![AReg(dr)] = val]
              [] OTHER   -> PostInc(r1, dst, dr, size),
            IF dst = 1 THEN ccr ELSE cc_nz(val, SizeMod(size)),
            x,
            IF dst \in {3, 5} THEN Store(ram, DstAddr(Op), size, val) ELSE ram,
            Add(DstExt(Op), IF dst = 5 THEN 2 ELSE 0))
----------------------------------------------------------------------------
Cmpi ==
    LET d == regs[Sr(Op)]
    IN /\ IsCmpi(Op) /\ Fast(pc2, 4)
       /\ Retire(regs, cc_cmp_l(Ext32, d, Sub(d, Ext32)), x, ram, Add(pc, 6))

Tst ==
    LET d == regs[Sr(Op)]
    IN /\ IsTst(Op)
       /\ Retire(regs,
                 IF Size(Op) = 2 THEN cc_nz_l(d) ELSE IF Size(Op) = 1 THEN cc_nz_w(d) ELSE cc_nz_b(d),
                 x, ram, pc2)

Lea ==
    /\ IsLea(Op) /\ Fast(pc2, 2)
    /\ Retire([regs EXCEPT ![AReg(Dr(Op))] = Add(regs[AReg(Sr(Op))], D16)],
              ccr, x, ram, Add(pc, 4))

Nop == IsNop(Op) /\ Retire(regs, ccr, x, ram, pc2)

\* DBcc: the condition ends the loop, else the low word of Dn counts down.
Dbcc ==
    LET stop == Cond(Op) = 0 \/ m68k_cond(ccr, Cond(Op))
        w    == (regs[Sr(Op)] - 1) % WordMod
    IN /\ IsDbcc(Op) /\ Fast(pc2, 2)
       /\ Retire(IF stop THEN regs ELSE [regs EXCEPT ![Sr(Op)] = Merge(@, w, WordMod)],
                 ccr, x, ram,
                 IF ~stop /\ w # WordMod - 1 THEN Add(pc2, D16) ELSE Add(pc, 4))

AddqSubq ==
    LET q == Quick(Op)
        d == regs[Sr(Op)]
        f == IF Dir(Op) = 1 THEN cc_sub_l(q, d, Sub(d, q)) ELSE cc_add_l(q, d, Add(d, q))
    IN /\ IsQuick(Op)
       /\ IF Mode(Op) = 0
          THEN Write(Sr(Op), IF Dir(Op) = 1 THEN Sub(d, q) ELSE Add(d, q), f, f.c)
          ELSE Write(AReg(Sr(Op)), Add(regs[AReg(Sr(Op))], q), ccr, x)

Bcc ==
    LET long == Disp8(Op) = 0
        fall == IF long THEN Add(pc, 4) ELSE pc2
        target == Add(pc2, IF long THEN D16 ELSE Disp8(Op))
    IN /\ IsBcc(Op) /\ (long => Fast(pc2, 2))
       /\ Retire(regs, ccr, x, ram,
                 IF Cond(Op) = 0 \/ m68k_cond(ccr, Cond(Op)) THEN target ELSE fall)

Moveq ==
    /\ IsMoveq(Op)
    /\ Write(Dr(Op), Disp8(Op), cc_nz_l(Disp8(Op)), x)

\* OR, SUB, CMP, EOR, AND and ADD on two data registers.
Alu ==
    LET s == regs[Sr(Op)]
        d == regs[Dr(Op)]
        logic(r, i) == Write(i, r, cc_nz_l(r), x)
        arith(r, f) == Write(Dr(Op), r, f, f.c)
    IN /\ IsAlu(Op)
       /\ \/ Line(Op) = 8  /\ logic(Or(d, s), Dr(Op))
          \/ Line(Op) = 9  /\ arith(Sub(d, s), cc_sub_l(s, d, Sub(d, s)))
          \/ Line(Op) = 11 /\ Opmode(Op) = 2 /\ Retire(regs, cc_cmp_l(s, d, Sub(d, s)), x, ram, pc2)
          \/ Line(Op) = 11 /\ Opmode(Op) = 6 /\ logic(Eor(s, d), Sr(Op))
          \/ Line(Op) = 12 /\ logic(And(d, s), Dr(Op))
          \/ Line(Op) = 13 /\ arith(Add(d, s), cc_add_l(s, d, Add(d, s)))

Shift ==
    LET q   == Quick(Op)
        val == regs[Sr(Op)]
        left == Dir(Op) = 1
        r   == IF left THEN (val % 2^(LongBits - q)) * 2^q ELSE val \div 2^q
        out == (val \div 2^(IF left THEN LongBits - q ELSE q - 1)) % 2 = 1
    IN /\ IsShift(Op)
       /\ Write(Sr(Op), r, cc_shift(r, out), out)
----------------------------------------------------------------------------
\* The process is gone: what the case had written by then is not observable.
Exit ==
    /\ phase' = "exited" /\ n' = n - 1
    /\ UNCHANGED <<cpu, ram, mpc, pc, sprints>>

\* m68k_illegal never returns.
Illegal == Running /\ Fast(pc, 2) /\ ~SwitchAccepts(Op) /\ Exit

\* A slow-path access is fatal (bad_access).
BadAccess ==
    /\ Running
    /\ \/ ~Fast(pc, 2)
       \/ (IsMove(Op) /\ ~MoveIsFast(Op))
       \/ (IsCmpi(Op) /\ ~Fast(pc2, 4))
       \/ (IsLea(Op) \/ IsDbcc(Op) \/ (IsBcc(Op) /\ Disp8(Op) = 0)) /\ ~Fast(pc2, 2)
    /\ Exit

Execute ==
    \/ Move \/ Cmpi \/ Tst \/ Lea \/ Nop \/ Dbcc \/ AddqSubq \/ Bcc
    \/ Moveq \/ Alu \/ Shift

Next ==
    \/ Setup
    \/ \E budget \in Budgets : Enter(budget)
    \/ Leave
    \/ Execute
    \/ Illegal
    \/ BadAccess

Spec == Init /\ [][Next]_vars
=============================================================================
