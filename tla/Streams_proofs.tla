--------------------------- MODULE Streams_proofs ---------------------------
(***************************************************************************)
(* What the backends take for granted of a random stream, for every seed   *)
(* and every length: a skip lands where it should, the opcodes are known   *)
(* to every backend, code and data stay apart, and the loop closes as far  *)
(* as its branch can reach.  The argument: a draw is two halves of a word; *)
(* whatever the draw, the instruction picked has one of a few forms; the   *)
(* generator keeps that up from turn to turn, and lays the code out within *)
(* known bounds.                                                           *)
(***************************************************************************)
EXTENDS Streams, TLAPS

\* A draw follows a draw, and the two kernels draw alike.
LEMMA LcgType == ASSUME NEW s \in Draw PROVE lcg(s) \in Draw
<1> DEFINE low == s.lo * 26125 + \hF35F
           up == s.hi * 26125 + s.lo * 25 + \h3C6E + low \div 65536
<1>1. s.hi \in Nat /\ s.lo \in Nat
  BY DEF Draw, Half
<1>2. low \in Nat /\ up \in Nat
  BY <1>1
<1> HIDE DEF low, up
<1>3. up % 65536 \in Half /\ low % 65536 \in Half
  BY <1>2 DEF Half
<1>4. lcg(s) = [hi |-> up % 65536, lo |-> low % 65536]
  BY DEF lcg, U32, up, low
<1> QED
  BY <1>3, <1>4 DEF Draw

\* The uint32_t that a pair of halves stands for.
Whole(s) == s.hi * 65536 + s.lo

LEMMA Halves ==
  ASSUME NEW a \in Int
  PROVE  /\ a \div 65536 \in Int /\ a % 65536 \in Int
         /\ a = 65536 * (a \div 65536) + (a % 65536) /\ 0 <= a % 65536 /\ a % 65536 <= 65535
OBVIOUS

\* The sum of the partial products, with the carry of the low one.
LEMMA PartialProducts ==
  ASSUME NEW h \in Int, NEW l \in Int, NEW c \in Int, NEW low \in Int, NEW up \in Int,
         NEW d \in Int,
         low = 65536 * c + d, low = l * 26125 + 62303, up = h * 26125 + l * 25 + 15470 + c
  PROVE  (h * 65536 + l) * 1664525 + 1013904223 = 4294967296 * (25 * h) + 65536 * up + d
OBVIOUS

\* The halves of lcg are those of the C expression s * 1664525 + 1013904223 in
\* uint32_t: nothing is lost where the low product carries into the high half.
THEOREM LcgIsTheProduct ==
  ASSUME NEW s \in Draw
  PROVE  Whole(lcg(s)) = (Whole(s) * 1664525 + 1013904223) % 4294967296
<1> DEFINE low == s.lo * 26125 + \hF35F
           carry == low \div 65536
           up == s.hi * 26125 + s.lo * 25 + \h3C6E + carry
           above == up \div 65536
           x == Whole(s) * 1664525 + 1013904223
           y == (up % 65536) * 65536 + (low % 65536)
<1>1. s.hi \in Int /\ s.lo \in Int
  BY DEF Draw, Half
<1>5. Whole(lcg(s)) = y
  BY DEF lcg, U32, Whole
<1>2. /\ low \in Int /\ carry \in Int /\ low % 65536 \in Int
      /\ low = 65536 * carry + (low % 65536) /\ 0 <= low % 65536 /\ low % 65536 <= 65535
  <2>1. low \in Int
    BY <1>1
  <2> HIDE DEF low
  <2> QED
    BY <2>1, Halves
<1>a. low = s.lo * 26125 + 62303 /\ up = s.hi * 26125 + s.lo * 25 + 15470 + carry
  OBVIOUS
<1>b. x = (s.hi * 65536 + s.lo) * 1664525 + 1013904223
  BY DEF Whole
<1> HIDE DEF low, carry, x
<1>4. /\ up \in Int /\ above \in Int /\ up % 65536 \in Int
      /\ up = 65536 * above + (up % 65536) /\ 0 <= up % 65536 /\ up % 65536 <= 65535
  <2>1. up \in Int
    BY <1>1, <1>2
  <2> HIDE DEF up
  <2> QED
    BY <2>1, Halves
<1> HIDE DEF up, above
<1>3. x = 4294967296 * (25 * s.hi) + 65536 * up + (low % 65536)
  <2> DEFINE d == low % 65536
  <2>1. d \in Int /\ low = 65536 * carry + d
    BY <1>2
  <2> HIDE DEF d
  <2>2. (s.hi * 65536 + s.lo) * 1664525 + 1013904223 = 4294967296 * (25 * s.hi) + 65536 * up + d
    BY <1>1, <1>2, <1>4, <1>a, <2>1, PartialProducts
  <2> QED
    BY <1>b, <2>2 DEF d
<1>6. y \in Int /\ 0 <= y /\ y < 4294967296
  BY <1>2, <1>4
<1>7. x = 4294967296 * (25 * s.hi + above) + y /\ 25 * s.hi + above \in Int
  BY <1>1, <1>2, <1>3, <1>4
<1> HIDE DEF y
<1>8. x % 4294967296 = y
  BY <1>6, <1>7
<1> QED
  BY <1>5, <1>8 DEF x

LEMMA SameLcg == \A s : M!lcg(s) = lcg(s)
BY DEF M!lcg, lcg, M!U32, U32

\* So does the seed left by a prologue, which takes eight or ten draws.
LEMMA AfterType ==
  ASSUME NEW s \in Draw, NEW k \in {8, 10} PROVE After(s, k) \in Draw
<1> DEFINE F(g) == [j \in 0..k |-> IF j = 0 THEN s ELSE lcg(g[j - 1])]
           f == CHOOSE g : g = F(g)
           s1 == lcg(s)    s2 == lcg(s1)   s3 == lcg(s2)   s4 == lcg(s3)   s5 == lcg(s4)
           s6 == lcg(s5)   s7 == lcg(s6)   s8 == lcg(s7)   s9 == lcg(s8)   s10 == lcg(s9)
           h == [j \in 0..k |-> CASE j = 0 -> s [] j = 1 -> s1 [] j = 2 -> s2 [] j = 3 -> s3
                                  [] j = 4 -> s4 [] j = 5 -> s5 [] j = 6 -> s6 [] j = 7 -> s7
                                  [] j = 8 -> s8 [] j = 9 -> s9 [] j = 10 -> s10]
<1>1. After(s, k) = f[k]
  BY Zenon DEF After
<1>2. f = F(f)
  <2>1. h = F(h)
    <3>1. ASSUME NEW j \in 0..k PROVE h[j] = IF j = 0 THEN s ELSE lcg(h[j - 1])
      <4> HIDE DEF s1, s2, s3, s4, s5, s6, s7, s8, s9, s10
      <4>1. j \in {0, 1, 2, 3, 4, 5, 6, 7, 8, 9, 10}
        OBVIOUS
      <4> QED
        BY <4>1 DEF s1, s2, s3, s4, s5, s6, s7, s8, s9, s10
    <3>2. h = [j \in 0..k |-> h[j]]
      OBVIOUS
    <3> HIDE DEF h, s1, s2, s3, s4, s5, s6, s7, s8, s9, s10
    <3>3. F(h) = [j \in 0..k |-> h[j]]
      BY <3>1, Zenon
    <3> QED
      BY <3>2, <3>3
  <2> HIDE DEF h, F
  <2> QED
    BY <2>1, Zenon
<1> HIDE DEF f
<1>3. \A j \in 0..k : f[j] = IF j = 0 THEN s ELSE lcg(f[j - 1])
  BY <1>2, Zenon
<1>4. f[0] \in Draw
  BY <1>3
<1>5. \A j \in 0..k \ {0} : f[j - 1] \in Draw => f[j] \in Draw
  BY <1>3, LcgType
<1>6. f[1] \in Draw /\ f[2] \in Draw /\ f[3] \in Draw /\ f[4] \in Draw /\ f[5] \in Draw
      /\ f[6] \in Draw /\ f[7] \in Draw /\ f[8] \in Draw
  BY <1>4, <1>5
<1>7. k = 10 => f[9] \in Draw /\ f[10] \in Draw
  BY <1>5, <1>6
<1> QED
  BY <1>1, <1>6, <1>7

\* The ranges of the fields the two emitters cut out of a draw.
LEMMA ShiftFacts ==
  ASSUME NEW r \in Draw
  PROVE  /\ M!Shr(r, 8) % 8 \in 0..7 /\ M!Shr(r, 12) % 8 \in 0..7
         /\ M!Shr(r, 26) % 8 \in 0..7 /\ M!Shr(r, 5) % 6 \in 0..5
         /\ M!Mod(r, 100) \in 0..99 /\ M!Mod(r, 40) \in 0..39
         /\ P!Shr(r, 8) % 10 \in 0..9 /\ P!Shr(r, 12) % 10 \in 0..9 /\ P!Shr(r, 16) % 10 \in 0..9
         /\ P!Shr(r, 3) % 32 \in 0..31 /\ P!Shr(r, 26) % 32 \in 0..31 /\ P!Shr(r, 6) % 4 \in 0..3
         /\ P!Mod(r, 100) \in 0..99 /\ P!Shr(r, 20) \in Nat
<1>1. r.hi \in Nat /\ r.lo \in Nat
  BY DEF Draw, Half
<1>2. M!Shr(r, 8) \in Nat
  BY <1>1 DEF M!Shr
<1>3. M!Shr(r, 12) \in Nat
  BY <1>1 DEF M!Shr
<1>4. M!Shr(r, 26) \in Nat
  BY <1>1 DEF M!Shr
<1>5. M!Shr(r, 5) \in Nat
  BY <1>1 DEF M!Shr
<1>6. P!Shr(r, 8) \in Nat
  BY <1>1 DEF P!Shr
<1>7. P!Shr(r, 12) \in Nat
  BY <1>1 DEF P!Shr
<1>8. P!Shr(r, 16) \in Nat
  BY <1>1 DEF P!Shr
<1>9. P!Shr(r, 3) \in Nat
  BY <1>1 DEF P!Shr
<1>10. P!Shr(r, 26) \in Nat
  BY <1>1 DEF P!Shr
<1>11. P!Shr(r, 6) \in Nat
  BY <1>1 DEF P!Shr
<1>12. P!Shr(r, 20) \in Nat
  BY <1>1 DEF P!Shr
<1>13. M!Mod(r, 100) \in 0..99
  <2>1. (r.hi % 100) * (65536 % 100) + r.lo \in Nat
    BY <1>1
  <2> QED
    BY <2>1 DEF M!Mod
<1>14. M!Mod(r, 40) \in 0..39
  <2>1. (r.hi % 40) * (65536 % 40) + r.lo \in Nat
    BY <1>1
  <2> QED
    BY <2>1 DEF M!Mod
<1>15. P!Mod(r, 100) \in 0..99
  <2>1. (r.hi % 100) * (65536 % 100) + r.lo \in Nat
    BY <1>1
  <2> QED
    BY <2>1 DEF P!Mod
<1> QED
  BY <1>2, <1>3, <1>4, <1>5, <1>6, <1>7, <1>8, <1>9, <1>10, <1>11, <1>12, <1>13, <1>14, <1>15
-----------------------------------------------------------------------------
\* The M68K stream.
Dec(ins)    == D!Decode(ins.op, 0, 0, 0).ent
SkipsM(ins) == ins.op \div 4096 = 6 /\ ins.op % 256 # 0
DataRegisters == 0..7

\* An instruction that works on data registers only, a branch apart.
Plain(ins) ==
    /\ Dec(ins).id \notin LoadOps \cup StoreOps \cup {"ILLEGAL"}
    /\ Dec(ins).a \in DataRegisters /\ ~SkipsM(ins)

\* The forms the emitter draws from, and their opcodes.
LEMMA PlainForms ==
  ASSUME NEW d \in 0..7, NEW s \in 0..7, NEW q \in 1..8, NEW n \in Int
  PROVE  /\ Plain(M!ADD_L_DD(d, s))
         /\ Plain(M!SUB_L_DD(d, s))
         /\ Plain(M!EOR_L_DD(s, d))
         /\ Plain(M!AND_L_DD(d, s))
         /\ Plain(M!OR_L_DD(d, s))
         /\ Plain(M!CMP_L_DD(d, s))
         /\ Plain(M!MOVE_L_DD(d, s))
         /\ Plain(M!ADDQ_L_DN(q, d))
         /\ Plain(M!SUBQ_L_DN(q, d))
         /\ Plain(M!LSL_L(q, d))
         /\ Plain(M!LSR_L(q, d))
         /\ Plain(M!MOVEQ(d, n))
         /\ Plain(M!TST_L_DN(d))
         /\ Plain(M!MOVE_L_IMM_DN(d, 0))
         /\ Plain(M!CMPI_L_DN(0, d))
<1> DEFINE m == n % 256
<1>0. m \in 0..255 /\ q % 8 \in 0..7
  OBVIOUS
<1> HIDE DEF m
<1>1. Plain(M!ADD_L_DD(d, s))
  <2> DEFINE op == M!ADD_L_DD(d, s).op
  <2>1. D!Line(op) = 13 /\ D!Mode(op) = 0 /\ D!Opmode(op) = 2 /\ D!Dr(op) = d /\ D!Sr(op) = s
    BY <1>0 DEF M!ADD_L_DD, M!Ins, m, D!Field, D!Line, D!Mode, D!Opmode, D!Dr, D!Sr
  <2>2. op \in Nat /\ op \div 4096 # 6
    BY <1>0 DEF M!ADD_L_DD, M!Ins, m
  <2> HIDE DEF op
  <2>3. /\ D!Decode(op, 0, 0, 0).ent.id \notin LoadOps \cup StoreOps \cup {"ILLEGAL"}
        /\ D!Decode(op, 0, 0, 0).ent.a \in DataRegisters
    BY <2>1 DEF DataRegisters, LoadOps, StoreOps, D!Decode, D!DecodeAlu, D!Is, D!Entry, D!IsDD, D!IsImm, D!DReg
  <2> QED
    BY <2>2, <2>3 DEF op, Dec, Plain, SkipsM
<1>2. Plain(M!SUB_L_DD(d, s))
  <2> DEFINE op == M!SUB_L_DD(d, s).op
  <2>1. D!Line(op) = 9 /\ D!Mode(op) = 0 /\ D!Opmode(op) = 2 /\ D!Dr(op) = d /\ D!Sr(op) = s
    BY <1>0 DEF M!SUB_L_DD, M!Ins, m, D!Field, D!Line, D!Mode, D!Opmode, D!Dr, D!Sr
  <2>2. op \in Nat /\ op \div 4096 # 6
    BY <1>0 DEF M!SUB_L_DD, M!Ins, m
  <2> HIDE DEF op
  <2>3. /\ D!Decode(op, 0, 0, 0).ent.id \notin LoadOps \cup StoreOps \cup {"ILLEGAL"}
        /\ D!Decode(op, 0, 0, 0).ent.a \in DataRegisters
    BY <2>1 DEF DataRegisters, LoadOps, StoreOps, D!Decode, D!DecodeAlu, D!Is, D!Entry, D!IsDD, D!IsImm, D!DReg
  <2> QED
    BY <2>2, <2>3 DEF op, Dec, Plain, SkipsM
<1>3. Plain(M!EOR_L_DD(s, d))
  <2> DEFINE op == M!EOR_L_DD(s, d).op
  <2>1. D!Line(op) = 11 /\ D!Mode(op) = 0 /\ D!Opmode(op) = 6 /\ D!Sr(op) = s
    BY <1>0 DEF M!EOR_L_DD, M!Ins, m, D!Field, D!Line, D!Mode, D!Opmode, D!Sr
  <2>2. op \in Nat /\ op \div 4096 # 6
    BY <1>0 DEF M!EOR_L_DD, M!Ins, m
  <2> HIDE DEF op
  <2>3. /\ D!Decode(op, 0, 0, 0).ent.id \notin LoadOps \cup StoreOps \cup {"ILLEGAL"}
        /\ D!Decode(op, 0, 0, 0).ent.a \in DataRegisters
    BY <2>1 DEF DataRegisters, LoadOps, StoreOps, D!Decode, D!DecodeAlu, D!Is, D!Entry, D!IsDD, D!IsImm, D!DReg
  <2> QED
    BY <2>2, <2>3 DEF op, Dec, Plain, SkipsM
<1>4. Plain(M!AND_L_DD(d, s))
  <2> DEFINE op == M!AND_L_DD(d, s).op
  <2>1. D!Line(op) = 12 /\ D!Mode(op) = 0 /\ D!Opmode(op) = 2 /\ D!Dr(op) = d
    BY <1>0 DEF M!AND_L_DD, M!Ins, m, D!Field, D!Line, D!Mode, D!Opmode, D!Dr
  <2>2. op \in Nat /\ op \div 4096 # 6
    BY <1>0 DEF M!AND_L_DD, M!Ins, m
  <2> HIDE DEF op
  <2>3. /\ D!Decode(op, 0, 0, 0).ent.id \notin LoadOps \cup StoreOps \cup {"ILLEGAL"}
        /\ D!Decode(op, 0, 0, 0).ent.a \in DataRegisters
    BY <2>1 DEF DataRegisters, LoadOps, StoreOps, D!Decode, D!DecodeAlu, D!Is, D!Entry, D!IsDD, D!IsImm, D!DReg
  <2> QED
    BY <2>2, <2>3 DEF op, Dec, Plain, SkipsM
<1>5. Plain(M!OR_L_DD(d, s))
  <2> DEFINE op == M!OR_L_DD(d, s).op
  <2>1. D!Line(op) = 8 /\ D!Mode(op) = 0 /\ D!Opmode(op) = 2 /\ D!Dr(op) = d
    BY <1>0 DEF M!OR_L_DD, M!Ins, m, D!Field, D!Line, D!Mode, D!Opmode, D!Dr
  <2>2. op \in Nat /\ op \div 4096 # 6
    BY <1>0 DEF M!OR_L_DD, M!Ins, m
  <2> HIDE DEF op
  <2>3. /\ D!Decode(op, 0, 0, 0).ent.id \notin LoadOps \cup StoreOps \cup {"ILLEGAL"}
        /\ D!Decode(op, 0, 0, 0).ent.a \in DataRegisters
    BY <2>1 DEF DataRegisters, LoadOps, StoreOps, D!Decode, D!DecodeAlu, D!Is, D!Entry, D!IsDD, D!IsImm, D!DReg
  <2> QED
    BY <2>2, <2>3 DEF op, Dec, Plain, SkipsM
<1>6. Plain(M!CMP_L_DD(d, s))
  <2> DEFINE op == M!CMP_L_DD(d, s).op
  <2>1. D!Line(op) = 11 /\ D!Mode(op) = 0 /\ D!Opmode(op) = 2 /\ D!Dr(op) = d
    BY <1>0 DEF M!CMP_L_DD, M!Ins, m, D!Field, D!Line, D!Mode, D!Opmode, D!Dr
  <2>2. op \in Nat /\ op \div 4096 # 6
    BY <1>0 DEF M!CMP_L_DD, M!Ins, m
  <2> HIDE DEF op
  <2>3. /\ D!Decode(op, 0, 0, 0).ent.id \notin LoadOps \cup StoreOps \cup {"ILLEGAL"}
        /\ D!Decode(op, 0, 0, 0).ent.a \in DataRegisters
    BY <2>1 DEF DataRegisters, LoadOps, StoreOps, D!Decode, D!DecodeAlu, D!Is, D!Entry, D!IsDD, D!IsImm, D!DReg
  <2> QED
    BY <2>2, <2>3 DEF op, Dec, Plain, SkipsM
<1>7. Plain(M!MOVE_L_DD(d, s))
  <2> DEFINE op == M!MOVE_L_DD(d, s).op
  <2>1. D!Line(op) = 2 /\ D!Mode(op) = 0 /\ D!Opmode(op) = 0 /\ D!Dr(op) = d
    BY <1>0 DEF M!MOVE_L_DD, M!Ins, m, D!Field, D!Line, D!Mode, D!Opmode, D!Dr
  <2>2. op \in Nat /\ op \div 4096 # 6
    BY <1>0 DEF M!MOVE_L_DD, M!Ins, m
  <2> HIDE DEF op
  <2>3. /\ D!Decode(op, 0, 0, 0).ent.id \notin LoadOps \cup StoreOps \cup {"ILLEGAL"}
        /\ D!Decode(op, 0, 0, 0).ent.a \in DataRegisters
    BY <2>1 DEF DataRegisters, LoadOps, StoreOps, D!Decode, D!DecodeMove, D!Is, D!Entry, D!IsDD, D!IsImm, D!DReg
  <2> QED
    BY <2>2, <2>3 DEF op, Dec, Plain, SkipsM
<1>8. Plain(M!ADDQ_L_DN(q, d))
  <2> DEFINE op == M!ADDQ_L_DN(q, d).op
  <2>1. D!Line(op) = 5 /\ D!Mode(op) = 0 /\ D!Size(op) = 2 /\ D!Sr(op) = d
    BY <1>0 DEF M!ADDQ_L_DN, M!Ins, m, D!Field, D!Line, D!Mode, D!Size, D!Sr
  <2>2. op \in Nat /\ op \div 4096 # 6
    BY <1>0 DEF M!ADDQ_L_DN, M!Ins, m
  <2> HIDE DEF op
  <2>3. /\ D!Decode(op, 0, 0, 0).ent.id \notin LoadOps \cup StoreOps \cup {"ILLEGAL"}
        /\ D!Decode(op, 0, 0, 0).ent.a \in DataRegisters
    BY <2>1 DEF DataRegisters, LoadOps, StoreOps, D!Decode, D!DecodeQuick, D!Is, D!Entry, D!IsDD, D!IsImm, D!DReg
  <2> QED
    BY <2>2, <2>3 DEF op, Dec, Plain, SkipsM
<1>9. Plain(M!SUBQ_L_DN(q, d))
  <2> DEFINE op == M!SUBQ_L_DN(q, d).op
  <2>1. D!Line(op) = 5 /\ D!Mode(op) = 0 /\ D!Size(op) = 2 /\ D!Sr(op) = d
    BY <1>0 DEF M!SUBQ_L_DN, M!Ins, m, D!Field, D!Line, D!Mode, D!Size, D!Sr
  <2>2. op \in Nat /\ op \div 4096 # 6
    BY <1>0 DEF M!SUBQ_L_DN, M!Ins, m
  <2> HIDE DEF op
  <2>3. /\ D!Decode(op, 0, 0, 0).ent.id \notin LoadOps \cup StoreOps \cup {"ILLEGAL"}
        /\ D!Decode(op, 0, 0, 0).ent.a \in DataRegisters
    BY <2>1 DEF DataRegisters, LoadOps, StoreOps, D!Decode, D!DecodeQuick, D!Is, D!Entry, D!IsDD, D!IsImm, D!DReg
  <2> QED
    BY <2>2, <2>3 DEF op, Dec, Plain, SkipsM
<1>10. Plain(M!LSL_L(q, d))
  <2> DEFINE op == M!LSL_L(q, d).op
  <2>1. D!Line(op) = 14 /\ D!Mode(op) = 1 /\ D!Size(op) = 2 /\ D!Sr(op) = d
    BY <1>0 DEF M!LSL_L, M!Ins, m, D!Field, D!Line, D!Mode, D!Size, D!Sr
  <2>2. op \in Nat /\ op \div 4096 # 6
    BY <1>0 DEF M!LSL_L, M!Ins, m
  <2> HIDE DEF op
  <2>3. /\ D!Decode(op, 0, 0, 0).ent.id \notin LoadOps \cup StoreOps \cup {"ILLEGAL"}
        /\ D!Decode(op, 0, 0, 0).ent.a \in DataRegisters
    BY <2>1 DEF DataRegisters, LoadOps, StoreOps, D!Decode, D!Is, D!Entry, D!IsDD, D!IsImm, D!DReg
  <2> QED
    BY <2>2, <2>3 DEF op, Dec, Plain, SkipsM
<1>11. Plain(M!LSR_L(q, d))
  <2> DEFINE op == M!LSR_L(q, d).op
  <2>1. D!Line(op) = 14 /\ D!Mode(op) = 1 /\ D!Size(op) = 2 /\ D!Sr(op) = d
    BY <1>0 DEF M!LSR_L, M!Ins, m, D!Field, D!Line, D!Mode, D!Size, D!Sr
  <2>2. op \in Nat /\ op \div 4096 # 6
    BY <1>0 DEF M!LSR_L, M!Ins, m
  <2> HIDE DEF op
  <2>3. /\ D!Decode(op, 0, 0, 0).ent.id \notin LoadOps \cup StoreOps \cup {"ILLEGAL"}
        /\ D!Decode(op, 0, 0, 0).ent.a \in DataRegisters
    BY <2>1 DEF DataRegisters, LoadOps, StoreOps, D!Decode, D!Is, D!Entry, D!IsDD, D!IsImm, D!DReg
  <2> QED
    BY <2>2, <2>3 DEF op, Dec, Plain, SkipsM
<1>12. Plain(M!MOVEQ(d, n))
  <2> DEFINE op == M!MOVEQ(d, n).op
  <2>1. D!Line(op) = 7 /\ D!Dr(op) = d
    BY <1>0 DEF M!MOVEQ, M!Ins, m, D!Field, D!Line, D!Dr
  <2>2. op \in Nat /\ op \div 4096 # 6
    BY <1>0 DEF M!MOVEQ, M!Ins, m
  <2> HIDE DEF op
  <2>3. /\ D!Decode(op, 0, 0, 0).ent.id \notin LoadOps \cup StoreOps \cup {"ILLEGAL"}
        /\ D!Decode(op, 0, 0, 0).ent.a \in DataRegisters
    BY <2>1 DEF DataRegisters, LoadOps, StoreOps, D!Decode, D!Is, D!Entry, D!IsDD, D!IsImm, D!DReg
  <2> QED
    BY <2>2, <2>3 DEF op, Dec, Plain, SkipsM
<1>13. Plain(M!TST_L_DN(d))
  <2> DEFINE op == M!TST_L_DN(d).op
  <2>1. D!Line(op) = 4 /\ D!Dr(op) = 5 /\ D!Dir(op) = 0 /\ D!Mode(op) = 0 /\ D!Size(op) = 2 /\ D!Sr(op) = d
    BY <1>0 DEF M!TST_L_DN, M!Ins, m, D!Field, D!Line, D!Dr, D!Dir, D!Mode, D!Size, D!Sr
  <2>2. op \in Nat /\ op \div 4096 # 6
    BY <1>0 DEF M!TST_L_DN, M!Ins, m
  <2> HIDE DEF op
  <2>3. /\ D!Decode(op, 0, 0, 0).ent.id \notin LoadOps \cup StoreOps \cup {"ILLEGAL"}
        /\ D!Decode(op, 0, 0, 0).ent.a \in DataRegisters
    BY <2>1 DEF DataRegisters, LoadOps, StoreOps, D!Decode, D!DecodeMisc, D!Is, D!Entry, D!IsDD, D!IsImm, D!DReg
  <2> QED
    BY <2>2, <2>3 DEF op, Dec, Plain, SkipsM
<1>14. Plain(M!MOVE_L_IMM_DN(d, 0))
  <2> DEFINE op == M!MOVE_L_IMM_DN(d, 0).op
  <2>1. D!Line(op) = 2 /\ D!Mode(op) = 7 /\ D!Sr(op) = 4 /\ D!Opmode(op) = 0 /\ D!Dr(op) = d
    BY <1>0 DEF M!MOVE_L_IMM_DN, M!Ins, m, D!Field, D!Line, D!Mode, D!Sr, D!Opmode, D!Dr
  <2>2. op \in Nat /\ op \div 4096 # 6
    BY <1>0 DEF M!MOVE_L_IMM_DN, M!Ins, m
  <2> HIDE DEF op
  <2>3. /\ D!Decode(op, 0, 0, 0).ent.id \notin LoadOps \cup StoreOps \cup {"ILLEGAL"}
        /\ D!Decode(op, 0, 0, 0).ent.a \in DataRegisters
    BY <2>1 DEF DataRegisters, LoadOps, StoreOps, D!Decode, D!DecodeMove, D!Is, D!Entry, D!IsDD, D!IsImm, D!DReg
  <2> QED
    BY <2>2, <2>3 DEF op, Dec, Plain, SkipsM
<1>15. Plain(M!CMPI_L_DN(0, d))
  <2> DEFINE op == M!CMPI_L_DN(0, d).op
  <2>1. D!Line(op) = 0 /\ D!Dr(op) = 6 /\ D!Mode(op) = 0 /\ D!Opmode(op) = 2 /\ D!Sr(op) = d
    BY <1>0 DEF M!CMPI_L_DN, M!Ins, m, D!Field, D!Line, D!Dr, D!Mode, D!Opmode, D!Sr
  <2>2. op \in Nat /\ op \div 4096 # 6
    BY <1>0 DEF M!CMPI_L_DN, M!Ins, m
  <2> HIDE DEF op
  <2>3. /\ D!Decode(op, 0, 0, 0).ent.id \notin LoadOps \cup StoreOps \cup {"ILLEGAL"}
        /\ D!Decode(op, 0, 0, 0).ent.a \in DataRegisters
    BY <2>1 DEF DataRegisters, LoadOps, StoreOps, D!Decode, D!Is, D!Entry, D!IsDD, D!IsImm, D!DReg
  <2> QED
    BY <2>2, <2>3 DEF op, Dec, Plain, SkipsM
<1> QED
  BY <1>1, <1>2, <1>3, <1>4, <1>5, <1>6, <1>7, <1>8, <1>9, <1>10, <1>11, <1>12, <1>13, <1>14, <1>15

\* An access at a small offset of one of the two windows.
InPlace(ins, ops, an) ==
    /\ Dec(ins).id \in ops /\ Dec(ins).b = an /\ ~SkipsM(ins)
    /\ ins.ext[1] + D!SizedId(ins.op, 4, 2, 1) <= Window /\ ins.ext[1] % 4 = 0

LEMMA AccessForms ==
  ASSUME NEW d \in 0..7, NEW off \in Nat, off <= Window - 4, off % 4 = 0
  PROVE  /\ InPlace(M!MOVE_L_D16_DN(d, 5, off), LoadOps, 13)
         /\ InPlace(M!MOVE_W_D16_DN(d, 5, off), LoadOps, 13)
         /\ InPlace(M!MOVE_B_D16_DN(d, 5, off), LoadOps, 13)
         /\ InPlace(M!MOVE_L_DN_D16(6, off, d), StoreOps, 14)
         /\ InPlace(M!MOVE_W_DN_D16(6, off, d), StoreOps, 14)
         /\ InPlace(M!MOVE_B_DN_D16(6, off, d), StoreOps, 14)
<1>0. M!One(off) = <<off>>
  <2>1. M!WordMod = 65536
    BY DEF M!WordMod, M!ByteMod
  <2>2. off % 65536 = off
    BY DEF Window
  <2> QED
    BY <2>1, <2>2 DEF M!One
<1>1. InPlace(M!MOVE_L_D16_DN(d, 5, off), LoadOps, 13)
  <2> DEFINE op == M!MOVE_L_D16_DN(d, 5, off).op
  <2>1. D!Line(op) = 2 /\ D!Mode(op) = 5 /\ D!Sr(op) = 5 /\ D!Opmode(op) = 0
    BY DEF M!MOVE_L_D16_DN, M!Ins, D!Field, D!Line, D!Mode, D!Sr, D!Opmode
  <2>2. op \div 4096 # 6 /\ M!MOVE_L_D16_DN(d, 5, off).ext = <<off>>
    BY <1>0 DEF M!MOVE_L_D16_DN, M!Ins
  <2> HIDE DEF op
  <2>3. /\ D!Decode(op, 0, 0, 0).ent.id \in LoadOps
        /\ D!Decode(op, 0, 0, 0).ent.b = 13
    BY <2>1 DEF LoadOps, D!Decode, D!DecodeMove, D!Is, D!Entry, D!IsImm, D!AReg, D!SizedId
  <2> QED
    BY <2>1, <2>2, <2>3 DEF op, Dec, InPlace, SkipsM, D!SizedId, Window
<1>2. InPlace(M!MOVE_W_D16_DN(d, 5, off), LoadOps, 13)
  <2> DEFINE op == M!MOVE_W_D16_DN(d, 5, off).op
  <2>1. D!Line(op) = 3 /\ D!Mode(op) = 5 /\ D!Sr(op) = 5 /\ D!Opmode(op) = 0
    BY DEF M!MOVE_W_D16_DN, M!Ins, D!Field, D!Line, D!Mode, D!Sr, D!Opmode
  <2>2. op \div 4096 # 6 /\ M!MOVE_W_D16_DN(d, 5, off).ext = <<off>>
    BY <1>0 DEF M!MOVE_W_D16_DN, M!Ins
  <2> HIDE DEF op
  <2>3. /\ D!Decode(op, 0, 0, 0).ent.id \in LoadOps
        /\ D!Decode(op, 0, 0, 0).ent.b = 13
    BY <2>1 DEF LoadOps, D!Decode, D!DecodeMove, D!Is, D!Entry, D!IsImm, D!AReg, D!SizedId
  <2> QED
    BY <2>1, <2>2, <2>3 DEF op, Dec, InPlace, SkipsM, D!SizedId, Window
<1>3. InPlace(M!MOVE_B_D16_DN(d, 5, off), LoadOps, 13)
  <2> DEFINE op == M!MOVE_B_D16_DN(d, 5, off).op
  <2>1. D!Line(op) = 1 /\ D!Mode(op) = 5 /\ D!Sr(op) = 5 /\ D!Opmode(op) = 0
    BY DEF M!MOVE_B_D16_DN, M!Ins, D!Field, D!Line, D!Mode, D!Sr, D!Opmode
  <2>2. op \div 4096 # 6 /\ M!MOVE_B_D16_DN(d, 5, off).ext = <<off>>
    BY <1>0 DEF M!MOVE_B_D16_DN, M!Ins
  <2> HIDE DEF op
  <2>3. /\ D!Decode(op, 0, 0, 0).ent.id \in LoadOps
        /\ D!Decode(op, 0, 0, 0).ent.b = 13
    BY <2>1 DEF LoadOps, D!Decode, D!DecodeMove, D!Is, D!Entry, D!IsImm, D!AReg, D!SizedId
  <2> QED
    BY <2>1, <2>2, <2>3 DEF op, Dec, InPlace, SkipsM, D!SizedId, Window
<1>4. InPlace(M!MOVE_L_DN_D16(6, off, d), StoreOps, 14)
  <2> DEFINE op == M!MOVE_L_DN_D16(6, off, d).op
  <2>1. D!Line(op) = 2 /\ D!Mode(op) = 0 /\ D!Dr(op) = 6 /\ D!Opmode(op) = 5
    BY DEF M!MOVE_L_DN_D16, M!Ins, D!Field, D!Line, D!Mode, D!Dr, D!Opmode
  <2>2. op \div 4096 # 6 /\ M!MOVE_L_DN_D16(6, off, d).ext = <<off>>
    BY <1>0 DEF M!MOVE_L_DN_D16, M!Ins
  <2> HIDE DEF op
  <2>3. /\ D!Decode(op, 0, 0, 0).ent.id \in StoreOps
        /\ D!Decode(op, 0, 0, 0).ent.b = 14
    BY <2>1 DEF StoreOps, D!Decode, D!DecodeMove, D!Is, D!Entry, D!IsImm, D!AReg, D!SizedId
  <2> QED
    BY <2>1, <2>2, <2>3 DEF op, Dec, InPlace, SkipsM, D!SizedId, Window
<1>5. InPlace(M!MOVE_W_DN_D16(6, off, d), StoreOps, 14)
  <2> DEFINE op == M!MOVE_W_DN_D16(6, off, d).op
  <2>1. D!Line(op) = 3 /\ D!Mode(op) = 0 /\ D!Dr(op) = 6 /\ D!Opmode(op) = 5
    BY DEF M!MOVE_W_DN_D16, M!Ins, D!Field, D!Line, D!Mode, D!Dr, D!Opmode
  <2>2. op \div 4096 # 6 /\ M!MOVE_W_DN_D16(6, off, d).ext = <<off>>
    BY <1>0 DEF M!MOVE_W_DN_D16, M!Ins
  <2> HIDE DEF op
  <2>3. /\ D!Decode(op, 0, 0, 0).ent.id \in StoreOps
        /\ D!Decode(op, 0, 0, 0).ent.b = 14
    BY <2>1 DEF StoreOps, D!Decode, D!DecodeMove, D!Is, D!Entry, D!IsImm, D!AReg, D!SizedId
  <2> QED
    BY <2>1, <2>2, <2>3 DEF op, Dec, InPlace, SkipsM, D!SizedId, Window
<1>6. InPlace(M!MOVE_B_DN_D16(6, off, d), StoreOps, 14)
  <2> DEFINE op == M!MOVE_B_DN_D16(6, off, d).op
  <2>1. D!Line(op) = 1 /\ D!Mode(op) = 0 /\ D!Dr(op) = 6 /\ D!Opmode(op) = 5
    BY DEF M!MOVE_B_DN_D16, M!Ins, D!Field, D!Line, D!Mode, D!Dr, D!Opmode
  <2>2. op \div 4096 # 6 /\ M!MOVE_B_DN_D16(6, off, d).ext = <<off>>
    BY <1>0 DEF M!MOVE_B_DN_D16, M!Ins
  <2> HIDE DEF op
  <2>3. /\ D!Decode(op, 0, 0, 0).ent.id \in StoreOps
        /\ D!Decode(op, 0, 0, 0).ent.b = 14
    BY <2>1 DEF StoreOps, D!Decode, D!DecodeMove, D!Is, D!Entry, D!IsImm, D!AReg, D!SizedId
  <2> QED
    BY <2>1, <2>2, <2>3 DEF op, Dec, InPlace, SkipsM, D!SizedId, Window
<1> QED
  BY <1>1, <1>2, <1>3, <1>4, <1>5, <1>6

\* A conditional branch over the next word, the branch back, the NOP.
LEMMA BranchForms ==
  /\ \A cond \in {7, 6, 13, 12, 11, 10} :
        SkipsM(M!BCC_B(cond, 2)) /\ Dec(M!BCC_B(cond, 2)).id \notin LoadOps \cup StoreOps \cup {"ILLEGAL"}
  /\ \A dist : ~SkipsM(M!BRA_W(dist)) /\ Dec(M!BRA_W(dist)).id # "ILLEGAL"
  /\ ~SkipsM(M!NOP) /\ Dec(M!NOP).id # "ILLEGAL"
<1>1. ASSUME NEW cond \in {7, 6, 13, 12, 11, 10}
      PROVE  /\ SkipsM(M!BCC_B(cond, 2))
             /\ Dec(M!BCC_B(cond, 2)).id \notin LoadOps \cup StoreOps \cup {"ILLEGAL"}
  <2> DEFINE op == M!BCC_B(cond, 2).op
  <2>1. D!Line(op) = 6 /\ D!Cond(op) = cond /\ op \div 4096 = 6 /\ op % 256 = 2
    BY DEF M!BCC_B, M!Ins, D!Field, D!Line, D!Cond
  <2> HIDE DEF op
  <2>2. D!BccId(cond) \notin LoadOps \cup StoreOps \cup {"ILLEGAL"}
    BY DEF D!BccId, LoadOps, StoreOps
  <2>3. D!Decode(op, 0, 0, 0).ent.id = D!BccId(cond)
    BY <2>1, <2>2 DEF D!Decode, D!DecodeBranch, D!Is, D!Entry
  <2> QED
    BY <2>1, <2>2, <2>3 DEF op, Dec, SkipsM
<1>2. ASSUME NEW dist PROVE ~SkipsM(M!BRA_W(dist)) /\ Dec(M!BRA_W(dist)).id # "ILLEGAL"
  <2> DEFINE op == M!BRA_W(dist).op
  <2>1. D!Line(op) = 6 /\ D!Cond(op) = 0 /\ op % 256 = 0
    BY DEF M!BRA_W, M!Ins, D!Field, D!Line, D!Cond
  <2> HIDE DEF op
  <2>2. D!Decode(op, 0, 0, 0).ent.id = "BRA"
    BY <2>1 DEF D!Decode, D!DecodeBranch, D!BccId, D!Is, D!Entry
  <2> QED
    BY <2>1, <2>2 DEF op, Dec, SkipsM
<1>3. ~SkipsM(M!NOP) /\ Dec(M!NOP).id # "ILLEGAL"
  <2> DEFINE op == M!NOP.op
  <2>1. op = 20081
    BY DEF M!NOP, M!Ins
  <2>2. D!Line(20081) = 4 /\ D!Dr(20081) = 7 /\ D!Opmode(20081) = 1
    BY DEF D!Field, D!Line, D!Dr, D!Opmode
  <2> HIDE DEF op
  <2>3. D!Decode(op, 0, 0, 0).ent.id = "NOP"
    BY <2>1, <2>2 DEF D!Decode, D!DecodeMisc, D!Is, D!Entry
  <2> QED
    BY <2>1, <2>3 DEF op, Dec, SkipsM
<1> QED
  BY <1>1, <1>2, <1>3

\* What the stream may hold.
FitsM(ins) ==
    /\ Dec(ins).id # "ILLEGAL"
    /\ \/ InPlace(ins, LoadOps, 13)
       \/ InPlace(ins, StoreOps, 14)
       \/ /\ Dec(ins).id \notin LoadOps \cup StoreOps
          /\ SkipsM(ins) \/ Dec(ins).a \in DataRegisters

\* A new extension word is a new immediate and nothing else.
LEMMA ImmediateApart ==
  ASSUME NEW d \in 0..7, NEW v
  PROVE  Plain(M!WithLong(M!MOVE_L_IMM_DN(d, 0), v)) /\ Plain(M!WithLong(M!CMPI_L_DN(0, d), v))
<1>1. M!WithLong(M!MOVE_L_IMM_DN(d, 0), v).op = M!MOVE_L_IMM_DN(d, 0).op
  BY DEF M!WithLong, M!Ins, M!MOVE_L_IMM_DN
<1>2. M!WithLong(M!CMPI_L_DN(0, d), v).op = M!CMPI_L_DN(0, d).op
  BY DEF M!WithLong, M!Ins, M!CMPI_L_DN
<1>3. Plain(M!MOVE_L_IMM_DN(d, 0)) /\ Plain(M!CMPI_L_DN(0, d))
  BY PlainForms
<1> QED
  BY <1>1, <1>2, <1>3 DEF Plain, Dec, SkipsM

\* Whatever the draws, the instruction picked fits; it skips when the pick is 84
\* or more, and below 40 it is one word long.
LEMMA PickedFits ==
  ASSUME NEW r \in Draw, NEW v \in Draw, NEW pick \in 0..99
  PROVE  /\ FitsM(M!Picked(r, v, pick))
         /\ SkipsM(M!Picked(r, v, pick)) <=> pick >= 84
         /\ pick < 40 => M!Picked(r, v, pick).ext = <<>>
<1> DEFINE ins == M!Picked(r, v, pick)
           dn  == M!Shr(r, 8) % 8
           dm  == M!Shr(r, 12) % 8
           off == (r.hi % 2048) - ((r.hi % 2048) % 4)
           q   == 1 + (M!Shr(r, 26) % 8)
           n   == (r.lo % 256) - 128
<1>1. dn \in 0..7 /\ dm \in 0..7 /\ q \in 1..8 /\ n \in Int /\ M!Shr(r, 5) % 6 \in 0..5
  <2>1. r.lo \in Nat
    BY DEF Draw, Half
  <2> QED
    BY <2>1, ShiftFacts
<1>2. off \in Nat /\ off <= Window - 4 /\ off % 4 = 0
  <2>1. r.hi % 2048 \in Nat /\ r.hi % 2048 < 2048
    BY DEF Draw, Half
  <2> QED
    BY <2>1 DEF Window
<1>3. ASSUME pick < 84, Plain(ins), pick < 40 => ins.ext = <<>>
      PROVE  /\ FitsM(ins) /\ (SkipsM(ins) <=> pick >= 84)
             /\ pick < 40 => ins.ext = <<>>
  BY <1>3 DEF Plain, FitsM
<1>4. ASSUME pick \in 40..83, InPlace(ins, LoadOps, 13) \/ InPlace(ins, StoreOps, 14)
      PROVE  /\ FitsM(ins) /\ (SkipsM(ins) <=> pick >= 84)
             /\ pick < 40 => ins.ext = <<>>
  BY <1>4 DEF InPlace, FitsM, LoadOps, StoreOps
<1>5. CASE pick \in 0..7
  <2>1. ins = M!ADD_L_DD(dn, dm)
    BY <1>5 DEF M!Picked, Window
  <2> HIDE DEF ins, dn, dm, off, q, n
  <2>2. Plain(ins)
    BY <1>1, <2>1, PlainForms
  <2>3. ins.ext = <<>>
    BY <2>1 DEF M!ADD_L_DD, M!Ins
  <2> QED
    BY <1>3, <1>5, <2>2, <2>3 DEF ins
<1>6. CASE pick \in 8..13
  <2>1. ins = M!SUB_L_DD(dn, dm)
    BY <1>6 DEF M!Picked, Window
  <2> HIDE DEF ins, dn, dm, off, q, n
  <2>2. Plain(ins)
    BY <1>1, <2>1, PlainForms
  <2>3. ins.ext = <<>>
    BY <2>1 DEF M!SUB_L_DD, M!Ins
  <2> QED
    BY <1>3, <1>6, <2>2, <2>3 DEF ins
<1>7. CASE pick \in 14..18
  <2>1. ins = M!EOR_L_DD(dn, dm)
    BY <1>7 DEF M!Picked, Window
  <2> HIDE DEF ins, dn, dm, off, q, n
  <2>2. Plain(ins)
    BY <1>1, <2>1, PlainForms
  <2>3. ins.ext = <<>>
    BY <2>1 DEF M!EOR_L_DD, M!Ins
  <2> QED
    BY <1>3, <1>7, <2>2, <2>3 DEF ins
<1>8. CASE pick \in 19..22
  <2>1. ins = M!AND_L_DD(dn, dm)
    BY <1>8 DEF M!Picked, Window
  <2> HIDE DEF ins, dn, dm, off, q, n
  <2>2. Plain(ins)
    BY <1>1, <2>1, PlainForms
  <2>3. ins.ext = <<>>
    BY <2>1 DEF M!AND_L_DD, M!Ins
  <2> QED
    BY <1>3, <1>8, <2>2, <2>3 DEF ins
<1>9. CASE pick \in 23..25
  <2>1. ins = M!OR_L_DD(dn, dm)
    BY <1>9 DEF M!Picked, Window
  <2> HIDE DEF ins, dn, dm, off, q, n
  <2>2. Plain(ins)
    BY <1>1, <2>1, PlainForms
  <2>3. ins.ext = <<>>
    BY <2>1 DEF M!OR_L_DD, M!Ins
  <2> QED
    BY <1>3, <1>9, <2>2, <2>3 DEF ins
<1>10. CASE pick \in 26..29
  <2>1. ins = M!MOVE_L_DD(dn, dm)
    BY <1>10 DEF M!Picked, Window
  <2> HIDE DEF ins, dn, dm, off, q, n
  <2>2. Plain(ins)
    BY <1>1, <2>1, PlainForms
  <2>3. ins.ext = <<>>
    BY <2>1 DEF M!MOVE_L_DD, M!Ins
  <2> QED
    BY <1>3, <1>10, <2>2, <2>3 DEF ins
<1>11. CASE pick \in 30..32
  <2>1. ins = M!MOVEQ(dn, n)
    BY <1>11 DEF M!Picked, Window
  <2> HIDE DEF ins, dn, dm, off, q, n
  <2>2. Plain(ins)
    BY <1>1, <2>1, PlainForms
  <2>3. ins.ext = <<>>
    BY <2>1 DEF M!MOVEQ, M!Ins
  <2> QED
    BY <1>3, <1>11, <2>2, <2>3 DEF ins
<1>12. CASE pick \in 33..35
  <2>1. ins = M!ADDQ_L_DN(q, dn) \/ ins = M!SUBQ_L_DN(q, dn)
    BY <1>12 DEF M!Picked, Window
  <2> HIDE DEF ins, dn, dm, off, q, n
  <2>2. Plain(ins)
    BY <1>1, <2>1, PlainForms
  <2>3. ins.ext = <<>>
    BY <2>1 DEF M!ADDQ_L_DN, M!SUBQ_L_DN, M!Ins
  <2> QED
    BY <1>3, <1>12, <2>2, <2>3 DEF ins
<1>13. CASE pick \in 36..39
  <2>1. ins = M!LSR_L(q, dn) \/ ins = M!LSL_L(q, dn)
    BY <1>13 DEF M!Picked, Window
  <2> HIDE DEF ins, dn, dm, off, q, n
  <2>2. Plain(ins)
    BY <1>1, <2>1, PlainForms
  <2>3. ins.ext = <<>>
    BY <2>1 DEF M!LSR_L, M!LSL_L, M!Ins
  <2> QED
    BY <1>3, <1>13, <2>2, <2>3 DEF ins
<1>14. CASE pick \in 40..45
  <2>1. ins = M!MOVE_L_D16_DN(dn, 5, off)
    BY <1>14 DEF M!Picked, Window
  <2> HIDE DEF ins, dn, dm, off, q, n
  <2>2. InPlace(ins, LoadOps, 13)
    BY <1>1, <1>2, <2>1, AccessForms
  <2> QED
    BY <1>4, <1>14, <2>2 DEF ins
<1>15. CASE pick \in 46..49
  <2>1. ins = M!MOVE_W_D16_DN(dn, 5, off)
    BY <1>15 DEF M!Picked, Window
  <2> HIDE DEF ins, dn, dm, off, q, n
  <2>2. InPlace(ins, LoadOps, 13)
    BY <1>1, <1>2, <2>1, AccessForms
  <2> QED
    BY <1>4, <1>15, <2>2 DEF ins
<1>16. CASE pick \in 50..52
  <2>1. ins = M!MOVE_B_D16_DN(dn, 5, off)
    BY <1>16 DEF M!Picked, Window
  <2> HIDE DEF ins, dn, dm, off, q, n
  <2>2. InPlace(ins, LoadOps, 13)
    BY <1>1, <1>2, <2>1, AccessForms
  <2> QED
    BY <1>4, <1>16, <2>2 DEF ins
<1>17. CASE pick \in 53..58
  <2>1. ins = M!MOVE_L_DN_D16(6, off, dn)
    BY <1>17 DEF M!Picked, Window
  <2> HIDE DEF ins, dn, dm, off, q, n
  <2>2. InPlace(ins, StoreOps, 14)
    BY <1>1, <1>2, <2>1, AccessForms
  <2> QED
    BY <1>4, <1>17, <2>2 DEF ins
<1>18. CASE pick \in 59..61
  <2>1. ins = M!MOVE_W_DN_D16(6, off, dn)
    BY <1>18 DEF M!Picked, Window
  <2> HIDE DEF ins, dn, dm, off, q, n
  <2>2. InPlace(ins, StoreOps, 14)
    BY <1>1, <1>2, <2>1, AccessForms
  <2> QED
    BY <1>4, <1>18, <2>2 DEF ins
<1>19. CASE pick \in 62..64
  <2>1. ins = M!MOVE_B_DN_D16(6, off, dn)
    BY <1>19 DEF M!Picked, Window
  <2> HIDE DEF ins, dn, dm, off, q, n
  <2>2. InPlace(ins, StoreOps, 14)
    BY <1>1, <1>2, <2>1, AccessForms
  <2> QED
    BY <1>4, <1>19, <2>2 DEF ins
<1>20. CASE pick \in 65..69
  <2>1. ins = M!WithLong(M!MOVE_L_IMM_DN(dn, 0), v)
    BY <1>20 DEF M!Picked, Window
  <2> HIDE DEF ins, dn, dm, off, q, n
  <2>2. Plain(ins)
    BY <1>1, <2>1, ImmediateApart
  <2> QED
    BY <1>3, <1>20, <2>2 DEF ins
<1>21. CASE pick \in 70..75
  <2>1. ins = M!CMP_L_DD(dn, dm)
    BY <1>21 DEF M!Picked, Window
  <2> HIDE DEF ins, dn, dm, off, q, n
  <2>2. Plain(ins)
    BY <1>1, <2>1, PlainForms
  <2>3. ins.ext = <<>>
    BY <2>1 DEF M!CMP_L_DD, M!Ins
  <2> QED
    BY <1>3, <1>21, <2>2, <2>3 DEF ins
<1>22. CASE pick \in 76..79
  <2>1. ins = M!WithLong(M!CMPI_L_DN(0, dn), v)
    BY <1>22 DEF M!Picked, Window
  <2> HIDE DEF ins, dn, dm, off, q, n
  <2>2. Plain(ins)
    BY <1>1, <2>1, ImmediateApart
  <2> QED
    BY <1>3, <1>22, <2>2 DEF ins
<1>23. CASE pick \in 80..83
  <2>1. ins = M!TST_L_DN(dn)
    BY <1>23 DEF M!Picked, Window
  <2> HIDE DEF ins, dn, dm, off, q, n
  <2>2. Plain(ins)
    BY <1>1, <2>1, PlainForms
  <2>3. ins.ext = <<>>
    BY <2>1 DEF M!TST_L_DN, M!Ins
  <2> QED
    BY <1>3, <1>23, <2>2, <2>3 DEF ins
<1>24. CASE pick \in 84..99
  <2>1. PICK cond \in {7, 6, 13, 12, 11, 10} : ins = M!BCC_B(cond, 2)
    <3>1. <<7, 6, 13, 12, 11, 10>>[(M!Shr(r, 5) % 6) + 1] \in {7, 6, 13, 12, 11, 10}
      BY <1>1
    <3>2. ins = M!BCC_B(<<7, 6, 13, 12, 11, 10>>[(M!Shr(r, 5) % 6) + 1], 2)
      BY <1>24 DEF M!Picked
    <3> QED
      BY <3>1, <3>2
  <2> QED
    BY <1>24, <2>1, BranchForms DEF FitsM
<1> QED
  BY <1>5, <1>6, <1>7, <1>8, <1>9, <1>10, <1>11, <1>12, <1>13, <1>14, <1>15, <1>16, <1>17, <1>18, <1>19, <1>20, <1>21, <1>22, <1>23, <1>24
-----------------------------------------------------------------------------
\* The PPC stream.

\* What the stream may hold, and what the branch back satisfies too.
WidthP(ins) == CASE ins.op \in {32, 36} -> 4 [] ins.op \in {40, 44} -> 2 [] OTHER -> 1
KnownP(ins) ==
    /\ ins.op \in P!PPC_PRIMARY \ {33, 37}
    /\ ins.op = 31 => P!Key31(ins) \in P!PPC_OP31
FitsP(ins) ==
    /\ KnownP(ins)
    /\ ins.op \in {32, 34, 40, 36, 38, 44} =>
         /\ ins.lo + WidthP(ins) <= Window /\ ins.lo % 4 = 0
         /\ IF ins.op \in {32, 34, 40} THEN ins.ra = 20 /\ ins.rd # 20 ELSE ins.ra = 21
    /\ ins.op \notin {32, 34, 40, 36, 38, 44, 16} => {ins.rd, ins.ra} \cap {20, 21} = {}

\* The operands drawn, and the extended opcodes.
Registers == 3..12
Counts    == 0..31
Extended  == {266, 40, 235, 28, 444, 316, 824}

\* The forms the emitter draws from, as encodings and by name.
LEMMA ExtendedForms ==
  ASSUME NEW d \in Registers, NEW a \in Registers, NEW b \in Counts,
         NEW xo \in Extended
  PROVE  FitsP(P!E_X(d, a, b, xo, 0)) /\ P!E_X(d, a, b, xo, 0).op = 31
<1> DEFINE lo == 2048 * b + 2 * xo + 0
           ins == P!E_X(d, a, b, xo, 0)
<1>1. ins = [op |-> 31, rd |-> d, ra |-> a, lo |-> lo % 65536]
  BY DEF P!E_X, P!E_D
<1>2. lo % 65536 = lo /\ lo % 2048 = 2 * xo
  BY DEF Counts, Extended
<1>3. {532, 80, 470, 56, 888, 632, 1648} \subseteq P!PPC_OP31
  BY DEF P!PPC_OP31, P!Xo31, P!Logic31
<1>4. P!Key31(ins) \in P!PPC_OP31
  BY <1>1, <1>2, <1>3 DEF P!Key31, Extended
<1> QED
  BY <1>1, <1>4 DEF FitsP, KnownP, P!PPC_PRIMARY, Registers

LEMMA NamedForms ==
  ASSUME NEW d \in Registers, NEW a \in Registers, NEW b \in Counts
  PROVE  /\ FitsP(P!E_ADD(d, a, b)) /\ P!E_ADD(d, a, b).op # 16
         /\ FitsP(P!E_SUBF(d, a, b)) /\ P!E_SUBF(d, a, b).op # 16
         /\ FitsP(P!E_MULLW(d, a, b)) /\ P!E_MULLW(d, a, b).op # 16
         /\ FitsP(P!E_AND(d, a, b)) /\ P!E_AND(d, a, b).op # 16
         /\ FitsP(P!E_OR(d, a, b)) /\ P!E_OR(d, a, b).op # 16
         /\ FitsP(P!E_XOR(d, a, b)) /\ P!E_XOR(d, a, b).op # 16
         /\ FitsP(P!E_SRAWI(d, a, b)) /\ P!E_SRAWI(d, a, b).op # 16
<1>1. FitsP(P!E_ADD(d, a, b)) /\ P!E_ADD(d, a, b).op # 16
  <2> DEFINE xo == 266
  <2>1. xo \in Extended
    BY DEF Extended
  <2>2. P!E_ADD(d, a, b) = P!E_X(d, a, b, xo, 0)
    BY DEF P!E_ADD
  <2> HIDE DEF xo
  <2>3. FitsP(P!E_X(d, a, b, xo, 0)) /\ P!E_X(d, a, b, xo, 0).op = 31
    BY <2>1, ExtendedForms, Zenon
  <2> QED
    BY <2>2, <2>3
<1>2. FitsP(P!E_SUBF(d, a, b)) /\ P!E_SUBF(d, a, b).op # 16
  <2> DEFINE xo == 40
  <2>1. xo \in Extended
    BY DEF Extended
  <2>2. P!E_SUBF(d, a, b) = P!E_X(d, a, b, xo, 0)
    BY DEF P!E_SUBF
  <2> HIDE DEF xo
  <2>3. FitsP(P!E_X(d, a, b, xo, 0)) /\ P!E_X(d, a, b, xo, 0).op = 31
    BY <2>1, ExtendedForms, Zenon
  <2> QED
    BY <2>2, <2>3
<1>3. FitsP(P!E_MULLW(d, a, b)) /\ P!E_MULLW(d, a, b).op # 16
  <2> DEFINE xo == 235
  <2>1. xo \in Extended
    BY DEF Extended
  <2>2. P!E_MULLW(d, a, b) = P!E_X(d, a, b, xo, 0)
    BY DEF P!E_MULLW
  <2> HIDE DEF xo
  <2>3. FitsP(P!E_X(d, a, b, xo, 0)) /\ P!E_X(d, a, b, xo, 0).op = 31
    BY <2>1, ExtendedForms, Zenon
  <2> QED
    BY <2>2, <2>3
<1>4. FitsP(P!E_AND(d, a, b)) /\ P!E_AND(d, a, b).op # 16
  <2> DEFINE xo == 28
  <2>1. xo \in Extended
    BY DEF Extended
  <2>2. P!E_AND(d, a, b) = P!E_X(a, d, b, xo, 0)
    BY DEF P!E_AND
  <2> HIDE DEF xo
  <2>3. FitsP(P!E_X(a, d, b, xo, 0)) /\ P!E_X(a, d, b, xo, 0).op = 31
    BY <2>1, ExtendedForms, Zenon
  <2> QED
    BY <2>2, <2>3
<1>5. FitsP(P!E_OR(d, a, b)) /\ P!E_OR(d, a, b).op # 16
  <2> DEFINE xo == 444
  <2>1. xo \in Extended
    BY DEF Extended
  <2>2. P!E_OR(d, a, b) = P!E_X(a, d, b, xo, 0)
    BY DEF P!E_OR
  <2> HIDE DEF xo
  <2>3. FitsP(P!E_X(a, d, b, xo, 0)) /\ P!E_X(a, d, b, xo, 0).op = 31
    BY <2>1, ExtendedForms, Zenon
  <2> QED
    BY <2>2, <2>3
<1>6. FitsP(P!E_XOR(d, a, b)) /\ P!E_XOR(d, a, b).op # 16
  <2> DEFINE xo == 316
  <2>1. xo \in Extended
    BY DEF Extended
  <2>2. P!E_XOR(d, a, b) = P!E_X(a, d, b, xo, 0)
    BY DEF P!E_XOR
  <2> HIDE DEF xo
  <2>3. FitsP(P!E_X(a, d, b, xo, 0)) /\ P!E_X(a, d, b, xo, 0).op = 31
    BY <2>1, ExtendedForms, Zenon
  <2> QED
    BY <2>2, <2>3
<1>7. FitsP(P!E_SRAWI(d, a, b)) /\ P!E_SRAWI(d, a, b).op # 16
  <2> DEFINE xo == 824
  <2>1. xo \in Extended
    BY DEF Extended
  <2>2. P!E_SRAWI(d, a, b) = P!E_X(a, d, b, xo, 0)
    BY DEF P!E_SRAWI
  <2> HIDE DEF xo
  <2>3. FitsP(P!E_X(a, d, b, xo, 0)) /\ P!E_X(a, d, b, xo, 0).op = 31
    BY <2>1, ExtendedForms, Zenon
  <2> QED
    BY <2>2, <2>3
<1> QED
  BY <1>1, <1>2, <1>3, <1>4, <1>5, <1>6, <1>7

LEMMA ImmediateForms ==
  ASSUME NEW op \in {7, 11, 14, 15, 21}, NEW d \in Registers \cup {28}, NEW a \in Registers, NEW imm
  PROVE  FitsP(P!E_D(op, d, a, imm)) /\ P!E_D(op, d, a, imm).op = op
BY DEF P!E_D, FitsP, KnownP, P!PPC_PRIMARY, Registers

LEMMA CompareFits ==
  ASSUME NEW a \in Registers, NEW imm
  PROVE  FitsP(P!E_CMPWI(7, a, imm)) /\ P!E_CMPWI(7, a, imm).op = 11
<1>1. P!E_CMPWI(7, a, imm) = P!E_D(11, 28, a, imm)
  BY DEF P!E_CMPWI
<1> QED
  BY <1>1, ImmediateForms

LEMMA WindowForms ==
  ASSUME NEW d \in Registers, NEW off \in Nat, off <= Window - 4, off % 4 = 0,
         NEW op \in {32, 34, 40, 36, 38, 44}
  PROVE  LET ins == P!E_D(op, d, IF op \in {32, 34, 40} THEN 20 ELSE 21, off)
         IN FitsP(ins) /\ ins.op = op
<1>1. off % 65536 = off
  BY DEF Window
<1> QED
  BY <1>1 DEF P!E_D, FitsP, KnownP, WidthP, P!PPC_PRIMARY, Registers, Window

LEMMA BranchFits ==
  /\ \A bo, bi, off : FitsP(P!E_BC(bo, bi, off)) /\ P!E_BC(bo, bi, off).op = 16
  /\ \A off : KnownP(P!E_B(off)) /\ P!E_B(off).op = 18
  /\ KnownP(P!E_ORI(0, 0, 0)) /\ P!E_ORI(0, 0, 0).op = 24
BY DEF P!E_BC, P!E_B, P!E_ORI, P!E_D, FitsP, KnownP, P!PPC_PRIMARY

\* Whatever the draw, the instruction fits, and the last one is no branch.
LEMMA StressFits ==
  ASSUME NEW r \in Draw, NEW last \in BOOLEAN
  PROVE  /\ FitsP(P!StressInsn(r, last))
         /\ last => P!StressInsn(r, last).op # 16
<1> DEFINE rd  == 3 + (P!Shr(r, 8) % 10)
           ra  == 3 + (P!Shr(r, 12) % 10)
           rb  == 3 + (P!Shr(r, 16) % 10)
           off == P!Aligned(P!Shr(r, 20) % Window)
           pick == P!Mod(r, 100)
           ins == P!Picked(r)
<1>1. rd \in Registers /\ ra \in Registers /\ rb \in Registers /\ pick \in 0..99
  BY ShiftFacts DEF Registers
<1>2. off \in Nat /\ off <= Window - 4 /\ off % 4 = 0
  <2>1. P!Shr(r, 20) \in Nat
    BY ShiftFacts
  <2>2. P!Shr(r, 20) % 2048 \in Nat /\ P!Shr(r, 20) % 2048 < 2048
    BY <2>1
  <2> QED
    BY <2>2 DEF Window, P!Aligned
<1>3. P!Shr(r, 3) % 32 \in Counts /\ rb \in Counts
  BY <1>1, ShiftFacts DEF Registers, Counts
<1>4. pick \in 0..7 => FitsP(ins) /\ ins.op # 16
  <2> SUFFICES ASSUME pick \in 0..7 PROVE FitsP(ins) /\ ins.op # 16
    OBVIOUS
  <2>1. ins = P!E_ADD(rd, ra, rb)
    BY DEF P!Picked, Window
  <2> HIDE DEF ins, rd, ra, rb, off, pick
  <2> QED
    BY <1>1, <1>2, <1>3, <2>1, NamedForms
<1>5. pick \in 8..13 => FitsP(ins) /\ ins.op # 16
  <2> SUFFICES ASSUME pick \in 8..13 PROVE FitsP(ins) /\ ins.op # 16
    OBVIOUS
  <2>1. ins = P!E_SUBF(rd, ra, rb)
    BY DEF P!Picked, Window
  <2> HIDE DEF ins, rd, ra, rb, off, pick
  <2> QED
    BY <1>1, <1>2, <1>3, <2>1, NamedForms
<1>6. pick \in 14..19 => FitsP(ins) /\ ins.op # 16
  <2> SUFFICES ASSUME pick \in 14..19 PROVE FitsP(ins) /\ ins.op # 16
    OBVIOUS
  <2>1. ins = P!E_XOR(rd, ra, rb)
    BY DEF P!Picked, Window
  <2> HIDE DEF ins, rd, ra, rb, off, pick
  <2> QED
    BY <1>1, <1>2, <1>3, <2>1, NamedForms
<1>7. pick \in 20..23 => FitsP(ins) /\ ins.op # 16
  <2> SUFFICES ASSUME pick \in 20..23 PROVE FitsP(ins) /\ ins.op # 16
    OBVIOUS
  <2>1. ins = P!E_OR(rd, ra, rb)
    BY DEF P!Picked, Window
  <2> HIDE DEF ins, rd, ra, rb, off, pick
  <2> QED
    BY <1>1, <1>2, <1>3, <2>1, NamedForms
<1>8. pick \in 24..27 => FitsP(ins) /\ ins.op # 16
  <2> SUFFICES ASSUME pick \in 24..27 PROVE FitsP(ins) /\ ins.op # 16
    OBVIOUS
  <2>1. ins = P!E_AND(rd, ra, rb)
    BY DEF P!Picked, Window
  <2> HIDE DEF ins, rd, ra, rb, off, pick
  <2> QED
    BY <1>1, <1>2, <1>3, <2>1, NamedForms
<1>9. pick \in 28..35 => FitsP(ins) /\ ins.op # 16
  <2> SUFFICES ASSUME pick \in 28..35 PROVE FitsP(ins) /\ ins.op # 16
    OBVIOUS
  <2>1. ins = P!E_RLWINM(rd, ra, P!Shr(r, 3) % 32, P!Shr(r, 26) % 32, 31)
    BY DEF P!Picked, Window
  <2> HIDE DEF ins, rd, ra, rb, off, pick
  <2> QED
    BY <1>1, <1>2, <1>3, <2>1, ImmediateForms DEF P!E_RLWINM
<1>10. pick \in 36..43 => FitsP(ins) /\ ins.op # 16
  <2> SUFFICES ASSUME pick \in 36..43 PROVE FitsP(ins) /\ ins.op # 16
    OBVIOUS
  <2>1. ins = P!E_ADDI(rd, ra, (r.lo % 256) - 128)
    BY DEF P!Picked, Window
  <2> HIDE DEF ins, rd, ra, rb, off, pick
  <2> QED
    BY <1>1, <1>2, <1>3, <2>1, ImmediateForms DEF P!E_ADDI
<1>11. pick \in 44..47 => FitsP(ins) /\ ins.op # 16
  <2> SUFFICES ASSUME pick \in 44..47 PROVE FitsP(ins) /\ ins.op # 16
    OBVIOUS
  <2>1. ins = P!E_ADDIS(rd, ra, 1)
    BY DEF P!Picked, Window
  <2> HIDE DEF ins, rd, ra, rb, off, pick
  <2> QED
    BY <1>1, <1>2, <1>3, <2>1, ImmediateForms DEF P!E_ADDIS
<1>12. pick \in 48..51 => FitsP(ins) /\ ins.op # 16
  <2> SUFFICES ASSUME pick \in 48..51 PROVE FitsP(ins) /\ ins.op # 16
    OBVIOUS
  <2>1. ins = P!E_MULLI(rd, ra, 13)
    BY DEF P!Picked, Window
  <2> HIDE DEF ins, rd, ra, rb, off, pick
  <2> QED
    BY <1>1, <1>2, <1>3, <2>1, ImmediateForms DEF P!E_MULLI
<1>13. pick \in 52..55 => FitsP(ins) /\ ins.op # 16
  <2> SUFFICES ASSUME pick \in 52..55 PROVE FitsP(ins) /\ ins.op # 16
    OBVIOUS
  <2>1. ins = P!E_MULLW(rd, ra, rb)
    BY DEF P!Picked, Window
  <2> HIDE DEF ins, rd, ra, rb, off, pick
  <2> QED
    BY <1>1, <1>2, <1>3, <2>1, NamedForms
<1>14. pick \in 56..60 => FitsP(ins) /\ ins.op # 16
  <2> SUFFICES ASSUME pick \in 56..60 PROVE FitsP(ins) /\ ins.op # 16
    OBVIOUS
  <2>1. ins = P!E_SRAWI(rd, ra, P!Shr(r, 3) % 32)
    BY DEF P!Picked, Window
  <2> HIDE DEF ins, rd, ra, rb, off, pick
  <2> QED
    BY <1>1, <1>2, <1>3, <2>1, NamedForms
<1>15. pick \in 61..67 => FitsP(ins) /\ ins.op # 16
  <2> SUFFICES ASSUME pick \in 61..67 PROVE FitsP(ins) /\ ins.op # 16
    OBVIOUS
  <2>1. ins = P!E_LWZ(rd, 20, off)
    BY DEF P!Picked, Window
  <2> HIDE DEF ins, rd, ra, rb, off, pick
  <2> QED
    BY <1>1, <1>2, <1>3, <2>1, WindowForms DEF P!E_LWZ
<1>16. pick \in 68..71 => FitsP(ins) /\ ins.op # 16
  <2> SUFFICES ASSUME pick \in 68..71 PROVE FitsP(ins) /\ ins.op # 16
    OBVIOUS
  <2>1. ins = P!E_LHZ(rd, 20, off)
    BY DEF P!Picked, Window
  <2> HIDE DEF ins, rd, ra, rb, off, pick
  <2> QED
    BY <1>1, <1>2, <1>3, <2>1, WindowForms DEF P!E_LHZ
<1>17. pick \in 72..75 => FitsP(ins) /\ ins.op # 16
  <2> SUFFICES ASSUME pick \in 72..75 PROVE FitsP(ins) /\ ins.op # 16
    OBVIOUS
  <2>1. ins = P!E_LBZ(rd, 20, off)
    BY DEF P!Picked, Window
  <2> HIDE DEF ins, rd, ra, rb, off, pick
  <2> QED
    BY <1>1, <1>2, <1>3, <2>1, WindowForms DEF P!E_LBZ
<1>18. pick \in 76..81 => FitsP(ins) /\ ins.op # 16
  <2> SUFFICES ASSUME pick \in 76..81 PROVE FitsP(ins) /\ ins.op # 16
    OBVIOUS
  <2>1. ins = P!E_STW(rd, 21, off)
    BY DEF P!Picked, Window
  <2> HIDE DEF ins, rd, ra, rb, off, pick
  <2> QED
    BY <1>1, <1>2, <1>3, <2>1, WindowForms DEF P!E_STW
<1>19. pick \in 82..84 => FitsP(ins) /\ ins.op # 16
  <2> SUFFICES ASSUME pick \in 82..84 PROVE FitsP(ins) /\ ins.op # 16
    OBVIOUS
  <2>1. ins = P!E_STH(rd, 21, off)
    BY DEF P!Picked, Window
  <2> HIDE DEF ins, rd, ra, rb, off, pick
  <2> QED
    BY <1>1, <1>2, <1>3, <2>1, WindowForms DEF P!E_STH
<1>20. pick \in 85..87 => FitsP(ins) /\ ins.op # 16
  <2> SUFFICES ASSUME pick \in 85..87 PROVE FitsP(ins) /\ ins.op # 16
    OBVIOUS
  <2>1. ins = P!E_STB(rd, 21, off)
    BY DEF P!Picked, Window
  <2> HIDE DEF ins, rd, ra, rb, off, pick
  <2> QED
    BY <1>1, <1>2, <1>3, <2>1, WindowForms DEF P!E_STB
<1>21. pick \in 88..93 => FitsP(ins) /\ ins.op # 16
  <2> SUFFICES ASSUME pick \in 88..93 PROVE FitsP(ins) /\ ins.op # 16
    OBVIOUS
  <2>1. ins = P!E_CMPWI(7, ra, (r.lo % 32768) - 16384)
    BY DEF P!Picked, Window
  <2> HIDE DEF ins, rd, ra, rb, off, pick
  <2> QED
    BY <1>1, <1>2, <1>3, <2>1, CompareFits
<1>22. pick \in 94..99 => FitsP(ins) /\ ins.op = 16
  <2> SUFFICES ASSUME pick \in 94..99 PROVE FitsP(ins) /\ ins.op = 16
    OBVIOUS
  <2>1. ins = P!E_BC(IF P!Bit(r, 5) = 1 THEN 12 ELSE 4, 28 + (P!Shr(r, 6) % 4), 8)
    BY DEF P!Picked
  <2> HIDE DEF ins
  <2> QED
    BY <2>1, BranchFits
<1>23. FitsP(ins) /\ (ins.op = 16 => pick >= 94)
  <2> HIDE DEF ins, pick
  <2>1. pick \in 0..27 => FitsP(ins) /\ (ins.op = 16 => pick >= 94)
    BY <1>4, <1>5, <1>6, <1>7, <1>8
  <2>2. pick \in 28..47 => FitsP(ins) /\ (ins.op = 16 => pick >= 94)
    BY <1>9, <1>10, <1>11
  <2>3. pick \in 48..60 => FitsP(ins) /\ (ins.op = 16 => pick >= 94)
    BY <1>12, <1>13, <1>14
  <2>4. pick \in 61..75 => FitsP(ins) /\ (ins.op = 16 => pick >= 94)
    BY <1>15, <1>16, <1>17
  <2>5. pick \in 76..87 => FitsP(ins) /\ (ins.op = 16 => pick >= 94)
    BY <1>18, <1>19, <1>20
  <2>6. pick \in 88..99 => FitsP(ins) /\ (ins.op = 16 => pick >= 94)
    BY <1>21, <1>22
  <2> QED
    BY <1>1, <2>1, <2>2, <2>3, <2>4, <2>5, <2>6
<1>24. FitsP(P!E_ADD(rd, ra, rb)) /\ P!E_ADD(rd, ra, rb).op # 16
  <2> HIDE DEF rd, ra, rb
  <2> QED
    BY <1>1, <1>3, NamedForms
<1>25. P!StressInsn(r, last) = IF last /\ pick >= 94 THEN P!E_ADD(rd, ra, rb) ELSE ins
  BY DEF P!StressInsn
<1> HIDE DEF ins, pick, rd, ra, rb
<1> QED
  BY <1>1, <1>23, <1>24, <1>25
-----------------------------------------------------------------------------
\* One turn of the M68K loop: the generator stays one, the flag says whether the
\* instruction skips, and the two last instructions of the stream never do.
LEMMA EmitFits ==
  ASSUME NEW s, s.seed \in Draw, NEW last \in BOOLEAN
  PROVE  LET e == M!Emit(s, last)
         IN /\ e = [seed |-> e.seed, force_short |-> e.force_short, ins |-> e.ins]
            /\ e.seed \in Draw /\ FitsM(e.ins)
            /\ e.force_short <=> SkipsM(e.ins)
            /\ last => ~SkipsM(e.ins)
            /\ s.force_short => e.ins.ext = <<>> /\ ~SkipsM(e.ins)
<1> DEFINE r == M!lcg(s.seed)
           v == M!lcg(r)
           pick == M!Pick(r, s.force_short)
           skip == pick >= 84
           add == M!ADD_L_DD(M!Shr(r, 8) % 8, M!Shr(r, 12) % 8)
           drawn == M!Picked(r, v, pick)
           e == M!Emit(s, last)
<1>1. r \in Draw
  BY LcgType, SameLcg
<1>2. v \in Draw
  <2> HIDE DEF r
  <2> QED
    BY <1>1, LcgType, SameLcg
<1>3. e = [seed |-> IF M!DrawsTwice(pick) THEN v ELSE r,
           force_short |-> skip /\ ~last, ins |-> IF skip /\ last THEN add ELSE drawn]
  BY DEF M!Emit
<1> HIDE DEF r, e
<1>4. pick \in 0..99 /\ (s.force_short => pick < 40)
  BY <1>1, ShiftFacts DEF M!Pick
<1>5. Plain(add) /\ add.ext = <<>>
  <2>1. M!Shr(r, 8) % 8 \in 0..7 /\ M!Shr(r, 12) % 8 \in 0..7
    BY <1>1, ShiftFacts
  <2>2. \A d \in 0..7, t \in 0..7 : Plain(M!ADD_L_DD(d, t))
    <3> TAKE d \in 0..7, t \in 0..7
    <3>1. 1 \in 1..8 /\ 1 \in Int
      OBVIOUS
    <3> QED
      BY <3>1, PlainForms
  <2>3. add.ext = <<>>
    BY DEF M!ADD_L_DD, M!Ins
  <2> QED
    BY <2>1, <2>2, <2>3
<1> HIDE DEF v, pick, add
<1>6. /\ FitsM(drawn) /\ (SkipsM(drawn) <=> pick >= 84)
      /\ pick < 40 => drawn.ext = <<>>
  BY <1>1, <1>2, <1>4, PickedFits
<1> HIDE DEF drawn
<1>7. FitsM(add) /\ ~SkipsM(add)
  BY <1>5 DEF Plain, FitsM
<1>8. e.seed \in Draw /\ e = [seed |-> e.seed, force_short |-> e.force_short, ins |-> e.ins]
  BY <1>1, <1>2, <1>3
<1>9. e.force_short <=> skip /\ ~last
  BY <1>3
<1>10. CASE skip /\ last
  <2>1. e.ins = add
    BY <1>3, <1>10
  <2>2. FitsM(e.ins) /\ ~SkipsM(e.ins)
    BY <1>7, <2>1
  <2>3. ~e.force_short /\ ~s.force_short
    BY <1>4, <1>9, <1>10
  <2> QED
    BY <1>8, <2>2, <2>3 DEF e
<1>11. CASE ~(skip /\ last)
  <2>1. e.ins = drawn
    BY <1>3, <1>11
  <2>2. FitsM(e.ins) /\ (SkipsM(e.ins) <=> pick >= 84) /\ (pick < 40 => e.ins.ext = <<>>)
    BY <1>6, <2>1
  <2>3. (e.force_short <=> SkipsM(e.ins)) /\ (last => ~SkipsM(e.ins))
    BY <1>9, <1>11, <2>2
  <2>4. s.force_short => e.ins.ext = <<>> /\ ~SkipsM(e.ins)
    BY <1>4, <2>2
  <2> QED
    BY <1>8, <2>2, <2>3, <2>4 DEF e
<1> QED
  BY <1>10, <1>11
-----------------------------------------------------------------------------
\* No instruction of the M68K stream is longer than three words.
LEMMA FormBytes ==
  /\ \A a, b : /\ M!Bytes(M!ADD_L_DD(a, b)) = 2 /\ M!Bytes(M!SUB_L_DD(a, b)) = 2
               /\ M!Bytes(M!EOR_L_DD(a, b)) = 2 /\ M!Bytes(M!AND_L_DD(a, b)) = 2
               /\ M!Bytes(M!OR_L_DD(a, b)) = 2 /\ M!Bytes(M!CMP_L_DD(a, b)) = 2
               /\ M!Bytes(M!MOVE_L_DD(a, b)) = 2 /\ M!Bytes(M!MOVEQ(a, b)) = 2
               /\ M!Bytes(M!ADDQ_L_DN(a, b)) = 2 /\ M!Bytes(M!SUBQ_L_DN(a, b)) = 2
               /\ M!Bytes(M!LSL_L(a, b)) = 2 /\ M!Bytes(M!LSR_L(a, b)) = 2
               /\ M!Bytes(M!BCC_B(a, b)) = 2
  /\ \A a : M!Bytes(M!TST_L_DN(a)) = 2 /\ M!Bytes(M!BRA_W(a)) = 4
  /\ \A a, b, d : /\ M!Bytes(M!MOVE_L_D16_DN(a, b, d)) = 4 /\ M!Bytes(M!MOVE_L_DN_D16(a, d, b)) = 4
                  /\ M!Bytes(M!MOVE_W_D16_DN(a, b, d)) = 4 /\ M!Bytes(M!MOVE_W_DN_D16(a, d, b)) = 4
                  /\ M!Bytes(M!MOVE_B_D16_DN(a, b, d)) = 4 /\ M!Bytes(M!MOVE_B_DN_D16(a, d, b)) = 4
  /\ \A a, v : /\ M!Bytes(M!WithLong(M!MOVE_L_IMM_DN(a, 0), v)) = 6
               /\ M!Bytes(M!WithLong(M!CMPI_L_DN(0, a), v)) = 6
BY DEF M!Bytes, M!Ins, M!One, M!WithLong, M!ADD_L_DD, M!SUB_L_DD, M!EOR_L_DD, M!AND_L_DD, M!OR_L_DD,
  M!CMP_L_DD, M!MOVE_L_DD, M!MOVEQ, M!ADDQ_L_DN, M!SUBQ_L_DN, M!LSL_L, M!LSR_L, M!BCC_B,
  M!TST_L_DN, M!BRA_W, M!MOVE_L_D16_DN, M!MOVE_L_DN_D16, M!MOVE_W_D16_DN, M!MOVE_W_DN_D16,
  M!MOVE_B_D16_DN, M!MOVE_B_DN_D16, M!MOVE_L_IMM_DN, M!CMPI_L_DN

LEMMA PickedBytes ==
  ASSUME NEW r, NEW v, NEW pick \in 0..99
  PROVE  M!Bytes(M!Picked(r, v, pick)) \in {2, 4, 6}
<1>1. CASE pick < 40
  BY <1>1, FormBytes DEF M!Picked
<1>2. CASE pick \in 40..64
  BY <1>2, FormBytes DEF M!Picked
<1>3. CASE pick \in 65..99
  BY <1>3, FormBytes DEF M!Picked
<1> QED
  BY <1>1, <1>2, <1>3

LEMMA EmittedBytes ==
  ASSUME NEW s, s.seed \in Draw, NEW last \in BOOLEAN
  PROVE  M!Bytes(M!Emit(s, last).ins) \in {2, 4, 6}
<1> DEFINE r == M!lcg(s.seed)
           v == M!lcg(r)
           pick == M!Pick(r, s.force_short)
           add == M!ADD_L_DD(M!Shr(r, 8) % 8, M!Shr(r, 12) % 8)
<1>1. r \in Draw
  BY LcgType, SameLcg
<1>2. M!Emit(s, last).ins = IF pick >= 84 /\ last THEN add ELSE M!Picked(r, v, pick)
  BY DEF M!Emit
<1> HIDE DEF r, v
<1>3. pick \in 0..99
  BY <1>1, ShiftFacts DEF M!Pick
<1>4. M!Bytes(add) = 2
  BY FormBytes
<1> HIDE DEF pick, add
<1>5. M!Bytes(M!Picked(r, v, pick)) \in {2, 4, 6}
  BY <1>3, PickedBytes
<1> QED
  BY <1>2, <1>4, <1>5
-----------------------------------------------------------------------------
\* What every turn leaves.  In the M68K stream force_short is set exactly when
\* the instruction emitted last is a branch over the next word; neither stream
\* ends in such a branch; and what was emitted is of the forms above.
GenInv ==
    /\ job \in Jobs
    /\ i \in Nat /\ i <= job.len + 1
    /\ st = [seed |-> st.seed, force_short |-> st.force_short, ins |-> st.ins]
    /\ st.seed \in Draw
    /\ M68k /\ i <= job.len => (st.force_short <=> Skips(st.ins))
    /\ i >= job.len => ~Skips(st.ins)
FormInv ==
    IF M68k THEN Dec(st.ins).id # "ILLEGAL" /\ (i \in 1..job.len => FitsM(st.ins))
    ELSE KnownP(st.ins) /\ (i \in 1..job.len => FitsP(st.ins))
StreamInv == GenInv /\ FormInv /\ SkipLandsOnHead

LEMMA JobType == ASSUME NEW j \in Jobs
                 PROVE  j.lane \in {"m68k", "ppc"} /\ j.seed \in Draw /\ j.len \in Nat
BY JobsAssumption

\* The invariant holds at the prologue's end, and every turn and the branch
\* back preserve it.
LEMMA InitStream == Init => StreamInv
<1> SUFFICES ASSUME Init PROVE StreamInv
  OBVIOUS
<1>1. job.seed \in Draw /\ job.len \in Nat
  BY JobType DEF Init
<1>2. After(job.seed, 8) \in Draw /\ After(job.seed, 10) \in Draw
  BY <1>1, AfterType
<1>3. st.seed \in Draw /\ st.force_short = FALSE
      /\ st = [seed |-> st.seed, force_short |-> st.force_short, ins |-> st.ins]
  BY <1>2 DEF Init
<1>4. IF M68k THEN ~SkipsM(st.ins) /\ Dec(st.ins).id # "ILLEGAL"
      ELSE KnownP(st.ins) /\ st.ins.op # 16
  <2>1. CASE M68k
    <3>1. st.ins = M!NOP
      BY <2>1 DEF Init
    <3> QED
      BY <2>1, <3>1, BranchForms
  <2>2. CASE ~M68k
    <3>1. st.ins = P!E_ORI(0, 0, 0)
      BY <2>2 DEF Init
    <3> QED
      BY <2>2, <3>1, BranchFits
  <2> QED
    BY <2>1, <2>2
<1>5. ~Skips(st.ins) /\ prev = st.ins
  BY <1>4 DEF Init, Skips, SkipsM
<1>6. i = 0 /\ job \in Jobs
  BY DEF Init
<1> QED
  BY <1>1, <1>3, <1>4, <1>5, <1>6 DEF StreamInv, GenInv, FormInv, SkipLandsOnHead

LEMMA TurnStream == StreamInv /\ Turn => StreamInv'
<1> SUFFICES ASSUME StreamInv, Turn PROVE StreamInv'
  OBVIOUS
<1>1. /\ job' = job /\ i' = i + 1 /\ i < job.len /\ prev' = st.ins
      /\ job \in Jobs /\ i \in Nat /\ job.len \in Nat /\ st.seed \in Draw
      /\ st = [seed |-> st.seed, force_short |-> st.force_short, ins |-> st.ins]
      /\ M68k => (st.force_short <=> Skips(st.ins))
  BY JobType DEF Turn, StreamInv, GenInv
<1>2. M68k' = M68k /\ Closed' = FALSE
  BY <1>1 DEF M68k, Closed
<1>3. CASE M68k
  <2> DEFINE last == M!NearEnd(i + 1, job.len)
  <2>1. last \in BOOLEAN /\ (i + 1 >= job.len => last)
    BY <1>1 DEF M!NearEnd
  <2>2. st' = M!Emit(st, last)
    BY <1>3 DEF Turn
  <2> HIDE DEF last
  <2>3. /\ st' = [seed |-> st'.seed, force_short |-> st'.force_short, ins |-> st'.ins]
        /\ st'.seed \in Draw /\ FitsM(st'.ins)
        /\ st'.force_short <=> SkipsM(st'.ins)
        /\ last => ~SkipsM(st'.ins)
        /\ st.force_short => st'.ins.ext = <<>> /\ ~SkipsM(st'.ins)
    BY <1>1, <2>1, <2>2, EmitFits
  <2>4. /\ M68k'
        /\ Skips(st.ins)' <=> SkipsM(st'.ins)
        /\ Skips(prev)' <=> Skips(st.ins)
    BY <1>1, <1>3 DEF Skips, SkipsM, M68k
  <2>5. GenInv'
    BY <1>1, <2>1, <2>3, <2>4 DEF GenInv
  <2>6. FormInv'
    BY <2>3, <2>4 DEF FormInv, FitsM
  <2>7. st.force_short => Size(st.ins)' = 2
    BY <2>3, <2>4 DEF Size, M!Bytes
  <2>8. SkipLandsOnHead'
    BY <1>1, <1>2, <1>3, <2>3, <2>4, <2>7 DEF SkipLandsOnHead
  <2> QED
    BY <2>5, <2>6, <2>8 DEF StreamInv
<1>4. CASE ~M68k
  <2> DEFINE r == lcg(st.seed)
             last == i + 1 = job.len
  <2>1. r \in Draw /\ last \in BOOLEAN
    BY <1>1, LcgType
  <2>2. st' = [seed |-> r, force_short |-> st.force_short, ins |-> P!StressInsn(r, last)]
    BY <1>1, <1>4 DEF Turn
  <2> HIDE DEF r, last
  <2>3. FitsP(P!StressInsn(r, last)) /\ (last => P!StressInsn(r, last).op # 16)
    BY <2>1, StressFits
  <2>4. /\ st' = [seed |-> st'.seed, force_short |-> st'.force_short, ins |-> st'.ins]
        /\ st'.seed \in Draw /\ FitsP(st'.ins) /\ (last => st'.ins.op # 16)
    BY <2>1, <2>2, <2>3
  <2>5. ~M68k' /\ (Skips(st.ins)' <=> st'.ins.op = 16)
    BY <1>1, <1>4 DEF Skips, M68k
  <2>6. GenInv'
    BY <1>1, <2>4, <2>5 DEF GenInv, last
  <2>7. FormInv'
    BY <2>4, <2>5 DEF FormInv, FitsP
  <2>8. SkipLandsOnHead'
    BY <1>2, <2>5 DEF SkipLandsOnHead, Size
  <2> QED
    BY <2>6, <2>7, <2>8 DEF StreamInv
<1> QED
  BY <1>3, <1>4

LEMMA CloseStream == StreamInv /\ Close => StreamInv'
<1> SUFFICES ASSUME StreamInv, Close PROVE StreamInv'
  OBVIOUS
<1>1. /\ job' = job /\ i' = i + 1 /\ i = job.len /\ prev' = st.ins
      /\ job \in Jobs /\ i \in Nat /\ job.len \in Nat /\ st.seed \in Draw
      /\ st = [seed |-> st.seed, force_short |-> st.force_short, ins |-> st.ins]
      /\ ~Skips(st.ins)
  BY JobType DEF Close, StreamInv, GenInv
<1>2. M68k' = M68k /\ (Skips(prev)' <=> Skips(st.ins))
  BY <1>1 DEF M68k, Skips
<1>3. /\ st' = [seed |-> st'.seed, force_short |-> st'.force_short, ins |-> st'.ins]
      /\ st'.seed = st.seed
      /\ st'.ins = IF M68k THEN M!BRA_W(top - (pc + 2)) ELSE P!E_B(top - pc)
  BY <1>1 DEF Close
<1>4. IF M68k THEN ~SkipsM(st'.ins) /\ Dec(st'.ins).id # "ILLEGAL"
      ELSE KnownP(st'.ins) /\ st'.ins.op = 18
  BY <1>3, BranchForms, BranchFits
<1>5. ~Skips(st.ins)'
  BY <1>2, <1>4 DEF Skips, SkipsM
<1>6. GenInv'
  BY <1>1, <1>3, <1>5 DEF GenInv
<1>7. FormInv'
  BY <1>1, <1>2, <1>4 DEF FormInv
<1>8. SkipLandsOnHead'
  BY <1>1, <1>2 DEF SkipLandsOnHead
<1> QED
  BY <1>6, <1>7, <1>8 DEF StreamInv

LEMMA StreamHolds == Spec => []StreamInv
<1>1. StreamInv /\ [Next]_vars => StreamInv'
  <2>1. StreamInv /\ UNCHANGED vars => StreamInv'
    BY DEF vars, StreamInv, GenInv, FormInv, SkipLandsOnHead, Skips, Size, Closed, M68k, Dec, KnownP, FitsM, FitsP
  <2> QED
    BY <2>1, TurnStream, CloseStream DEF Next
<1> QED
  BY <1>1, InitStream, PTL DEF Spec
-----------------------------------------------------------------------------
\* In both streams, from any seed and of any length, a conditional branch skips
\* exactly the instruction after it: one word long and no branch in the M68K
\* stream, and never the branch that closes the loop (m68k/bench_main.c:148 and
\* 176, ppc/bench_main.c:193).
THEOREM SkipsOneInstruction == Spec => []SkipLandsOnHead
BY StreamHolds, PTL DEF StreamInv

\* Whatever is drawn is in the subset every backend decodes, and clear of the
\* forms on which the PPC backends disagree (m68k_pd_impl.h mpd_decode,
\* ppc_ops.h's opcode lists).
THEOREM StreamIsKnown == Spec => []KnownToAll
<1>1. StreamInv => KnownToAll
  BY DEF StreamInv, FormInv, KnownToAll, KnownP, Decoded, Dec
<1> QED
  BY <1>1, StreamHolds, PTL

\* A load goes through the base of the read window, a store through the base of
\* the write window, inside it and clear of its page ends; nothing else writes
\* either base.
THEOREM StreamStaysInWindows == Spec => []StaysInWindows
<1>1. StreamInv => StaysInWindows
  <2> SUFFICES ASSUME StreamInv, i \in 1..job.len PROVE StaysInWindows
    BY DEF StaysInWindows
  <2>1. CASE M68k
    <3>1. FitsM(st.ins)
      BY <2>1 DEF StreamInv, FormInv
    <3>2. D!AReg(5) = 13 /\ D!AReg(6) = 14 /\ DataRegisters = {D!DReg(r) : r \in 0..7}
      BY DEF D!AReg, D!DReg, DataRegisters
    <3>3. LoadOps \cap StoreOps = {}
      BY DEF LoadOps, StoreOps
    <3>4. \A off : InWindow(off) <=> off + D!SizedId(st.ins.op, 4, 2, 1) <= Window /\ off % 4 = 0
      BY <2>1 DEF InWindow, Width
    <3>5. Skips(st.ins) <=> SkipsM(st.ins)
      BY <2>1 DEF Skips, SkipsM
    <3> QED
      BY <2>1, <3>1, <3>2, <3>3, <3>4, <3>5 DEF StaysInWindows, FitsM, InPlace, Decoded, Dec
  <2>2. CASE ~M68k
    <3>1. FitsP(st.ins)
      BY <2>2 DEF StreamInv, FormInv
    <3>2. \A off : InWindow(off) <=> off + WidthP(st.ins) <= Window /\ off % 4 = 0
      BY <2>2 DEF InWindow, Width, WidthP
    <3>3. Skips(st.ins) <=> st.ins.op = 16
      BY <2>2 DEF Skips
    <3> QED
      BY <2>2, <3>1, <3>2, <3>3 DEF StaysInWindows, FitsP
  <2> QED
    BY <2>1, <2>2
<1> QED
  BY <1>1, StreamHolds, PTL
-----------------------------------------------------------------------------
\* Where the code lies.  Until the loop is closed every turn has added a word to
\* the PPC stream and one to three words to the M68K stream; from then on the
\* last instruction is the branch whose macro was given the distance to the top.
LaidOut(end, turns) ==
    IF M68k THEN end \in Int /\ top <= end /\ end <= top + 6 * turns
    ELSE end = top + 4 * turns

LoopInv ==
    /\ top = CODE_BASE + PrologueBytes(job.lane) /\ pc \in Int
    /\ i <= job.len => LaidOut(pc, i)
    /\ Closed => /\ st.ins = (IF M68k THEN M!BRA_W(top - (Here + 2)) ELSE P!E_B(top - Here))
                 /\ LaidOut(Here, job.len)

\* The prologue is not empty and ends well inside the first page.
LEMMA TopType == ASSUME StreamInv, LoopInv
                 PROVE  top \in Nat /\ top = IF M68k THEN 4156 ELSE 4184
BY JobType DEF StreamInv, GenInv, LoopInv, CODE_BASE, PrologueBytes, M68k

LEMMA InitLoop == Init => LoopInv
<1> SUFFICES ASSUME Init PROVE LoopInv
  OBVIOUS
<1>1. job.len \in Nat /\ job.lane \in {"m68k", "ppc"} /\ i = 0 /\ top = pc
  BY JobType DEF Init
<1>2. top = CODE_BASE + PrologueBytes(job.lane) /\ top \in Int
  BY <1>1 DEF Init, CODE_BASE, PrologueBytes
<1>3. ~Closed
  BY <1>1 DEF Closed
<1> QED
  BY <1>1, <1>2, <1>3 DEF LoopInv, LaidOut

LEMMA TurnLoop == StreamInv /\ LoopInv /\ Turn => LoopInv'
<1> SUFFICES ASSUME StreamInv, LoopInv, Turn PROVE LoopInv'
  OBVIOUS
<1>1. /\ job' = job /\ top' = top /\ i' = i + 1 /\ i < job.len /\ i \in Nat /\ job.len \in Nat
      /\ pc' = pc + Size(st'.ins)
  BY JobType DEF Turn, StreamInv, GenInv
<1>2. top \in Nat /\ top = CODE_BASE + PrologueBytes(job.lane) /\ LaidOut(pc, i)
  BY <1>1, TopType DEF LoopInv
<1>3. M68k' = M68k /\ ~Closed'
  BY <1>1 DEF M68k, Closed
<1>4. LaidOut(pc, i)' /\ pc' \in Int
  <2>1. CASE M68k
    <3> DEFINE last == M!NearEnd(i + 1, job.len)
    <3>1. st'.ins = M!Emit(st, last).ins /\ last \in BOOLEAN /\ st.seed \in Draw
      BY <2>1 DEF Turn, StreamInv, GenInv, M!NearEnd
    <3> HIDE DEF last
    <3>2. M!Bytes(st'.ins) \in {2, 4, 6}
      BY <3>1, EmittedBytes
    <3>3. Size(st'.ins) \in {2, 4, 6}
      BY <2>1, <3>2 DEF Size
    <3> QED
      BY <1>1, <1>2, <1>3, <2>1, <3>3 DEF LaidOut
  <2>2. CASE ~M68k
    <3>1. Size(st'.ins) = 4
      BY <2>2 DEF Size
    <3> QED
      BY <1>1, <1>2, <1>3, <2>2, <3>1 DEF LaidOut
  <2> QED
    BY <2>1, <2>2
<1> QED
  BY <1>1, <1>2, <1>3, <1>4 DEF LoopInv

LEMMA CloseLoop == StreamInv /\ LoopInv /\ Close => LoopInv'
<1> SUFFICES ASSUME StreamInv, LoopInv, Close PROVE LoopInv'
  OBVIOUS
<1>1. /\ job' = job /\ top' = top /\ i' = i + 1 /\ i = job.len /\ i \in Nat
      /\ pc' = pc + Size(st'.ins)
  BY JobType DEF Close, StreamInv, GenInv
<1>2. /\ top \in Nat /\ top = CODE_BASE + PrologueBytes(job.lane)
      /\ LaidOut(pc, job.len) /\ pc \in Int
  BY <1>1, TopType DEF LoopInv, LaidOut
<1>3. M68k' = M68k
  BY <1>1 DEF M68k
<1>4. st'.ins = IF M68k THEN M!BRA_W(top - (pc + 2)) ELSE P!E_B(top - pc)
  BY DEF Close, StreamInv, GenInv
<1>5. Size(st'.ins) = 4 /\ Size(st.ins)' = Size(st'.ins)
  BY <1>3, <1>4, FormBytes DEF Size
<1>6. Here' = pc
  BY <1>1, <1>2, <1>5 DEF Here
<1>7. LaidOut(Here, job.len)'
  BY <1>1, <1>2, <1>3, <1>6 DEF LaidOut
<1>8. ~(i <= job.len)'
  BY <1>1
<1> QED
  BY <1>1, <1>2, <1>3, <1>4, <1>6, <1>7, <1>8 DEF LoopInv

LEMMA LoopHolds == Spec => [](StreamInv /\ LoopInv)
<1>1. StreamInv /\ LoopInv /\ [Next]_vars => LoopInv'
  <2>1. LoopInv /\ UNCHANGED vars => LoopInv'
    BY DEF vars, LoopInv, LaidOut, Closed, Here, Size, M68k
  <2> QED
    BY <2>1, TurnLoop, CloseLoop DEF Next
<1> QED
  BY <1>1, InitLoop, StreamHolds, PTL DEF Spec

\* A branch macro truncates the distance it is given, and the interpreter
\* extends its sign: what it adds is the distance, as far as that fits.
LEMMA ShortBranch ==
  ASSUME NEW dist \in Int, -32768 <= dist, dist <= 32767, NEW w, w = M!BRA_W(dist).ext[1]
  PROVE  w - (IF w >= 32768 THEN 65536 ELSE 0) = dist
<1>1. w = dist % 65536
  BY DEF M!BRA_W, M!Ins, M!One, M!WordMod
<1>2. CASE 0 <= dist
  <2>1. dist % 65536 = dist
    BY <1>2
  <2> QED
    BY <1>1, <2>1
<1>3. CASE dist < 0
  <2>1. dist % 65536 = dist + 65536
    BY <1>3
  <2> QED
    BY <1>1, <1>3, <2>1
<1> QED
  BY <1>2, <1>3

\* The three fields the PPC branch is packed into, and the word they make up.
LEMMA Unpacked ==
  ASSUME NEW w \in Int, 0 <= w
  PROVE  ((w \div 2097152) * 32 + ((w \div 65536) % 32)) * 65536 + (w % 65536) = w
<1> DEFINE q == w \div 65536    low == w % 65536    hi == q \div 32    mid == q % 32
<1>1. q \in Int /\ low \in Int /\ 0 <= low /\ low <= 65535 /\ w = 65536 * q + low
  OBVIOUS
<1> HIDE DEF q, low
<1>2. hi \in Int /\ mid \in Int /\ 0 <= mid /\ mid <= 31 /\ q = 32 * hi + mid
  BY <1>1
<1> HIDE DEF hi, mid
<1>3. 2097152 * hi <= w /\ w < 2097152 * hi + 2097152
  BY <1>1, <1>2
<1>4. w \div 2097152 = hi
  BY <1>2, <1>3
<1>5. (hi * 32 + mid) * 65536 + low = w
  BY <1>1, <1>2
<1>6. ((w \div 2097152) * 32 + mid) * 65536 + low = w
  BY <1>4, <1>5
<1> QED
  BY <1>6, SMT DEF q, low, mid

LEMMA LongBranch ==
  ASSUME NEW dist \in Int, -33554432 <= dist, dist <= 33554431, dist % 4 = 0,
         NEW ins, ins = P!E_B(dist),
         NEW d, d = (ins.rd * 32 + ins.ra) * 65536 + P!Aligned(ins.lo)
  PROVE  d - (IF d >= 33554432 THEN 67108864 ELSE 0) = dist
<1> DEFINE w == dist % 67108864
<1>1. w \in Int /\ 0 <= w /\ w % 4 = 0 /\ w = IF dist >= 0 THEN dist ELSE dist + 67108864
  <2>1. CASE 0 <= dist
    <3>1. w = dist
      BY <2>1
    <3> QED
      BY <2>1, <3>1
  <2>2. CASE dist < 0
    <3>1. w = dist + 67108864
      BY <2>2
    <3>2. (dist + 67108864) % 4 = 0
      OBVIOUS
    <3> QED
      BY <2>2, <3>1, <3>2
  <2> QED
    BY <2>1, <2>2
<1>2. ins = P!E_D(18, w \div 2097152, (w \div 65536) % 32, w)
  <2>1. P!Aligned(dist) = dist /\ 2^26 = 67108864 /\ 2^21 = 2097152
    BY DEF P!Aligned
  <2> QED
    BY <2>1 DEF P!E_B
<1> HIDE DEF w
<1>3. /\ ins.rd = w \div 2097152 /\ ins.ra = (w \div 65536) % 32
      /\ ins.lo = w % 65536
  BY <1>2 DEF P!E_D
<1>4. P!Aligned(w % 65536) = w % 65536
  <2>1. (w % 65536) % 4 = 0
    BY <1>1
  <2> QED
    BY <1>1, <2>1 DEF P!Aligned
<1>5. ((w \div 2097152) * 32 + ((w \div 65536) % 32)) * 65536 + (w % 65536) = w
  BY <1>1, Unpacked
<1>6. d = w
  BY <1>3, <1>4, <1>5
<1> QED
  BY <1>1, <1>6

\* Of all that is drawn only the length of the code decides whether the loop
\* closes: no more than the branch can span, and an end inside the region.
Reaches ==
    /\ Here - top <= IF M68k THEN 32766 ELSE 33554432
    /\ pc <= Region

\* Whatever is drawn and however long the stream, the branch macro and the
\* interpreter agree on the top (m68k/bench_main.c:79 and 183): where a loop does
\* not close, its code has outgrown the branch or the region.
THEOREM ReachingLoopCloses == Spec => [](Reaches => LoopCloses)
<1>1. StreamInv /\ LoopInv => (Reaches => LoopCloses)
  <2> SUFFICES ASSUME StreamInv, LoopInv, Reaches, Closed
               PROVE  Here + Distance = top
    BY DEF LoopCloses, Reaches
  <2>1. top \in Int /\ job.len \in Int /\ 0 <= job.len /\ LaidOut(Here, job.len)
    BY TopType, JobType DEF StreamInv, GenInv, LoopInv
  <2>2. CASE M68k
    <3>1. st.ins = M!BRA_W(top - (Here + 2)) /\ Here \in Int /\ top <= Here /\ Here - top <= 32766
      BY <2>1, <2>2 DEF LoopInv, LaidOut, Reaches
    <3> DEFINE dist == top - (Here + 2)
               w == st.ins.ext[1]
    <3>2. dist \in Int /\ -32768 <= dist /\ dist <= 32767 /\ w = M!BRA_W(dist).ext[1]
      BY <2>1, <3>1
    <3>3. Distance = (w - (IF w >= 32768 THEN 65536 ELSE 0)) + 2
      BY <2>2 DEF Distance
    <3> HIDE DEF dist, w
    <3>4. Distance = dist + 2
      BY <3>2, <3>3, ShortBranch
    <3> QED
      BY <2>1, <3>1, <3>4 DEF dist
  <2>3. CASE ~M68k
    <3>1. st.ins = P!E_B(top - Here) /\ Here = top + 4 * job.len /\ Here - top <= 33554432
      BY <2>1, <2>3 DEF LoopInv, LaidOut, Reaches
    <3> DEFINE dist == top - Here
               d == (st.ins.rd * 32 + st.ins.ra) * 65536 + P!Aligned(st.ins.lo)
    <3>2. dist \in Int /\ dist = -(4 * job.len) /\ -33554432 <= dist /\ dist <= 33554431
      BY <2>1, <3>1
    <3>3. dist % 4 = 0
      BY <2>1, <3>2
    <3>4. Distance = d - (IF d >= 33554432 THEN 67108864 ELSE 0)
      <4>1. 2^25 = 33554432 /\ 2^26 = 67108864
        OBVIOUS
      <4> QED
        BY <2>3, <4>1 DEF Distance
    <3> HIDE DEF dist, d
    <3>5. Distance = dist
      <4>1. st.ins = P!E_B(dist)
        BY <3>1 DEF dist
      <4>2. d = (st.ins.rd * 32 + st.ins.ra) * 65536 + P!Aligned(st.ins.lo)
        BY DEF d
      <4> QED
        BY <3>2, <3>3, <3>4, <4>1, <4>2, LongBranch
    <3> QED
      BY <2>1, <3>1, <3>5 DEF dist
  <2> QED
    BY <2>2, <2>3
<1> QED
  BY <1>1, LoopHolds, PTL

\* What 16 bits span when every draw is the longest instruction, and what the
\* region holds of the PPC stream.
ShortEnough == job.len <= IF M68k THEN 5461 ELSE 64489

\* For every seed: the loop of a PPC stream of up to nearly four times the length
\* the benchmark asks for closes inside the region, and so does that of an M68K
\* stream of two thirds of the benchmark's (STREAM_LEN in both bench_main.c).
THEOREM LoopOfAnySeedCloses == Spec => [](ShortEnough => LoopCloses)
<1>1. StreamInv /\ LoopInv /\ Closed /\ ShortEnough => Reaches
  <2> SUFFICES ASSUME StreamInv, LoopInv, Closed, ShortEnough PROVE Reaches
    OBVIOUS
  <2>1. /\ top = (IF M68k THEN 4156 ELSE 4184) /\ LaidOut(Here, job.len)
        /\ job.len \in Nat /\ job.len <= IF M68k THEN 5461 ELSE 64489
    BY TopType, JobType DEF StreamInv, GenInv, LoopInv, ShortEnough
  <2>2. Size(st.ins) = 4
    BY FormBytes DEF LoopInv, Size
  <2>3. pc \in Int /\ pc = Here + 4
    <3>1. pc \in Int
      BY DEF LoopInv
    <3> QED
      BY <2>2, <3>1 DEF Here
  <2>4. CASE M68k
    BY <2>1, <2>3, <2>4 DEF LaidOut, Reaches, Region
  <2>5. CASE ~M68k
    BY <2>1, <2>3, <2>5 DEF LaidOut, Reaches, Region
  <2> QED
    BY <2>4, <2>5
<1>2. ~Closed => LoopCloses
  BY DEF LoopCloses
<1> QED
  BY <1>1, <1>2, LoopHolds, ReachingLoopCloses, PTL
=============================================================================
