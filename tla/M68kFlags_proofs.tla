-------------------------- MODULE M68kFlags_proofs --------------------------
(***************************************************************************)
(* The condition codes mean what the conditions say, at every width.       *)
(***************************************************************************)
EXTENDS M68kFlags, TLAPS

\* Half the range, and what wraps around.
LEMMA Wrap ==
    ASSUME NEW s \in Long, NEW d \in Long
    PROVE  /\ LongMod \in Nat /\ LongMod \div 2 \in Nat /\ LongMod = 2 * (LongMod \div 2)
           /\ Sub(d, s) = (IF d >= s THEN d - s ELSE d - s + LongMod)
           /\ Add(d, s) = (IF d + s < LongMod THEN d + s ELSE d + s - LongMod)
BY WidthAssumption DEF Long, Add, Sub

\* Two values with different sign bits lie in different halves of the range.
LEMMA SignsDiffer ==
    ASSUME NEW a \in Nat, NEW b \in Nat, NEW h \in Nat, h = LongMod \div 2
    PROVE  (Msb(a) # Msb(b)) <=> ((a >= h /\ b < h) \/ (a < h /\ b >= h))
<1>1. (Msb(a) <=> a >= h) /\ (Msb(b) <=> b >= h)
  BY DEF Msb
<1>2. Msb(a) \in BOOLEAN /\ Msb(b) \in BOOLEAN
  BY DEF Msb
<1>3. (Msb(a) # Msb(b)) <=> ~(Msb(a) <=> Msb(b))
  BY <1>2
<1>4. (~(a >= h) <=> a < h) /\ (~(b >= h) <=> b < h)
  OBVIOUS
<1> QED
  BY <1>1, <1>3, <1>4

\* The flags of a comparison, by cases of the wrap: V tells a wrong sign.
LEMMA CompareFlags ==
    ASSUME NEW s \in Long, NEW d \in Long
    PROVE  LET f == cc_cmp_l(s, d, Sub(d, s))
           IN /\ (f.n <=> f.v) <=> Signed(d) >= Signed(s)
              /\ f.z <=> d = s
              /\ f.c <=> d < s
              /\ f.v <=> ~InRange(Signed(d) - Signed(s))
<1> DEFINE h == LongMod \div 2
           r == Sub(d, s)
           f == cc_cmp_l(s, d, r)
<1>1. /\ h \in Nat /\ LongMod = 2 * h
      /\ s \in Nat /\ d \in Nat /\ s < 2 * h /\ d < 2 * h
      /\ r = (IF d >= s THEN d - s ELSE d - s + 2 * h)
  BY Wrap DEF Long
<1>2. /\ f.n <=> r >= h
      /\ f.z <=> r = 0
      /\ f.c <=> s > d
      /\ f.v <=> ((d >= h /\ s < h) \/ (d < h /\ s >= h)) /\ ((d >= h /\ r < h) \/ (d < h /\ r >= h))
  <2>1. (f.n <=> Msb(r)) /\ (f.z <=> r = 0) /\ (f.c <=> s > d)
        /\ (f.v <=> Msb(d) # Msb(s) /\ Msb(d) # Msb(r))
    BY DEF cc_cmp_l, cc_sub_l
  <2>2. r \in Nat
    BY <1>1
  <2>3. Msb(r) <=> r >= h
    BY DEF Msb
  <2> HIDE DEF h, r, f
  <2> QED
    BY <1>1, <2>1, <2>2, <2>3, SignsDiffer DEF h
<1>3. /\ Signed(s) = (IF s >= h THEN s - 2 * h ELSE s)
      /\ Signed(d) = (IF d >= h THEN d - 2 * h ELSE d)
      /\ \A v : InRange(v) <=> -h <= v /\ v < h
  BY <1>1 DEF Signed, InRange, Msb
<1> HIDE DEF h, r, f
<1>4. (f.n <=> f.v) <=> Signed(d) >= Signed(s)
  BY <1>1, <1>2, <1>3
<1>5. f.v <=> ~InRange(Signed(d) - Signed(s))
  BY <1>1, <1>2, <1>3
<1>6. (f.z <=> d = s) /\ (f.c <=> d < s)
  BY <1>1, <1>2
<1> QED
  BY <1>4, <1>5, <1>6 DEF f, r

LEMMA AddFlags ==
    ASSUME NEW s \in Long, NEW d \in Long
    PROVE  LET f == cc_add_l(s, d, Add(d, s))
           IN /\ f.v <=> ~InRange(Signed(d) + Signed(s))
              /\ f.c <=> d + s >= LongMod
<1> DEFINE h == LongMod \div 2
           r == Add(d, s)
           f == cc_add_l(s, d, r)
<1>1. /\ h \in Nat /\ LongMod = 2 * h
      /\ s \in Nat /\ d \in Nat /\ s < 2 * h /\ d < 2 * h
      /\ r = (IF d + s < 2 * h THEN d + s ELSE d + s - 2 * h)
  BY Wrap DEF Long
<1>2. /\ f.c <=> r < s
      /\ f.v <=> ((s >= h /\ r < h) \/ (s < h /\ r >= h)) /\ ((d >= h /\ r < h) \/ (d < h /\ r >= h))
  <2>1. (f.c <=> r < s) /\ (f.v <=> Msb(s) # Msb(r) /\ Msb(d) # Msb(r))
    BY DEF cc_add_l
  <2>2. r \in Nat
    BY <1>1
  <2> HIDE DEF h, r, f
  <2> QED
    BY <1>1, <2>1, <2>2, SignsDiffer DEF h
<1>3. /\ Signed(s) = (IF s >= h THEN s - 2 * h ELSE s)
      /\ Signed(d) = (IF d >= h THEN d - 2 * h ELSE d)
      /\ \A v : InRange(v) <=> -h <= v /\ v < h
  BY <1>1 DEF Signed, InRange, Msb
<1> HIDE DEF h, r, f
<1>4. f.v <=> ~InRange(Signed(d) + Signed(s))
  BY <1>1, <1>2, <1>3
<1>5. f.c <=> d + s >= LongMod
  BY <1>1, <1>2
<1> QED
  BY <1>4, <1>5 DEF f, r

Operands == src \in Long /\ dst \in Long

LEMMA OperandsAreLongs == Spec => []Operands
<1>1. Init => Operands
  BY DEF Init, Operands
<1>2. Operands /\ [Next]_<<src, dst>> => Operands'
  BY DEF Next, Operands
<1> QED
  BY <1>1, <1>2, PTL DEF Spec

\* At every width and for all operands, the conditional branches after a compare
\* test the order of the operands (m68k_ops.h:51-83).
THEOREM ConditionsCompareAlways == Spec => []ConditionsCompare
<1>1. Operands => ConditionsCompare
  <2> SUFFICES ASSUME Operands PROVE ConditionsCompare
    OBVIOUS
  <2>1. Signed(src) \in Int /\ Signed(dst) \in Int /\ (Signed(src) = Signed(dst) <=> src = dst)
    BY Wrap DEF Operands, Signed, Msb, Long
  <2>2. PICK f : f = cc_cmp_l(src, dst, Sub(dst, src))
    OBVIOUS
  <2>3. f.n \in BOOLEAN /\ f.v \in BOOLEAN
    BY <2>2 DEF cc_cmp_l, cc_sub_l, Msb
  <2>4. /\ (f.n <=> f.v) <=> Signed(dst) >= Signed(src)
        /\ f.z <=> dst = src
        /\ f.c <=> dst < src
        /\ f.v <=> ~InRange(Signed(dst) - Signed(src))
    BY <2>2, CompareFlags DEF Operands
  <2>5. /\ m68k_cond(f, 12) <=> (f.n <=> f.v)
        /\ m68k_cond(f, 13) <=> ~(f.n <=> f.v)
        /\ m68k_cond(f, 14) <=> ~f.z /\ (f.n <=> f.v)
        /\ m68k_cond(f, 15) <=> f.z \/ ~(f.n <=> f.v)
        /\ m68k_cond(f, 4) <=> ~f.c
        /\ m68k_cond(f, 5) <=> f.c
        /\ m68k_cond(f, 6) <=> ~f.z
        /\ m68k_cond(f, 7) <=> f.z
        /\ m68k_cond(f, 10) <=> ~f.n
        /\ m68k_cond(f, 11) <=> f.n
    BY <2>3 DEF m68k_cond
  <2>6. src \in Int /\ dst \in Int
    BY Wrap DEF Operands, Long
  <2>7. m68k_cond(f, 11) <=> ((Signed(dst) < Signed(src)) <=> InRange(Signed(dst) - Signed(src)))
    <3>1. Signed(dst) < Signed(src) <=> ~(f.n <=> f.v)
      BY <2>1, <2>4
    <3>2. InRange(Signed(dst) - Signed(src)) <=> ~f.v
      BY <2>4
    <3> QED
      BY <2>5, <3>1, <3>2
  <2>8. /\ m68k_cond(f, 12) <=> Signed(dst) >= Signed(src)
        /\ m68k_cond(f, 13) <=> Signed(dst) < Signed(src)
        /\ m68k_cond(f, 14) <=> Signed(dst) > Signed(src)
        /\ m68k_cond(f, 15) <=> Signed(dst) <= Signed(src)
    BY <2>1, <2>4, <2>5
  <2>9. /\ m68k_cond(f, 4) <=> dst >= src
        /\ m68k_cond(f, 5) <=> dst < src
        /\ m68k_cond(f, 6) <=> dst # src
        /\ m68k_cond(f, 7) <=> dst = src
        /\ m68k_cond(f, 10) <=> ~m68k_cond(f, 11)
    BY <2>4, <2>5, <2>6
  <2> QED
    BY <2>2, <2>7, <2>8, <2>9, Zenon DEF ConditionsCompare
<1> QED
  BY <1>1, OperandsAreLongs, PTL

\* V and C are the signed and the unsigned overflow (m68k_ops.h:30-48).
THEOREM OverflowIsExactAlways == Spec => []OverflowIsExact
<1>1. Operands => OverflowIsExact
  <2> SUFFICES ASSUME Operands PROVE OverflowIsExact
    OBVIOUS
  <2>1. src \in Int /\ dst \in Int
    BY Wrap DEF Operands, Long
  <2> QED
    BY <2>1, CompareFlags, AddFlags DEF Operands, OverflowIsExact, cc_cmp_l
<1> QED
  BY <1>1, OperandsAreLongs, PTL
=============================================================================
