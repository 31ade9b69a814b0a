---------------------------- MODULE PpcOps_proofs ----------------------------
(***************************************************************************)
(* The instruction bodies of ppc_ops.h, one lemma each: from a machine     *)
(* they make a machine, they never write zero_base, and they keep the pc   *)
(* aligned.                                                                *)
(***************************************************************************)
EXTENDS PpcImage, TLAPS

----------------------------------------------------------------------------
\* Integer division.
LEMMA DivMod ==
  ASSUME NEW a \in Int, NEW b \in Nat \ {0}
  PROVE  a = b * (a \div b) + (a % b) /\ a \div b \in Int
OBVIOUS

LEMMA MultipleMod ==
  ASSUME NEW a \in Int, NEW b \in Nat \ {0}, a % 4 = 0, b % 4 = 0
  PROVE  (a % b) % 4 = 0
<1>1. PICK r \in Int : b = 4 * r
  OBVIOUS
<1>2. PICK s \in Int : a = 4 * s
  OBVIOUS
<1>3. PICK q \in Int : a % b = a - b * q
  <2>1. a = b * (a \div b) + (a % b) /\ a \div b \in Int
    BY DivMod
  <2>2. a % b = a - b * (a \div b)
    BY <2>1
  <2> QED
    BY <2>1, <2>2
<1>4. a % b = 4 * (s - r * q)
  BY <1>1, <1>2, <1>3
<1> QED
  BY <1>4

----------------------------------------------------------------------------
\* Words.
LEMMA LongFacts ==
  /\ LongMod \in Nat \ {0} /\ LongMod % 2 = 0 /\ LongMod % 4 = 0
  /\ LongBits \in Nat \ {0} /\ 0 \in Long /\ Long \subseteq Nat
BY WidthAssumption, PpcAssumption, MemoryAssumption DEF LongBits, Long

LEMMA LongInt == ASSUME NEW v \in Long PROVE v \in Int /\ v \in Nat
BY LongFacts DEF Long

LEMMA ModType == ASSUME NEW a \in Int PROVE a % LongMod \in Long
BY LongFacts DEF Long

LEMMA AddType == ASSUME NEW a \in Int, NEW b \in Int PROVE Add(a, b) \in Long /\ Sub(a, b) \in Long
BY ModType DEF Add, Sub

\* A multiple of four stays one, whatever wraps.
LEMMA AlignedMod == ASSUME NEW a \in Int, a % 4 = 0 PROVE (a % LongMod) % 4 = 0
BY MultipleMod, LongFacts

LEMMA SignExtendType ==
  ASSUME NEW v \in Int, NEW mod \in Int
  PROVE  SignExtend(v, mod) \in Long
BY ModType DEF SignExtend

LEMMA SignExtend16 == ASSUME NEW v \in Int PROVE SignExtend(v, 65536) \in Long
<1> DEFINE M == 65536
<1>1. M \in Int
  OBVIOUS
<1> HIDE DEF M
<1>2. SignExtend(v, M) \in Long
  BY <1>1, SignExtendType
<1> QED
  BY <1>2 DEF M

LEMMA SignedType == ASSUME NEW v \in Long PROVE Signed(v) \in Int
BY LongFacts DEF Signed

LEMMA BitsType ==
  ASSUME NEW a, NEW b
  PROVE  And(a, b) \in Long /\ Or(a, b) \in Long /\ Eor(a, b) \in Long
<1>1. Ones(a) \in SUBSET (0..(LongBits - 1)) /\ Ones(b) \in SUBSET (0..(LongBits - 1))
  BY DEF Ones
<1>2. /\ Ones(a) \cap Ones(b) \in SUBSET (0..(LongBits - 1))
      /\ Ones(a) \cup Ones(b) \in SUBSET (0..(LongBits - 1))
      /\ (Ones(a) \cup Ones(b)) \ (Ones(a) \cap Ones(b)) \in SUBSET (0..(LongBits - 1))
  BY <1>1
<1> QED
  BY <1>2, PowerAssumption DEF And, Or, Eor

\* Two powers that make a long.
LEMMA Powers ==
  ASSUME NEW k \in 0..LongBits
  PROVE  /\ 2^k \in Nat \ {0} /\ 2^(LongBits - k) \in Nat \ {0}
         /\ 2^(LongBits - k) * 2^k = LongMod
<1>1. LongBits - k \in 0..LongBits /\ (LongBits - k) + k = LongBits
  BY LongFacts
<1> QED
  BY <1>1, PowerAssumption DEF LongMod

\* A shifted long keeps its low bits free, by a count that may reach the width.
LEMMA ShiftLeftType ==
  ASSUME NEW v \in Long, NEW k \in Nat
  PROVE  /\ ShiftLeft(v, k) \in Long
         /\ k < LongBits => ShiftLeft(v, k) + 2^k <= LongMod
<1>1. CASE k >= LongBits
  BY <1>1, LongFacts DEF ShiftLeft
<1>2. CASE k < LongBits
  <2> DEFINE p == 2^k
             q == 2^(LongBits - k)
             r == v % q
  <2>1. p \in Nat \ {0} /\ q \in Nat \ {0} /\ q * p = LongMod
    BY <1>2, Powers, LongFacts
  <2>2. r \in Nat /\ r <= q - 1 /\ ShiftLeft(v, k) = r * p
    BY <1>2, <2>1, LongFacts DEF ShiftLeft
  <2> HIDE DEF r, p, q
  <2>3. r * p <= (q - 1) * p /\ (q - 1) * p = q * p - p /\ r * p \in Nat
    BY <2>1, <2>2
  <2>4. ShiftLeft(v, k) \in Nat /\ ShiftLeft(v, k) + p <= LongMod
    BY <2>1, <2>2, <2>3
  <2> QED
    BY <2>1, <2>4, LongFacts DEF Long, p
<1> QED
  BY <1>1, <1>2, LongFacts

LEMMA ShiftRightType ==
  ASSUME NEW v \in Long, NEW k \in Nat
  PROVE  /\ ShiftRight(v, k) \in Long
         /\ k <= LongBits => ShiftRight(v, k) < 2^(LongBits - k)
<1>1. CASE k >= LongBits
  BY <1>1, LongFacts, Powers DEF ShiftRight
<1>2. CASE k < LongBits
  <2> DEFINE p == 2^k
             q == 2^(LongBits - k)
  <2>1. p \in Nat \ {0} /\ q \in Nat \ {0} /\ q * p = LongMod
    BY <1>2, Powers, LongFacts
  <2>2. v \in Nat /\ v < p * q /\ ShiftRight(v, k) = v \div p
    BY <1>2, <2>1, LongFacts DEF ShiftRight, Long
  <2> HIDE DEF p, q
  <2>3. v \div p \in Nat /\ v \div p < q /\ v \div p <= v
    BY <2>1, <2>2
  <2> QED
    BY <2>2, <2>3, LongFacts DEF Long, q
<1> QED
  BY <1>1, <1>2, LongFacts

LEMMA RotlType == ASSUME NEW v \in Long, NEW sh \in Nat PROVE rotl32(v, sh) \in Long
<1> DEFINE k == sh % LongBits
           l == ShiftLeft(v, k)
           r == ShiftRight(v, LongBits - k)
<1>1. k \in Nat /\ k < LongBits /\ LongBits - k \in Nat /\ LongBits - k <= LongBits
      /\ LongBits - (LongBits - k) = k
  BY LongFacts
<1>2. l \in Long /\ l + 2^k <= LongMod /\ r \in Long /\ r < 2^k /\ 2^k \in Nat
  <2> HIDE DEF k
  <2> QED
    BY <1>1, ShiftLeftType, ShiftRightType, Powers, LongFacts
<1>3. rotl32(v, sh) = l + r
  BY DEF rotl32
<1> HIDE DEF k, l, r
<1> QED
  BY <1>2, <1>3, LongFacts DEF Long

LEMMA MaskType == ASSUME NEW mb \in 0..31, NEW me \in 0..31 PROVE ppc_mask(mb, me) \in Long
BY BitsType DEF ppc_mask

LEMMA ShiftArithType == ASSUME NEW v \in Long, NEW k \in Nat PROVE ShiftArith(v, k) \in Long
<1> DEFINE e == IF k >= LongBits THEN LongBits - 1 ELSE k
<1>1. e \in 0..LongBits
  BY LongFacts
<1>2. 2^e \in Nat \ {0}
  BY <1>1, PowerAssumption
<1>3. Signed(v) \div (2^e) \in Int
  BY <1>2, SignedType
<1> QED
  BY <1>3, ModType DEF ShiftArith
----------------------------------------------------------------------------
\* Memory: an access that passes the page test stays inside RAM.
LEMMA FastIsInside ==
  ASSUME NEW addr \in Int, NEW size \in {1, 2, 4}, Fast(addr, size)
  PROVE  /\ Masked(addr) \in Address
         /\ \A j \in 0..(size - 1) : Masked(addr) + j \in Address
<1> DEFINE a == Masked(addr)
<1>1. a \in Nat /\ a < RamSize /\ RamSize \in Nat
  BY MemoryAssumption DEF Masked
<1>2. PICK s \in Nat : RamSize = PageSize * s
  BY MemoryAssumption
<1> HIDE DEF a
<1>3. PICK q \in Int : a = PageSize * q + (a % PageSize)
  <2>1. a = PageSize * (a \div PageSize) + (a % PageSize) /\ a \div PageSize \in Int
    BY <1>1, MemoryAssumption
  <2> QED
    BY <2>1
<1>4. (a % PageSize) + size <= PageSize /\ a % PageSize \in Nat
  BY <1>1, MemoryAssumption DEF Fast, a
<1>5. q < s
  <2> SUFFICES ASSUME q >= s
               PROVE  FALSE
    OBVIOUS
  <2>1. PageSize * q >= PageSize * s
    BY MemoryAssumption
  <2> QED
    BY <2>1, <1>1, <1>2, <1>3, <1>4, MemoryAssumption
<1>6. PageSize * q + PageSize <= PageSize * s
  BY <1>5, MemoryAssumption
<1>7. a + size <= RamSize
  BY <1>1, <1>2, <1>3, <1>4, <1>6, MemoryAssumption
<1> QED
  BY <1>1, <1>7 DEF Address, a

LEMMA AlignedIsFast == ASSUME NEW addr \in Nat, addr % 4 = 0 PROVE Fast(addr, 4)
<1> DEFINE a == addr % RamSize
           o == a % PageSize
<1>1. PICK p \in Int : PageSize = 4 * p
  BY MemoryAssumption
<1>2. PICK s \in Int : RamSize = PageSize * s
  BY MemoryAssumption
<1>3. RamSize = 4 * (p * s)
  BY <1>1, <1>2
<1>4. RamSize % 4 = 0
  BY <1>3
<1>5. a \in Int /\ a % 4 = 0
  BY <1>4, MultipleMod, MemoryAssumption
<1> HIDE DEF a
<1>6. o \in Int /\ o % 4 = 0 /\ o < PageSize
  BY <1>5, MultipleMod, MemoryAssumption
<1> HIDE DEF o
<1>7. o <= PageSize - 4
  BY <1>6, MemoryAssumption
<1> QED
  BY <1>7 DEF Fast, Masked, o, a

LEMMA ByteFacts ==
  /\ ByteMod \in Nat \ {0} /\ WordMod \in Nat \ {0}
  /\ ByteMod * ByteMod = WordMod /\ WordMod * WordMod = LongMod
  /\ \A k \in 0..3 : SizeMod(k) \in Nat \ {0}
<1>1. /\ ByteBits \in 0..LongBits /\ 2 * ByteBits \in 0..LongBits
      /\ ByteBits + ByteBits = 2 * ByteBits /\ 2 * ByteBits + 2 * ByteBits = LongBits
  BY MemoryAssumption DEF LongBits
<1>2. \A k \in 0..3 : k * ByteBits \in 0..LongBits
  BY MemoryAssumption DEF LongBits
<1>3. \A k \in 0..3 : 2^(k * ByteBits) \in Nat \ {0}
  BY <1>2, PowerAssumption
<1> QED
  BY <1>1, <1>3, PowerAssumption DEF ByteMod, WordMod, LongMod, SizeMod

LEMMA LoadType ==
  ASSUME NEW ram \in [Address -> Byte], NEW addr \in Int, NEW size \in {1, 2, 4}, Fast(addr, size)
  PROVE  Load(ram, addr, size) \in Long
<1> DEFINE a == Masked(addr)
           B == ByteMod
           W == WordMod
<1>1. \A j \in 0..(size - 1) : ram[a + j] \in Nat /\ ram[a + j] <= B - 1
  <2>1. \A x \in Byte : x \in Nat /\ x <= B - 1
    BY ByteFacts DEF Byte
  <2>2. \A j \in 0..(size - 1) : a + j \in Address
    BY FastIsInside
  <2> QED
    BY <2>1, <2>2
<1>2. a + 0 = a
  BY FastIsInside, MemoryAssumption DEF Address
<1>3. B \in Nat \ {0} /\ W \in Nat \ {0} /\ B * B = W /\ W * W = LongMod /\ B <= W /\ W <= LongMod
  BY ByteFacts
<1>4. CASE size = 1
  BY <1>1, <1>2, <1>3, <1>4, LongFacts DEF Load, Long
<1> HIDE DEF B, W
<1>5. ASSUME NEW x \in 0..(B - 1), NEW y \in 0..(B - 1)
      PROVE  x * B + y \in 0..(W - 1)
  <2>1. x * B <= (B - 1) * B /\ (B - 1) * B = W - B /\ x * B \in Nat
    BY <1>3
  <2> QED
    BY <2>1, <1>3
<1>6. CASE size = 2
  <2>1. ram[a] * B + ram[a + 1] \in 0..(W - 1)
    BY <1>1, <1>2, <1>3, <1>5, <1>6
  <2> QED
    BY <2>1, <1>3, <1>6, LongFacts DEF Load, Long, B
<1>7. CASE size = 4
  <2> DEFINE h == ram[a] * B + ram[a + 1]
             l == ram[a + 2] * B + ram[a + 3]
  <2>1. h \in 0..(W - 1) /\ l \in 0..(W - 1)
    BY <1>1, <1>2, <1>3, <1>5, <1>7
  <2>2. ram[a + 2] * B \in Nat /\ ram[a + 3] \in Nat /\ h * W + ram[a + 2] * B + ram[a + 3] = h * W + l
    BY <1>1, <1>3, <1>7, <2>1
  <2> HIDE DEF h, l
  <2>3. h * W <= (W - 1) * W /\ (W - 1) * W = LongMod - W /\ h * W \in Nat
    BY <2>1, <1>3
  <2>4. h * W + l \in Long
    BY <2>1, <2>3, <1>3 DEF Long
  <2> QED
    BY <2>2, <2>4, <1>7 DEF Load, B, W, h
<1> QED
  BY <1>4, <1>6, <1>7

LEMMA DigitType ==
  ASSUME NEW v \in Int, NEW b \in Nat \ {0}, NEW p \in Nat \ {0}
  PROVE  (v \div p) % b \in 0..(b - 1)
OBVIOUS

LEMMA StoreType ==
  ASSUME NEW ram \in [Address -> Byte], NEW addr \in Int, NEW size \in {1, 2, 4}, NEW v \in Int
  PROVE  Store(ram, addr, size, v) \in [Address -> Byte]
<1>1. ASSUME NEW d \in 0..(size - 1)
      PROVE  (v \div SizeMod(size - 1 - d)) % ByteMod \in Byte
  <2> DEFINE place == SizeMod(size - 1 - d)
  <2>1. size - 1 - d \in 0..3
    OBVIOUS
  <2>2. place \in Nat \ {0} /\ ByteMod \in Nat \ {0}
    BY <2>1, ByteFacts
  <2> HIDE DEF place
  <2>3. (v \div place) % ByteMod \in Byte
    BY <2>2, DigitType DEF Byte
  <2> QED
    BY <2>3 DEF place
<1> QED
  BY <1>1 DEF Store

\* Digits: a quotient and a remainder are determined by what they add up to.
LEMMA Quotient ==
  ASSUME NEW q \in Int, NEW b \in Nat \ {0}, NEW r \in 0..(b - 1), NEW a, a = b * q + r
  PROVE  a \div b = q /\ a % b = r
<1>1. a \in Int /\ a = b * (a \div b) + (a % b) /\ a \div b \in Int /\ a % b \in 0..(b - 1)
  OBVIOUS
<1> DEFINE p == a \div b    s == a % b
<1> HIDE DEF p, s
<1>2. b * p + s = b * q + r /\ p \in Int /\ s \in 0..(b - 1)
  BY <1>1 DEF p, s
<1>3. ~(p < q)
  <2> SUFFICES ASSUME p < q PROVE FALSE
    OBVIOUS
  <2>1. b * p <= b * (q - 1) /\ b * (q - 1) = b * q - b
    BY <1>2
  <2> QED
    BY <1>2, <2>1
<1>4. ~(q < p)
  <2> SUFFICES ASSUME q < p PROVE FALSE
    OBVIOUS
  <2>1. b * q <= b * (p - 1) /\ b * (p - 1) = b * p - b
    BY <1>2
  <2> QED
    BY <1>2, <2>1
<1>5. p = q
  BY <1>2, <1>3, <1>4
<1>6. s = r
  BY <1>2, <1>5
<1> QED
  BY <1>5, <1>6 DEF p, s

\* Two digits to the base b are the remainder by its square.
LEMMA TwoDigits ==
  ASSUME NEW v \in Nat, NEW b \in Nat \ {0}
  PROVE  ((v \div b) % b) * b + (v % b) = v % (b * b)
<1> DEFINE q == v \div b    l == v % b    h == q \div b    d == q % b
<1>1. v = b * q + l /\ q \in Int /\ l \in 0..(b - 1)
  OBVIOUS
<1> HIDE DEF q, l
<1>2. q = b * h + d /\ h \in Int /\ d \in 0..(b - 1)
  BY <1>1
<1> HIDE DEF h, d
<1>3. v = (b * b) * h + (d * b + l)
  BY <1>1, <1>2
<1>4. d * b + l \in 0..(b * b - 1)
  <2>1. d * b \in Nat /\ d * b <= (b - 1) * b /\ (b - 1) * b = b * b - b
    BY <1>2
  <2> QED
    BY <1>1, <2>1
<1>5. b * b \in Nat \ {0}
  OBVIOUS
<1>6. v % (b * b) = d * b + l
  <2> DEFINE bb == b * b    r == d * b + l
  <2>1. bb \in Nat \ {0} /\ r \in 0..(bb - 1) /\ v = bb * h + r
    BY <1>3, <1>4, <1>5
  <2> HIDE DEF bb, r
  <2>2. v % bb = r
    BY <1>2, <2>1, Quotient
  <2> QED
    BY <2>2 DEF bb, r
<1> QED
  BY <1>6 DEF q, l, d

LEMMA NestedDiv ==
  ASSUME NEW v \in Nat, NEW a \in Nat \ {0}, NEW b \in Nat \ {0}
  PROVE  (v \div a) \div b = v \div (a * b)
<1> DEFINE q == v \div a    l == v % a    h == q \div b    d == q % b
<1>1. v = a * q + l /\ q \in Int /\ l \in 0..(a - 1)
  OBVIOUS
<1> HIDE DEF q, l
<1>2. q = b * h + d /\ h \in Int /\ d \in 0..(b - 1)
  BY <1>1
<1> HIDE DEF h, d
<1>3. v = (a * b) * h + (a * d + l)
  BY <1>1, <1>2
<1>4. a * d + l \in 0..(a * b - 1)
  <2>1. a * d \in Nat /\ a * d <= a * (b - 1) /\ a * (b - 1) = a * b - a
    BY <1>2
  <2> QED
    BY <1>1, <2>1
<1>5. a * b \in Nat \ {0}
  OBVIOUS
<1>6. v \div (a * b) = h
  <2> DEFINE ab == a * b    r == a * d + l
  <2>1. ab \in Nat \ {0} /\ r \in 0..(ab - 1) /\ v = ab * h + r
    BY <1>3, <1>4, <1>5
  <2> HIDE DEF ab, r
  <2>2. v \div ab = h
    BY <1>2, <2>1, Quotient
  <2> QED
    BY <2>2 DEF ab
<1> QED
  BY <1>6 DEF q, h

LEMMA Places ==
  /\ SizeMod(0) = 1 /\ SizeMod(1) = ByteMod /\ SizeMod(2) = WordMod
  /\ SizeMod(3) = WordMod * ByteMod /\ SizeMod(4) = LongMod
<1>1. /\ ByteBits \in 0..LongBits /\ 2 * ByteBits \in 0..LongBits /\ 0 \in 0..LongBits
      /\ 0 * ByteBits = 0 /\ 1 * ByteBits = ByteBits /\ 4 * ByteBits = LongBits
      /\ 2 * ByteBits + ByteBits = 3 * ByteBits /\ 3 * ByteBits <= LongBits /\ 0 + 0 = 0
  BY MemoryAssumption DEF LongBits
<1>2. 2^0 = 1
  OBVIOUS
<1>3. 2^(2 * ByteBits) * 2^ByteBits = 2^(3 * ByteBits)
  BY <1>1, PowerAssumption
<1> QED
  BY <1>1, <1>2, <1>3 DEF SizeMod, ByteMod, WordMod, LongMod

LEMMA MaskedType == ASSUME NEW addr \in Int PROVE Masked(addr) \in Int
BY MemoryAssumption DEF Masked

\* The big-endian accesses of mem_fastpath.h agree with one another, for every
\* width of byte and every RAM: a load finds what the last store of its size
\* left there, cut to the size, and a store reaches no byte but its own.
THEOREM LoadAfterStore ==
  ASSUME NEW ram \in [Address -> Byte], NEW v \in Long,
         NEW addr \in Int, NEW size \in {1, 2, 4}, Fast(addr, size),
         NEW other \in Int, NEW width \in {1, 2, 4}, Fast(other, width)
  PROVE  LET after == Store(ram, addr, size, v)
         IN /\ Load(after, addr, size) = v % SizeMod(size)
            /\ (\A j \in 0..(size - 1), n \in 0..(width - 1) :
                   Masked(addr) + j # Masked(other) + n)
               => Load(after, other, width) = Load(ram, other, width)
<1> DEFINE after == Store(ram, addr, size, v)
           m == Masked(addr)
           B == ByteMod
           W == WordMod
           digit(d) == (v \div SizeMod(size - 1 - d)) % B
<1>1. v \in Nat /\ B \in Nat \ {0} /\ W \in Nat \ {0} /\ B * B = W /\ W * W = LongMod
      /\ m \in Int /\ v \in Int
  BY LongInt, ByteFacts, MaskedType
<1>a. (\A d \in 0..(size - 1) : m + d \in Address) /\ Address \subseteq Int
  <2>1. Address \subseteq Int
    BY MemoryAssumption DEF Address
  <2> QED
    BY <2>1, FastIsInside
<1>b. \A a \in Address : after[a] = IF a - m \in 0..(size - 1) THEN digit(a - m) ELSE ram[a]
  BY DEF Store
<1> HIDE DEF after, m, digit
\* What STORE_BE leaves at the bytes of the access, and at the others.
<1>2. \A d \in 0..(size - 1) : after[m + d] = digit(d)
  <2> TAKE d \in 0..(size - 1)
  <2>1. m + d \in Address /\ (m + d) - m = d
    BY <1>1, <1>a
  <2> QED
    BY <1>b, <2>1
<1>c. \A a \in Address : (\A d \in 0..(size - 1) : a # m + d) => after[a] = ram[a]
  <2> SUFFICES ASSUME NEW a \in Address, \A d \in 0..(size - 1) : a # m + d
               PROVE  after[a] = ram[a]
    OBVIOUS
  <2>1. a = m + (a - m)
    BY <1>1, <1>a
  <2>2. a - m \notin 0..(size - 1)
    BY <2>1
  <2> QED
    BY <1>b, <2>2
<1>3. /\ size = 1 => digit(0) = v % B
      /\ size = 2 => digit(0) = (v \div B) % B /\ digit(1) = v % B
      /\ size = 4 => /\ digit(0) = (v \div (W * B)) % B /\ digit(1) = (v \div W) % B
                     /\ digit(2) = (v \div B) % B /\ digit(3) = v % B
  <2>1. v \div SizeMod(0) = v
    BY <1>1, Places
  <2> QED
    BY <2>1, Places DEF digit
<1> HIDE DEF digit
<1>4. Load(after, addr, size) = v % SizeMod(size)
  <2>1. CASE size = 1
    <3>1. after[m] = v % B
      <4>1. m + 0 = m /\ 0 \in 0..(size - 1)
        BY <1>1, <2>1
      <4> QED
        BY <1>2, <1>3, <2>1, <4>1
    <3> QED
      BY <2>1, <3>1, Places DEF Load, m
  <2>2. CASE size = 2
    <3>1. after[m] = (v \div B) % B /\ after[m + 1] = v % B
      <4>1. m + 0 = m /\ 0 \in 0..(size - 1) /\ 1 \in 0..(size - 1)
        BY <1>1, <2>2
      <4> QED
        BY <1>2, <1>3, <2>2, <4>1
    <3>2. ((v \div B) % B) * B + (v % B) = v % W
      BY <1>1, TwoDigits
    <3> QED
      BY <2>2, <3>1, <3>2, Places DEF Load, m
  <2>3. CASE size = 4
    <3> DEFINE u == v \div W
    <3>1. after[m] = (v \div (W * B)) % B /\ after[m + 1] = u % B
          /\ after[m + 2] = (v \div B) % B /\ after[m + 3] = v % B
      <4>1. m + 0 = m /\ 0..(size - 1) = {0, 1, 2, 3}
        BY <1>1, <2>3
      <4> QED
        BY <1>2, <1>3, <2>3, <4>1
    <3>2. u \in Nat /\ v \div (W * B) = u \div B
      <4>1. u \in Nat
        BY <1>1
      <4> HIDE DEF W, B
      <4> QED
        BY <1>1, <4>1, NestedDiv
    <3>3. ((u \div B) % B) * B + (u % B) = u % W /\ ((v \div B) % B) * B + (v % B) = v % W
      BY <1>1, <3>2, TwoDigits
    <3>4. (u % W) * W + (v % W) = v % LongMod
      BY <1>1, TwoDigits
    <3> DEFINE b1 == (v \div B) % B    b0 == v % B
    <3>5. b1 * B \in Int /\ b0 \in Int /\ (u % W) * W \in Int
      BY <1>1, <3>2
    <3>6. Load(after, addr, size) = (u % W) * W + b1 * B + b0
      BY <2>3, <3>1, <3>2, <3>3 DEF Load, m
    <3> HIDE DEF b1, b0, u
    <3>7. (u % W) * W + b1 * B + b0 = (u % W) * W + (b1 * B + b0)
      BY <3>5
    <3> QED
      BY <2>3, <3>3, <3>4, <3>6, <3>7, Places DEF b1, b0
  <2> QED
    BY <2>1, <2>2, <2>3
<1>5. ASSUME \A j \in 0..(size - 1), n \in 0..(width - 1) : m + j # Masked(other) + n
      PROVE  Load(after, other, width) = Load(ram, other, width)
  <2> DEFINE o == Masked(other)
  <2>1. o \in Int /\ \A n \in 0..(width - 1) : o + n \in Address
    BY MaskedType, FastIsInside
  <2>2. \A n \in 0..(width - 1) : after[o + n] = ram[o + n]
    BY <1>5, <1>c, <2>1
  <2> HIDE DEF o
  <2>3. o + 0 = o /\ 0 \in 0..(width - 1)
    BY <2>1
  <2>4. /\ after[o] = ram[o]
        /\ width = 2 => after[o + 1] = ram[o + 1]
        /\ width = 4 => /\ after[o + 1] = ram[o + 1] /\ after[o + 2] = ram[o + 2]
                        /\ after[o + 3] = ram[o + 3]
    BY <2>2, <2>3, SMTT(30)
  <2> QED
    BY <2>4 DEF Load, o
<1> QED
  BY <1>4, <1>5 DEF after, m
----------------------------------------------------------------------------
\* The fields of an instruction.
LEMMA HalfwordType == ASSUME NEW x \in Halfwords PROVE x \in Nat /\ x <= 65535
BY SMTT(30) DEF Halfwords

LEMMA FieldTypes ==
  ASSUME NEW i, IsInsn(i)
  PROVE  /\ i.op \in 0..63 /\ i.rd \in 0..31 /\ i.ra \in 0..31 /\ P_RB(i) \in 0..31
         /\ P_SIMM(i) \in Long /\ P_UIMM(i) \in Long
         /\ High(P_SIMM(i)) \in Long /\ High(P_UIMM(i)) \in Long
         /\ (i.lo \div 64) % 32 \in 0..31 /\ (i.lo \div 2) % 32 \in 0..31
         /\ crfD(i) \in 0..7 /\ Rc(i) \in BOOLEAN
<1>1. i.op \in 0..63 /\ i.rd \in 0..31 /\ i.ra \in 0..31 /\ i.lo \in Halfwords
  BY DEF IsInsn
<1>2. i.lo \in Nat /\ i.lo < 65536 /\ i.lo \in Int /\ i.rd \in Nat /\ i.rd < 32
  BY <1>1, HalfwordType
<1>3. P_RB(i) \in 0..31 /\ (i.lo \div 64) % 32 \in 0..31 /\ (i.lo \div 2) % 32 \in 0..31
  <2>1. i.lo \div 2048 \in Nat /\ i.lo \div 2048 < 32
    BY <1>2
  <2>2. (i.lo \div 64) % 32 \in 0..31 /\ (i.lo \div 2) % 32 \in 0..31
    BY <1>2
  <2> QED
    BY <2>1, <2>2 DEF P_RB
<1>4. crfD(i) \in 0..7 /\ Rc(i) \in BOOLEAN
  BY <1>2 DEF crfD, Rc
<1>5. P_SIMM(i) \in Long /\ P_UIMM(i) \in Long
  <2>1. SignExtend(i.lo, 65536) \in Long
    BY <1>2, SignExtend16
  <2> QED
    BY <1>2, <2>1, ModType DEF P_SIMM, P_UIMM
<1>6. High(P_SIMM(i)) \in Long /\ High(P_UIMM(i)) \in Long
  <2>1. ASSUME NEW v \in Long PROVE High(v) \in Long
    <3>1. v * WordMod \in Int
      BY ByteFacts, LongFacts
    <3> QED
      BY <3>1, ModType DEF High
  <2> QED
    BY <1>5, <2>1
<1> QED
  BY <1>1, <1>3, <1>4, <1>5, <1>6

\* What a body must make of a machine m whose pc is aligned.
Aligned4(m) == m.pc % 4 = 0
Good(m, r) == IsMachine(r) /\ r.gpr[ZERO] = m.gpr[ZERO] /\ Aligned4(r)

LEMMA RegType ==
  ASSUME NEW m, IsMachine(m)
  PROVE  /\ \A r \in 0..ZERO : m.gpr[r] \in Long
         /\ \A r \in 0..31 : m.gpr[r] \in Long /\ m.gpr[r] \in Int
         /\ m.lr \in Long /\ m.ctr \in Long /\ m.pc \in Long /\ m.pc \in Int
         /\ m.ram \in [Address -> Byte] /\ m.fate \in Fates /\ m.cr \in SUBSET CrBits
<1>1. /\ m.gpr \in [0..32 -> Long]
      /\ m.lr \in Long /\ m.ctr \in Long /\ m.pc \in Long
      /\ m.ram \in [Address -> Byte] /\ m.fate \in Fates /\ m.cr \in SUBSET CrBits
  BY DEF IsMachine, ZERO
<1>2. \A v \in Long : v \in Int
  BY LongFacts
<1> QED
  BY <1>1, <1>2 DEF ZERO

LEMMA StopGood ==
  ASSUME NEW m, IsMachine(m), Aligned4(m), NEW f \in Fates
  PROVE  Good(m, Stop(m, f))
BY DEF IsMachine, Good, Stop, Aligned4

LEMMA IllegalGood ==
  ASSUME NEW m, IsMachine(m), Aligned4(m)
  PROVE  Good(m, ppc_illegal(m)) /\ ppc_illegal(m).fate = "illegal"
BY StopGood DEF ppc_illegal, Fates, Stop, IsMachine

LEMMA OrderType == ASSUME NEW a, NEW b PROVE Order(a, b) \in SUBSET {1, 2, 3}
BY DEF Order, LT, GT, EQ

LEMMA SetCrfGood ==
  ASSUME NEW m, IsMachine(m), Aligned4(m), NEW f \in 0..7, NEW bits \in SUBSET {1, 2, 3}
  PROVE  Good(m, set_crf(m, f, bits))
<1>1. m.cr \in SUBSET CrBits
  BY RegType
<1>2. PutField(m.cr, 28 - 4 * f, bits) \in SUBSET CrBits
  BY <1>1 DEF PutField, CrBits
<1> QED
  BY <1>2 DEF set_crf, IsMachine, Good, Aligned4

LEMMA WriteGood ==
  ASSUME NEW m, IsMachine(m), Aligned4(m), NEW d \in 0..31, NEW v \in Long, NEW rc \in BOOLEAN
  PROVE  Good(m, Write(m, d, v, rc))
<1> DEFINE w == [m EXCEPT !.gpr[d] = v]
<1>1. Good(m, w)
  BY DEF IsMachine, Good, Aligned4, ZERO
<1>2. Good(w, record0(w, v))
  <2>1. IsMachine(w) /\ Aligned4(w)
    BY <1>1 DEF Good
  <2>2. Order(Signed(v), 0) \in SUBSET {1, 2, 3} /\ 0 \in 0..7
    BY OrderType
  <2> QED
    BY <2>1, <2>2, SetCrfGood DEF record0
<1> QED
  BY <1>1, <1>2 DEF Write, Good

LEMMA KindType ==
  ASSUME NEW a \in Long, NEW b \in Long,
         NEW k \in {"ADD", "SUBF", "MULLW", "AND", "OR", "XOR", "SLW", "SRW"}
  PROVE  Kind(k, a, b) \in Long
<1>1. a \in Nat /\ b \in Nat /\ 0 \in Long
  BY LongFacts
<1>2. Add(a, b) \in Long /\ Sub(b, a) \in Long
  BY <1>1, AddType
<1>3. (a * b) % LongMod \in Long
  <2>1. a * b \in Int
    BY <1>1
  <2> QED
    BY <2>1, ModType
<1>4. b % 32 \in Nat
  BY <1>1
<1>5. ShiftLeft(a, b % 32) \in Long /\ ShiftRight(a, b % 32) \in Long
  BY <1>4, ShiftLeftType, ShiftRightType
<1> QED
  BY <1>1, <1>2, <1>3, <1>5, BitsType DEF Kind

LEMMA SrawGood ==
  ASSUME NEW m, IsMachine(m), Aligned4(m), NEW d \in 0..31, NEW s \in Long, NEW sh \in 0..31,
         NEW rc \in BOOLEAN
  PROVE  Good(m, Sraw(m, d, s, sh, rc))
<1> DEFINE c == [m EXCEPT !.ca = Msb(s) /\ LowBits(s, sh) # 0]
<1>1. Good(m, c)
  BY DEF IsMachine, Good, Aligned4
<1>2. Good(c, Write(c, d, ShiftArith(s, sh), rc))
  <2>1. IsMachine(c) /\ Aligned4(c)
    BY <1>1 DEF Good
  <2>2. ShiftArith(s, sh) \in Long
    BY ShiftArithType
  <2> QED
    BY <2>1, <2>2, WriteGood
<1> QED
  BY <1>1, <1>2 DEF Sraw, Good
----------------------------------------------------------------------------
\* Good is what a sequence of steps keeps.
LEMMA GoodThen ==
  ASSUME NEW m, NEW r, NEW s, Good(m, r), Good(r, s)
  PROVE  Good(m, s)
BY DEF Good

LEMMA GoodIs ==
  ASSUME NEW m, NEW r, Good(m, r)
  PROVE  IsMachine(r) /\ Aligned4(r)
BY DEF Good

LEMMA BaseType ==
  ASSUME NEW m, IsMachine(m), NEW i, IsInsn(i)
  PROVE  /\ Base(m, i.ra) \in Long /\ EaD(m, i) \in Long /\ EaX(m, i) \in Long
         /\ m.gpr[i.rd] \in Long /\ m.gpr[i.ra] \in Long /\ m.gpr[P_RB(i)] \in Long
<1>1. m.gpr[i.rd] \in Long /\ m.gpr[i.ra] \in Long /\ m.gpr[P_RB(i)] \in Long
  BY FieldTypes, RegType
<1>2. Base(m, i.ra) \in Long
  BY <1>1, LongFacts DEF Base
<1>3. P_SIMM(i) \in Int /\ Base(m, i.ra) \in Int /\ m.gpr[P_RB(i)] \in Int
  BY <1>1, <1>2, FieldTypes, LongInt
<1> QED
  BY <1>1, <1>2, <1>3, AddType DEF EaD, EaX

LEMMA AddiGood ==
  ASSUME NEW m, IsMachine(m), Aligned4(m), NEW i, IsInsn(i), NEW shifted \in BOOLEAN
  PROVE  Good(m, gen_addi(m, i, shifted))
<1> DEFINE imm == IF shifted THEN High(P_SIMM(i)) ELSE P_SIMM(i)
<1>1. imm \in Int /\ Base(m, i.ra) \in Int
  BY FieldTypes, BaseType, LongInt
<1>2. Add(Base(m, i.ra), imm) \in Long
  BY <1>1, AddType
<1> QED
  BY <1>2, FieldTypes, WriteGood DEF gen_addi

LEMMA MulliGood ==
  ASSUME NEW m, IsMachine(m), Aligned4(m), NEW i, IsInsn(i)
  PROVE  Good(m, gen_mulli(m, i))
<1>1. m.gpr[i.ra] \in Int /\ P_SIMM(i) \in Int
  BY FieldTypes, BaseType, LongInt
<1>2. m.gpr[i.ra] * P_SIMM(i) \in Int
  BY <1>1
<1>3. (m.gpr[i.ra] * P_SIMM(i)) % LongMod \in Long
  BY <1>2, ModType
<1> QED
  BY <1>3, FieldTypes, WriteGood DEF gen_mulli

LEMMA LogicDGood ==
  ASSUME NEW m, IsMachine(m), Aligned4(m), NEW i, IsInsn(i), NEW shifted \in BOOLEAN,
         NEW kind \in {"AND", "OR", "XOR"}, NEW rc \in BOOLEAN
  PROVE  Good(m, gen_logic_d(m, i, kind, shifted, rc))
<1> DEFINE imm == IF shifted THEN High(P_UIMM(i)) ELSE P_UIMM(i)
<1>1. imm \in Long
  BY FieldTypes
<1>2. Kind(kind, m.gpr[i.rd], imm) \in Long
  BY <1>1, BaseType, KindType
<1> QED
  BY <1>2, FieldTypes, WriteGood DEF gen_logic_d

LEMMA XGood ==
  ASSUME NEW m, IsMachine(m), Aligned4(m), NEW i, IsInsn(i), NEW rc \in BOOLEAN,
         NEW kind \in {"ADD", "SUBF", "MULLW", "AND", "OR", "XOR", "SLW", "SRW"}
  PROVE  /\ Good(m, gen_xo_arith(m, i, kind, rc))
         /\ Good(m, gen_x_logic(m, i, kind, rc))
<1>1. /\ Kind(kind, m.gpr[i.ra], m.gpr[P_RB(i)]) \in Long
      /\ Kind(kind, m.gpr[i.rd], m.gpr[P_RB(i)]) \in Long
  BY BaseType, KindType
<1> QED
  BY <1>1, FieldTypes, WriteGood DEF gen_xo_arith, gen_x_logic

LEMMA SrawiGood ==
  ASSUME NEW m, IsMachine(m), Aligned4(m), NEW i, IsInsn(i), NEW rc \in BOOLEAN
  PROVE  Good(m, gen_srawi(m, i, rc))
BY FieldTypes, BaseType, SrawGood DEF gen_srawi

LEMMA RlwinmGood ==
  ASSUME NEW m, IsMachine(m), Aligned4(m), NEW i, IsInsn(i)
  PROVE  Good(m, gen_rlwinm(m, i))
BY FieldTypes, BitsType, WriteGood DEF gen_rlwinm

LEMMA CmpGood ==
  ASSUME NEW m, IsMachine(m), Aligned4(m), NEW i, IsInsn(i),
         NEW immediate \in BOOLEAN, NEW unsigned \in BOOLEAN
  PROVE  Good(m, gen_cmp(m, i, immediate, unsigned))
<1> DEFINE a == m.gpr[i.ra]
           b == IF ~immediate THEN m.gpr[P_RB(i)]
                ELSE IF unsigned THEN P_UIMM(i) ELSE P_SIMM(i)
           o == IF unsigned THEN Order(a, b) ELSE Order(Signed(a), Signed(b))
<1>1. o \in SUBSET {1, 2, 3}
  BY OrderType
<1>2. gen_cmp(m, i, immediate, unsigned) = set_crf(m, crfD(i), o)
  BY DEF gen_cmp
<1> HIDE DEF o
<1> QED
  BY <1>1, <1>2, FieldTypes, SetCrfGood
----------------------------------------------------------------------------
LEMMA LoadToGood ==
  ASSUME NEW m, IsMachine(m), Aligned4(m), NEW d \in 0..31, NEW ea \in Long,
         NEW width \in {1, 2, 4}
  PROVE  Good(m, LoadTo(m, d, ea, width))
<1>1. ea \in Int /\ "bad_access" \in Fates
  BY LongFacts DEF Fates
<1>2. CASE Fast(ea, width)
  <2>1. Load(m.ram, ea, width) \in Long
    BY <1>1, <1>2, LoadType, RegType
  <2> QED
    BY <1>2, <2>1, WriteGood DEF LoadTo
<1>3. CASE ~Fast(ea, width)
  BY <1>1, <1>3, StopGood DEF LoadTo
<1> QED
  BY <1>2, <1>3

LEMMA StoreFromGood ==
  ASSUME NEW m, IsMachine(m), Aligned4(m), NEW s \in 0..31, NEW ea \in Long,
         NEW width \in {1, 2, 4}
  PROVE  Good(m, StoreFrom(m, s, ea, width))
<1>1. ea \in Int /\ m.gpr[s] \in Int /\ "bad_access" \in Fates
  BY LongFacts, RegType DEF Fates
<1>2. CASE Fast(ea, width)
  <2>1. Store(m.ram, ea, width, m.gpr[s]) \in [Address -> Byte]
    BY <1>1, StoreType, RegType
  <2>2. StoreFrom(m, s, ea, width) = [m EXCEPT !.ram = Store(m.ram, ea, width, m.gpr[s])]
    BY <1>2 DEF StoreFrom
  <2> QED
    BY <2>1, <2>2 DEF Good, IsMachine, Aligned4
<1>3. CASE ~Fast(ea, width)
  BY <1>1, <1>3, StopGood DEF StoreFrom
<1> QED
  BY <1>2, <1>3

LEMMA UpdateGood ==
  ASSUME NEW m, IsMachine(m), Aligned4(m), NEW ra \in 0..31, NEW ea \in Long
  PROVE  Good(m, Update(m, ra, ea))
BY DEF Good, IsMachine, Aligned4, Update, ZERO

LEMMA MemoryGood ==
  ASSUME NEW m, IsMachine(m), Aligned4(m), NEW i, IsInsn(i), NEW width \in {1, 2, 4},
         NEW update \in BOOLEAN
  PROVE  /\ Good(m, gen_load_d(m, i, width, update)) /\ Good(m, gen_store_d(m, i, width, update))
         /\ Good(m, gen_load_x(m, i, width)) /\ Good(m, gen_store_x(m, i, width))
<1>1. /\ EaD(m, i) \in Long /\ EaX(m, i) \in Long /\ i.rd \in 0..31 /\ i.ra \in 0..31
  BY BaseType, FieldTypes
<1>2. Good(m, LoadTo(m, i.rd, EaD(m, i), width)) /\ Good(m, StoreFrom(m, i.rd, EaD(m, i), width))
  BY <1>1, LoadToGood, StoreFromGood
<1>3. /\ Good(m, Update(LoadTo(m, i.rd, EaD(m, i), width), i.ra, EaD(m, i)))
      /\ Good(m, Update(StoreFrom(m, i.rd, EaD(m, i), width), i.ra, EaD(m, i)))
  BY <1>1, <1>2, UpdateGood, GoodIs, GoodThen
<1>4. Good(m, gen_load_x(m, i, width)) /\ Good(m, gen_store_x(m, i, width))
  BY <1>1, LoadToGood, StoreFromGood DEF gen_load_x, gen_store_x
<1> QED
  BY <1>2, <1>3, <1>4 DEF gen_load_d, gen_store_d
----------------------------------------------------------------------------
\* Branch targets are aligned: displacements are, and so are LR and CTR once
\* their two low bits are cleared.
LEMMA AlignedType ==
  ASSUME NEW a \in Int
  PROVE  /\ Aligned(a) \in Int /\ Aligned(a) % 4 = 0
         /\ a \in Long => Aligned(a) \in Long
<1>1. Aligned(a) = 4 * (a \div 4) /\ a \div 4 \in Int
  BY DEF Aligned
<1>2. Aligned(a) \in Int /\ Aligned(a) % 4 = 0 /\ Aligned(a) <= a /\ (a >= 0 => Aligned(a) >= 0)
  BY <1>1
<1> QED
  BY <1>2, LongFacts DEF Long

LEMMA SignExtendAligned ==
  ASSUME NEW v \in Int, NEW mod \in Int, v % 4 = 0, mod % 4 = 0
  PROVE  SignExtend(v, mod) % 4 = 0
<1>1. CASE v >= mod \div 2
  <2>1. v - mod \in Int /\ (v - mod) % 4 = 0
    OBVIOUS
  <2> QED
    BY <1>1, <2>1, AlignedMod DEF SignExtend
<1>2. CASE ~(v >= mod \div 2)
  BY <1>2, AlignedMod DEF SignExtend
<1> QED
  BY <1>1, <1>2

LEMMA DisplacementTypes ==
  ASSUME NEW i, IsInsn(i)
  PROVE  /\ BD(i) \in Long /\ BD(i) % 4 = 0
         /\ LI(i) \in Long /\ LI(i) % 4 = 0
<1>1. i.lo \in Int
  BY HalfwordType DEF IsInsn
<1>2. Aligned(i.lo) \in Int /\ Aligned(i.lo) % 4 = 0
  BY <1>1, AlignedType
<1>3. BD(i) \in Long /\ BD(i) % 4 = 0
  <2> DEFINE mod == 65536
  <2>1. mod \in Int /\ mod % 4 = 0
    OBVIOUS
  <2> HIDE DEF mod
  <2>2. SignExtend(Aligned(i.lo), mod) \in Long /\ SignExtend(Aligned(i.lo), mod) % 4 = 0
    BY <1>2, <2>1, SignExtendType, SignExtendAligned
  <2> QED
    BY <2>2 DEF BD, mod
<1>4. LI(i) \in Long /\ LI(i) % 4 = 0
  <2> DEFINE mod == 2^26
             v == (i.rd * 32 + i.ra) * 65536 + Aligned(i.lo)
  <2>1. mod \in Int /\ mod % 4 = 0
    OBVIOUS
  <2>2. i.rd * 32 + i.ra \in Int
    BY FieldTypes
  <2>3. v \in Int /\ v % 4 = 0
    BY <1>2, <2>2
  <2> HIDE DEF mod, v
  <2>4. SignExtend(v, mod) \in Long /\ SignExtend(v, mod) % 4 = 0
    BY <2>1, <2>3, SignExtendType, SignExtendAligned
  <2> QED
    BY <2>4 DEF LI, mod, v
<1> QED
  BY <1>3, <1>4

LEMMA AddAligned ==
  ASSUME NEW a \in Int, NEW b \in Int, a % 4 = 0, b % 4 = 0
  PROVE  Add(a, b) \in Long /\ Add(a, b) % 4 = 0 /\ Sub(a, b) \in Long /\ Sub(a, b) % 4 = 0
<1>1. a + b \in Int /\ (a + b) % 4 = 0 /\ a - b \in Int /\ (a - b) % 4 = 0
  OBVIOUS
<1> QED
  BY <1>1, ModType, AlignedMod DEF Add, Sub

LEMMA PcGood ==
  ASSUME NEW m, IsMachine(m), NEW a \in Long, a % 4 = 0
  PROVE  Good(m, [m EXCEPT !.pc = a])
BY DEF Good, IsMachine, Aligned4

LEMMA LinkGood ==
  ASSUME NEW m, IsMachine(m), Aligned4(m), NEW i
  PROVE  Good(m, Link(m, i)) /\ Link(m, i).pc = m.pc /\ Link(m, i).cr = m.cr
BY RegType DEF Good, IsMachine, Aligned4, Link

LEMMA CountedGood ==
  ASSUME NEW m, IsMachine(m), Aligned4(m), NEW i, NEW allow_ctr \in BOOLEAN
  PROVE  Good(m, Counted(m, i, allow_ctr)) /\ Counted(m, i, allow_ctr).pc = m.pc
<1>1. Sub(m.ctr, 1) \in Long
  <2>1. m.ctr - 1 \in Int
    BY RegType, LongInt
  <2> QED
    BY <2>1, ModType DEF Sub
<1> QED
  BY <1>1 DEF Good, IsMachine, Aligned4, Counted

LEMMA GotoGood ==
  ASSUME NEW m, IsMachine(m), Aligned4(m), NEW i, NEW disp \in Long, disp % 4 = 0
  PROVE  Good(m, Goto(m, i, disp))
<1>1. m.pc \in Int /\ m.pc % 4 = 0 /\ disp \in Int /\ 4 \in Int /\ 4 % 4 = 0
  BY RegType, LongInt DEF Aligned4
<1>2. Sub(m.pc, 4) \in Int /\ Sub(m.pc, 4) % 4 = 0
  BY <1>1, AddAligned, LongInt
<1>3. Add(Sub(m.pc, 4), disp) \in Long /\ Add(Sub(m.pc, 4), disp) % 4 = 0
  BY <1>1, <1>2, AddAligned
<1> QED
  BY <1>3, PcGood DEF Goto

LEMMA BranchGood ==
  ASSUME NEW m, IsMachine(m), Aligned4(m), NEW i, IsInsn(i)
  PROVE  Good(m, gen_b(m, i)) /\ Good(m, gen_bc(m, i)) /\ Good(m, bclr(m, i)) /\ Good(m, bcctr(m, i))
<1> DEFINE c == Counted(m, i, TRUE)
           l == Link(c, i)
           k == Link(m, i)
<1>1. IsMachine(c) /\ Aligned4(c) /\ Good(m, c)
  BY CountedGood, GoodIs
<1>2. Good(m, l) /\ IsMachine(l) /\ Aligned4(l)
  BY <1>1, LinkGood, GoodIs, GoodThen
<1>3. Good(m, k) /\ IsMachine(k) /\ Aligned4(k)
  BY LinkGood, GoodIs
<1> HIDE DEF c, l, k
<1>4. Good(m, Goto(k, i, LI(i)))
  BY <1>3, DisplacementTypes, GotoGood, GoodThen
<1>5. Good(m, Goto(l, i, BD(i)))
  BY <1>2, DisplacementTypes, GotoGood, GoodThen
<1>6. /\ Aligned(m.lr) \in Long /\ Aligned(m.lr) % 4 = 0
      /\ Aligned(m.ctr) \in Long /\ Aligned(m.ctr) % 4 = 0
  BY RegType, LongInt, AlignedType
<1>7. Good(m, [l EXCEPT !.pc = Aligned(m.lr)]) /\ Good(m, [k EXCEPT !.pc = Aligned(m.ctr)])
  BY <1>2, <1>3, <1>6, PcGood, GoodThen
<1> QED
  BY <1>2, <1>3, <1>4, <1>5, <1>7 DEF gen_b, gen_bc, bclr, bcctr, c, l, k

LEMMA MsprGood ==
  ASSUME NEW m, IsMachine(m), Aligned4(m), NEW i, IsInsn(i), NEW to_spr \in BOOLEAN
  PROVE  Good(m, gen_mspr(m, i, to_spr))
<1>1. /\ Good(m, [m EXCEPT !.lr = m.gpr[i.rd]]) /\ Good(m, [m EXCEPT !.ctr = m.gpr[i.rd]])
  BY BaseType DEF Good, IsMachine, Aligned4
<1>2. Good(m, Write(m, i.rd, m.lr, FALSE)) /\ Good(m, Write(m, i.rd, m.ctr, FALSE))
  BY RegType, FieldTypes, WriteGood
<1>3. Good(m, ppc_illegal(m))
  BY IllegalGood
<1>4. to_spr \/ ~to_spr
  OBVIOUS
<1> QED
  BY <1>1, <1>2, <1>3, <1>4 DEF gen_mspr
----------------------------------------------------------------------------
LEMMA EvenKeys ==
  /\ Even(532) = 532 /\ Even(533) = 532 /\ Even(80) = 80 /\ Even(81) = 80
  /\ Even(470) = 470 /\ Even(471) = 470
  /\ Even(56) = 56 /\ Even(57) = 56 /\ Even(888) = 888 /\ Even(889) = 888
  /\ Even(632) = 632 /\ Even(633) = 632 /\ Even(48) = 48 /\ Even(1072) = 1072
  /\ \A key \in {46, 558, 174, 302, 814, 430, 0, 64, 678, 934} : Even(key) = key
  /\ Even(1648) = 1648 /\ Even(1649) = 1648
BY DEF Even

LEMMA Lists ==
  /\ DOMAIN Xo31 = {532, 80, 470} /\ DOMAIN Logic31 = {56, 888, 632, 48, 1072}
  /\ DOMAIN Load31 = {46, 558, 174} /\ DOMAIN Store31 = {302, 814, 430}
  /\ Xo31[532] = "ADD" /\ Xo31[80] = "SUBF" /\ Xo31[470] = "MULLW"
  /\ Logic31[56] = "AND" /\ Logic31[888] = "OR" /\ Logic31[632] = "XOR"
  /\ Logic31[48] = "SLW" /\ Logic31[1072] = "SRW"
  /\ Load31[46] = 4 /\ Load31[558] = 2 /\ Load31[174] = 1
  /\ Store31[302] = 4 /\ Store31[814] = 2 /\ Store31[430] = 1
BY DEF Xo31, Logic31, Load31, Store31

\* The secondary list, an entry a line.
LEMMA Op31Is ==
  /\ \A m, i : Op31(532, m, i) = gen_xo_arith(m, i, "ADD", Odd(532))
  /\ \A m, i : Op31(533, m, i) = gen_xo_arith(m, i, "ADD", Odd(533))
  /\ \A m, i : Op31(80, m, i) = gen_xo_arith(m, i, "SUBF", Odd(80))
  /\ \A m, i : Op31(81, m, i) = gen_xo_arith(m, i, "SUBF", Odd(81))
  /\ \A m, i : Op31(470, m, i) = gen_xo_arith(m, i, "MULLW", Odd(470))
  /\ \A m, i : Op31(471, m, i) = gen_xo_arith(m, i, "MULLW", Odd(471))
  /\ \A m, i : Op31(56, m, i) = gen_x_logic(m, i, "AND", Odd(56))
  /\ \A m, i : Op31(57, m, i) = gen_x_logic(m, i, "AND", Odd(57))
  /\ \A m, i : Op31(888, m, i) = gen_x_logic(m, i, "OR", Odd(888))
  /\ \A m, i : Op31(889, m, i) = gen_x_logic(m, i, "OR", Odd(889))
  /\ \A m, i : Op31(632, m, i) = gen_x_logic(m, i, "XOR", Odd(632))
  /\ \A m, i : Op31(633, m, i) = gen_x_logic(m, i, "XOR", Odd(633))
  /\ \A m, i : Op31(48, m, i) = gen_x_logic(m, i, "SLW", Odd(48))
  /\ \A m, i : Op31(1072, m, i) = gen_x_logic(m, i, "SRW", Odd(1072))
  /\ \A m, i : Op31(46, m, i) = gen_load_x(m, i, 4)
  /\ \A m, i : Op31(558, m, i) = gen_load_x(m, i, 2)
  /\ \A m, i : Op31(174, m, i) = gen_load_x(m, i, 1)
  /\ \A m, i : Op31(302, m, i) = gen_store_x(m, i, 4)
  /\ \A m, i : Op31(814, m, i) = gen_store_x(m, i, 2)
  /\ \A m, i : Op31(430, m, i) = gen_store_x(m, i, 1)
  /\ \A m, i : Op31(0, m, i) = gen_cmp(m, i, FALSE, FALSE)
  /\ \A m, i : Op31(64, m, i) = gen_cmp(m, i, FALSE, TRUE)
  /\ \A m, i : Op31(1648, m, i) = gen_srawi(m, i, Odd(1648))
  /\ \A m, i : Op31(1649, m, i) = gen_srawi(m, i, Odd(1649))
  /\ \A m, i : Op31(678, m, i) = gen_mspr(m, i, FALSE)
  /\ \A m, i : Op31(934, m, i) = gen_mspr(m, i, TRUE)
BY EvenKeys, Lists DEF Op31

LEMMA Op31Good ==
  ASSUME NEW m, IsMachine(m), Aligned4(m), NEW i, IsInsn(i), NEW key \in PPC_OP31
  PROVE  Good(m, Op31(key, m, i))
<1>1. \A k \in Nat : Odd(k) \in BOOLEAN
  BY DEF Odd
<1>2. ASSUME NEW k \in Nat
      PROVE  /\ Good(m, gen_xo_arith(m, i, "ADD", Odd(k)))
             /\ Good(m, gen_xo_arith(m, i, "SUBF", Odd(k)))
             /\ Good(m, gen_xo_arith(m, i, "MULLW", Odd(k)))
  BY <1>1, XGood
<1>3. ASSUME NEW k \in Nat
      PROVE  /\ Good(m, gen_x_logic(m, i, "AND", Odd(k))) /\ Good(m, gen_x_logic(m, i, "OR", Odd(k)))
             /\ Good(m, gen_x_logic(m, i, "XOR", Odd(k))) /\ Good(m, gen_x_logic(m, i, "SLW", Odd(k)))
             /\ Good(m, gen_x_logic(m, i, "SRW", Odd(k)))
  BY <1>1, XGood
<1>4. \A w \in {1, 2, 4} : Good(m, gen_load_x(m, i, w)) /\ Good(m, gen_store_x(m, i, w))
  BY MemoryGood
<1>5. /\ Good(m, gen_cmp(m, i, FALSE, TRUE)) /\ Good(m, gen_cmp(m, i, FALSE, FALSE))
      /\ Good(m, gen_mspr(m, i, FALSE)) /\ Good(m, gen_mspr(m, i, TRUE))
  BY CmpGood, MsprGood
<1>6. \A k \in Nat : Good(m, gen_srawi(m, i, Odd(k)))
  BY <1>1, SrawiGood
<1>7. CASE key \in {532, 533, 80, 81, 470, 471}
  <2>1. Good(m, Op31(532, m, i))
    BY <1>2, Op31Is
  <2>2. Good(m, Op31(533, m, i))
    BY <1>2, Op31Is
  <2>3. Good(m, Op31(80, m, i))
    BY <1>2, Op31Is
  <2>4. Good(m, Op31(81, m, i))
    BY <1>2, Op31Is
  <2>5. Good(m, Op31(470, m, i))
    BY <1>2, Op31Is
  <2>6. Good(m, Op31(471, m, i))
    BY <1>2, Op31Is
  <2> QED
    BY <1>7, <2>1, <2>2, <2>3, <2>4, <2>5, <2>6
<1>8. CASE key \in {56, 57, 888, 889, 632, 633, 48, 1072}
  <2>1. Good(m, Op31(56, m, i))
    BY <1>3, Op31Is
  <2>2. Good(m, Op31(57, m, i))
    BY <1>3, Op31Is
  <2>3. Good(m, Op31(888, m, i))
    BY <1>3, Op31Is
  <2>4. Good(m, Op31(889, m, i))
    BY <1>3, Op31Is
  <2>5. Good(m, Op31(632, m, i))
    BY <1>3, Op31Is
  <2>6. Good(m, Op31(633, m, i))
    BY <1>3, Op31Is
  <2>7. Good(m, Op31(48, m, i))
    BY <1>3, Op31Is
  <2>8. Good(m, Op31(1072, m, i))
    BY <1>3, Op31Is
  <2> QED
    BY <1>8, <2>1, <2>2, <2>3, <2>4, <2>5, <2>6, <2>7, <2>8
<1>9. CASE key \in {46, 558, 174, 302, 814, 430}
  <2>1. Good(m, Op31(46, m, i))
    BY <1>4, Op31Is
  <2>2. Good(m, Op31(558, m, i))
    BY <1>4, Op31Is
  <2>3. Good(m, Op31(174, m, i))
    BY <1>4, Op31Is
  <2>4. Good(m, Op31(302, m, i))
    BY <1>4, Op31Is
  <2>5. Good(m, Op31(814, m, i))
    BY <1>4, Op31Is
  <2>6. Good(m, Op31(430, m, i))
    BY <1>4, Op31Is
  <2> QED
    BY <1>9, <2>1, <2>2, <2>3, <2>4, <2>5, <2>6
<1>10. CASE key \in {0, 64, 678, 934}
  <2>1. Good(m, Op31(0, m, i))
    <3>1. Op31(0, m, i) = gen_cmp(m, i, FALSE, FALSE)
      BY EvenKeys, Lists DEF Op31
    <3> QED
      BY <1>5, <3>1, Zenon
  <2>2. Good(m, Op31(64, m, i))
    <3>1. Op31(64, m, i) = gen_cmp(m, i, FALSE, TRUE)
      BY EvenKeys, Lists DEF Op31
    <3> QED
      BY <1>5, <3>1, Zenon
  <2>3. Good(m, Op31(678, m, i))
    <3> DEFINE done == Op31(678, m, i)
    <3>1. done = gen_mspr(m, i, FALSE)
      BY EvenKeys, Lists DEF Op31
    <3> HIDE DEF done
    <3>2. Good(m, done)
      BY <1>5, <3>1, Zenon
    <3> QED
      BY <3>2 DEF done
  <2>4. Good(m, Op31(934, m, i))
    <3> DEFINE done == Op31(934, m, i)
    <3>1. done = gen_mspr(m, i, TRUE)
      BY EvenKeys, Lists DEF Op31
    <3> HIDE DEF done
    <3>2. Good(m, done)
      BY <1>5, <3>1, Zenon
    <3> QED
      BY <3>2 DEF done
  <2> QED
    BY <1>10, <2>1, <2>2, <2>3, <2>4
<1>11. CASE key \in {1648, 1649}
  <2>1. Good(m, Op31(1648, m, i))
    BY <1>6, Op31Is
  <2>2. Good(m, Op31(1649, m, i))
    BY <1>6, Op31Is
  <2> QED
    BY <1>11, <2>1, <2>2
<1>12. \/ key \in {532, 533, 80, 81, 470, 471}
       \/ key \in {56, 57, 888, 889, 632, 633, 48, 1072}
       \/ key \in {46, 558, 174, 302, 814, 430}
       \/ key \in {0, 64, 678, 934}
       \/ key \in {1648, 1649}
  BY Lists DEF PPC_OP31, Recorded31
<1> QED
  BY <1>7, <1>8, <1>9, <1>10, <1>11, <1>12

LEMMA DoOpGood ==
  ASSUME NEW m, IsMachine(m), Aligned4(m), NEW i, IsInsn(i)
  PROVE  Good(m, do_op31(m, i)) /\ Good(m, do_op19(m, i))
<1>1. Good(m, ppc_illegal(m)) /\ Good(m, bclr(m, i)) /\ Good(m, bcctr(m, i))
  BY IllegalGood, BranchGood
<1>2. Good(m, do_op31(m, i))
  BY <1>1, Op31Good DEF do_op31
<1>3. Good(m, do_op19(m, i))
  BY <1>1 DEF do_op19
<1> QED
  BY <1>2, <1>3

\* The primary list, an entry a line.
LEMMA PrimaryIs ==
  /\ \A m, i : Primary(7, m, i) = gen_mulli(m, i)
  /\ \A m, i : Primary(10, m, i) = gen_cmp(m, i, TRUE, TRUE)
  /\ \A m, i : Primary(11, m, i) = gen_cmp(m, i, TRUE, FALSE)
  /\ \A m, i : Primary(14, m, i) = gen_addi(m, i, FALSE)
  /\ \A m, i : Primary(15, m, i) = gen_addi(m, i, TRUE)
  /\ \A m, i : Primary(16, m, i) = gen_bc(m, i)
  /\ \A m, i : Primary(18, m, i) = gen_b(m, i)
  /\ \A m, i : Primary(19, m, i) = do_op19(m, i)
  /\ \A m, i : Primary(21, m, i) = gen_rlwinm(m, i)
  /\ \A m, i : Primary(24, m, i) = gen_logic_d(m, i, "OR", FALSE, FALSE)
  /\ \A m, i : Primary(25, m, i) = gen_logic_d(m, i, "OR", TRUE, FALSE)
  /\ \A m, i : Primary(26, m, i) = gen_logic_d(m, i, "XOR", FALSE, FALSE)
  /\ \A m, i : Primary(28, m, i) = gen_logic_d(m, i, "AND", FALSE, TRUE)
  /\ \A m, i : Primary(31, m, i) = do_op31(m, i)
  /\ \A m, i : Primary(32, m, i) = gen_load_d(m, i, 4, FALSE)
  /\ \A m, i : Primary(33, m, i) = gen_load_d(m, i, 4, TRUE)
  /\ \A m, i : Primary(34, m, i) = gen_load_d(m, i, 1, FALSE)
  /\ \A m, i : Primary(36, m, i) = gen_store_d(m, i, 4, FALSE)
  /\ \A m, i : Primary(37, m, i) = gen_store_d(m, i, 4, TRUE)
  /\ \A m, i : Primary(38, m, i) = gen_store_d(m, i, 1, FALSE)
  /\ \A m, i : Primary(40, m, i) = gen_load_d(m, i, 2, FALSE)
  /\ \A m, i : Primary(44, m, i) = gen_store_d(m, i, 2, FALSE)
BY DEF Primary

LEMMA PrimaryGood ==
  ASSUME NEW m, IsMachine(m), Aligned4(m), NEW i, IsInsn(i), NEW key \in PPC_PRIMARY
  PROVE  Good(m, Primary(key, m, i))
<1>1. /\ Good(m, gen_mulli(m, i)) /\ Good(m, gen_rlwinm(m, i))
      /\ Good(m, gen_addi(m, i, FALSE)) /\ Good(m, gen_addi(m, i, TRUE))
      /\ Good(m, gen_cmp(m, i, TRUE, TRUE)) /\ Good(m, gen_cmp(m, i, TRUE, FALSE))
      /\ Good(m, gen_b(m, i)) /\ Good(m, gen_bc(m, i))
      /\ Good(m, do_op19(m, i)) /\ Good(m, do_op31(m, i))
  BY MulliGood, RlwinmGood, AddiGood, CmpGood, BranchGood, DoOpGood
<1>2. /\ Good(m, gen_logic_d(m, i, "OR", FALSE, FALSE)) /\ Good(m, gen_logic_d(m, i, "OR", TRUE, FALSE))
      /\ Good(m, gen_logic_d(m, i, "XOR", FALSE, FALSE)) /\ Good(m, gen_logic_d(m, i, "AND", FALSE, TRUE))
  BY LogicDGood
<1>3. ASSUME NEW w \in {1, 2, 4}, NEW u \in BOOLEAN
      PROVE  Good(m, gen_load_d(m, i, w, u)) /\ Good(m, gen_store_d(m, i, w, u))
  BY MemoryGood
<1>4. CASE key \in {32, 33, 34, 36, 37, 38, 40, 44}
  <2>1. Good(m, Primary(32, m, i))
    BY <1>3, PrimaryIs
  <2>2. Good(m, Primary(33, m, i))
    BY <1>3, PrimaryIs
  <2>3. Good(m, Primary(34, m, i))
    BY <1>3, PrimaryIs
  <2>4. Good(m, Primary(36, m, i))
    BY <1>3, PrimaryIs
  <2>5. Good(m, Primary(37, m, i))
    BY <1>3, PrimaryIs
  <2>6. Good(m, Primary(38, m, i))
    BY <1>3, PrimaryIs
  <2>7. Good(m, Primary(40, m, i))
    BY <1>3, PrimaryIs
  <2>8. Good(m, Primary(44, m, i))
    BY <1>3, PrimaryIs
  <2> QED
    BY <1>4, <2>1, <2>2, <2>3, <2>4, <2>5, <2>6, <2>7, <2>8
<1>5. CASE key \in {7, 10, 11, 14, 15, 16, 18, 19, 21, 31}
  <2>1. Good(m, Primary(7, m, i))
    <3>1. Primary(7, m, i) = gen_mulli(m, i)
      BY DEF Primary
    <3> QED
      BY <1>1, <3>1, Zenon
  <2>2. Good(m, Primary(10, m, i))
    <3>1. Primary(10, m, i) = gen_cmp(m, i, TRUE, TRUE)
      BY DEF Primary
    <3> QED
      BY <1>1, <3>1, Zenon
  <2>3. Good(m, Primary(11, m, i))
    <3>1. Primary(11, m, i) = gen_cmp(m, i, TRUE, FALSE)
      BY DEF Primary
    <3> QED
      BY <1>1, <3>1, Zenon
  <2>4. Good(m, Primary(14, m, i))
    <3>1. Primary(14, m, i) = gen_addi(m, i, FALSE)
      BY DEF Primary
    <3> QED
      BY <1>1, <3>1, Zenon
  <2>5. Good(m, Primary(15, m, i))
    <3>1. Primary(15, m, i) = gen_addi(m, i, TRUE)
      BY DEF Primary
    <3> QED
      BY <1>1, <3>1, Zenon
  <2>6. Good(m, Primary(16, m, i))
    <3>1. Primary(16, m, i) = gen_bc(m, i)
      BY DEF Primary
    <3> QED
      BY <1>1, <3>1, Zenon
  <2>7. Good(m, Primary(18, m, i))
    <3>1. Primary(18, m, i) = gen_b(m, i)
      BY DEF Primary
    <3> QED
      BY <1>1, <3>1, Zenon
  <2>8. Good(m, Primary(19, m, i))
    <3>1. Primary(19, m, i) = do_op19(m, i)
      BY DEF Primary
    <3> QED
      BY <1>1, <3>1, Zenon
  <2>9. Good(m, Primary(21, m, i))
    <3>1. Primary(21, m, i) = gen_rlwinm(m, i)
      BY DEF Primary
    <3> QED
      BY <1>1, <3>1, Zenon
  <2>10. Good(m, Primary(31, m, i))
    <3>1. Primary(31, m, i) = do_op31(m, i)
      BY DEF Primary
    <3> QED
      BY <1>1, <3>1, Zenon
  <2> QED
    BY <1>5, <2>1, <2>2, <2>3, <2>4, <2>5, <2>6, <2>7, <2>8, <2>9, <2>10
<1>6. CASE key \in {24, 25, 26, 28}
  <2>1. CASE key = 24
    BY <1>2, <2>1, PrimaryIs
  <2>2. CASE key = 25
    BY <1>2, <2>2, PrimaryIs
  <2>3. CASE key = 26
    BY <1>2, <2>3, PrimaryIs
  <2>4. CASE key = 28
    BY <1>2, <2>4, PrimaryIs
  <2> QED
    BY <1>6, <2>1, <2>2, <2>3, <2>4
<1>7. \/ key \in {32, 33, 34, 36, 37, 38, 40, 44}
      \/ key \in {7, 10, 11, 14, 15, 16, 18, 19, 21, 31}
      \/ key \in {24, 25, 26, 28}
  BY DEF PPC_PRIMARY
<1> QED
  BY <1>4, <1>5, <1>6, <1>7

\* A whole instruction, from the machine that fetched it.
LEMMA PastFetchGood ==
  ASSUME NEW m, IsMachine(m), Aligned4(m)
  PROVE  Good(m, PastFetch(m)) /\ PastFetch(m) = [m EXCEPT !.pc = Add(m.pc, 4)]
<1>1. m.pc \in Int /\ m.pc % 4 = 0 /\ 4 \in Int /\ 4 % 4 = 0
  BY RegType DEF Aligned4
<1>2. Add(m.pc, 4) \in Long /\ Add(m.pc, 4) % 4 = 0
  BY <1>1, AddAligned
<1>3. PastFetch(m) = [m EXCEPT !.pc = Add(m.pc, 4)]
  BY DEF PastFetch
<1> QED
  BY <1>2, <1>3, PcGood

LEMMA ExecGood ==
  ASSUME NEW m, IsMachine(m), Aligned4(m), NEW i, IsInsn(i)
  PROVE  Good(m, Exec(m, i))
<1>1. Good(m, PastFetch(m)) /\ IsMachine(PastFetch(m)) /\ Aligned4(PastFetch(m))
  BY PastFetchGood, GoodIs
<1>2. CASE i.op \in PPC_PRIMARY
  BY <1>1, <1>2, PrimaryGood, GoodThen DEF Exec
<1>3. CASE i.op \notin PPC_PRIMARY
  BY <1>1, <1>3, IllegalGood, GoodThen DEF Exec
<1> QED
  BY <1>2, <1>3

\* Fetching at an aligned address.
LEMMA FetchType ==
  ASSUME NEW m, IsMachine(m), NEW a \in Nat, a % 4 = 0
  PROVE  IsInsn(Fetch(m, a))
<1>1. Fast(a, 4) /\ a \in Int
  BY AlignedIsFast
<1>2. Load(m.ram, a, 4) \in Long
  BY <1>1, RegType, LoadType
<1> QED
  BY <1>2, PpcAssumption DEF Fetch
=============================================================================
