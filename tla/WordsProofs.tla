----------------------------- MODULE WordsProofs -----------------------------
(***************************************************************************)
(* What the models of all parts rest on: the operators on bits stay within *)
(* the width of their operands, and the natural numbers admit induction    *)
(* over sets.                                                              *)
(***************************************************************************)
EXTENDS Words, WellFoundedInduction, TLAPS

-----------------------------------------------------------------------------
(* Words.                                                                    *)

LEMMA WordIsNumber ==
  ASSUME NEW v \in Word16
  PROVE  v \in Int /\ 0 <= v /\ v <= 65535
  BY DEF Word16

LEMMA NumberIsWord ==
  ASSUME NEW n \in Int, 0 <= n, n <= 65535
  PROVE  n \in Word16
<1>1. n % 65536 \in Word16
  BY DEF Word16
<1>2. n % 65536 = n
  OBVIOUS
<1> QED
  BY <1>1, <1>2

-----------------------------------------------------------------------------
(* Bits.                                                                     *)

\* What the common bits of x and y can be, and the bits of either, where both
\* have those of m at most.
Within(common, x, y, m) ==
    /\ common \in Int /\ 0 <= common /\ common <= x /\ common <= y
    /\ x + y - common <= m

LEMMA Common1Within ==
  ASSUME NEW a \in Int, NEW b \in Int
  PROVE  Within(Common1(a, b), a % 2, b % 2, 1)
<1>1. a % 2 \in {0, 1} /\ b % 2 \in {0, 1}
  OBVIOUS
<1> QED
  BY <1>1 DEF Common1, Within

LEMMA Common2Within ==
  ASSUME NEW a \in Int, NEW b \in Int
  PROVE  Within(Common2(a, b), a % 4, b % 4, 3)
<1> DEFINE low  == Common1(a, b)
           high == Common1(a \div 2, b \div 2)
<1>1. a \div 2 \in Int /\ b \div 2 \in Int
  OBVIOUS
<1>2. /\ Within(low, a % 2, b % 2, 1)
      /\ Within(high, (a \div 2) % 2, (b \div 2) % 2, 1)
  BY <1>1, Common1Within
<1>3. /\ a % 4 = (a % 2) + 2 * ((a \div 2) % 2)
      /\ b % 4 = (b % 2) + 2 * ((b \div 2) % 2)
  OBVIOUS
<1>4. /\ a % 2 \in Int /\ b % 2 \in Int
      /\ (a \div 2) % 2 \in Int /\ (b \div 2) % 2 \in Int
  BY <1>1
<1>5. Common2(a, b) = low + 2 * high
  BY DEF Common2
<1> HIDE DEF low, high
<1> QED
  BY <1>2, <1>3, <1>4, <1>5 DEF Within

LEMMA Common4Within ==
  ASSUME NEW a \in Int, NEW b \in Int
  PROVE  Within(Common4(a, b), a % 16, b % 16, 15)
<1> DEFINE low  == Common2(a, b)
           high == Common2(a \div 4, b \div 4)
<1>1. a \div 4 \in Int /\ b \div 4 \in Int
  OBVIOUS
<1>2. /\ Within(low, a % 4, b % 4, 3)
      /\ Within(high, (a \div 4) % 4, (b \div 4) % 4, 3)
  BY <1>1, Common2Within
<1>3. /\ a % 16 = (a % 4) + 4 * ((a \div 4) % 4)
      /\ b % 16 = (b % 4) + 4 * ((b \div 4) % 4)
  OBVIOUS
<1>4. /\ a % 4 \in Int /\ b % 4 \in Int
      /\ (a \div 4) % 4 \in Int /\ (b \div 4) % 4 \in Int
  BY <1>1
<1>5. Common4(a, b) = low + 4 * high
  BY DEF Common4
<1> HIDE DEF low, high
<1> QED
  BY <1>2, <1>3, <1>4, <1>5 DEF Within

LEMMA Common8Within ==
  ASSUME NEW a \in Int, NEW b \in Int
  PROVE  Within(Common8(a, b), a % 256, b % 256, 255)
<1> DEFINE low  == Common4(a, b)
           high == Common4(a \div 16, b \div 16)
<1>1. a \div 16 \in Int /\ b \div 16 \in Int
  OBVIOUS
<1>2. /\ Within(low, a % 16, b % 16, 15)
      /\ Within(high, (a \div 16) % 16, (b \div 16) % 16, 15)
  BY <1>1, Common4Within
<1>3. /\ a % 256 = (a % 16) + 16 * ((a \div 16) % 16)
      /\ b % 256 = (b % 16) + 16 * ((b \div 16) % 16)
  OBVIOUS
<1>4. /\ a % 16 \in Int /\ b % 16 \in Int
      /\ (a \div 16) % 16 \in Int /\ (b \div 16) % 16 \in Int
  BY <1>1
<1>5. Common8(a, b) = low + 16 * high
  BY DEF Common8
<1> HIDE DEF low, high
<1> QED
  BY <1>2, <1>3, <1>4, <1>5 DEF Within

LEMMA Common16Within ==
  ASSUME NEW a \in Int, NEW b \in Int
  PROVE  Within(Common16(a, b), a % 65536, b % 65536, 65535)
<1> DEFINE low  == Common8(a, b)
           high == Common8(a \div 256, b \div 256)
<1>1. a \div 256 \in Int /\ b \div 256 \in Int
  OBVIOUS
<1>2. /\ Within(low, a % 256, b % 256, 255)
      /\ Within(high, (a \div 256) % 256, (b \div 256) % 256, 255)
  BY <1>1, Common8Within
<1>3. /\ a % 65536 = (a % 256) + 256 * ((a \div 256) % 256)
      /\ b % 65536 = (b % 256) + 256 * ((b \div 256) % 256)
  OBVIOUS
<1>4. /\ a % 256 \in Int /\ b % 256 \in Int
      /\ (a \div 256) % 256 \in Int /\ (b \div 256) % 256 \in Int
  BY <1>1
<1>5. Common16(a, b) = low + 256 * high
  BY DEF Common16
<1> HIDE DEF low, high
<1> QED
  BY <1>2, <1>3, <1>4, <1>5 DEF Within

\* & of words is one, and so are | and ^ (OP2 of expressions, the ALUs of cosi
\* and helium).
LEMMA CommonOfNone == Common8(0, 0) = 0
<1>1. 0 \div 16 = 0 /\ 0 \div 4 = 0 /\ 0 \div 2 = 0 /\ 0 % 2 = 0
  OBVIOUS
<1>2. Common1(0, 0) = 0
  BY <1>1 DEF Common1
<1>3. Common2(0, 0) = 0
  BY <1>1, <1>2 DEF Common2
<1>4. Common4(0, 0) = 0
  BY <1>1, <1>3 DEF Common4
<1> QED
  BY <1>1, <1>4 DEF Common8

LEMMA BitsOfWords ==
  ASSUME NEW a \in Word16, NEW b \in Word16
  PROVE  BitAnd(a, b) \in Word16 /\ BitOr(a, b) \in Word16 /\ BitXor(a, b) \in Word16
<1>1. a \in Int /\ 0 <= a /\ a <= 65535 /\ b \in Int /\ 0 <= b /\ b <= 65535
  BY WordIsNumber
<1>2. a \div 65536 = 0 /\ b \div 65536 = 0 /\ ~(a < 0 /\ b < 0)
  BY <1>1
<1>3. CommonSign(a, b) = 0
  BY <1>2 DEF CommonSign
<1> DEFINE c == Common16(a, b)
<1>4. BitAnd(a, b) = c + 65536 * (0 + 256 * 0)
  BY <1>2, <1>3, CommonOfNone DEF BitAnd
<1>5. a % 65536 = a /\ b % 65536 = b
  BY <1>1
<1>6. Within(c, a, b, 65535)
  BY <1>1, <1>5, Common16Within
<1> HIDE DEF c
<1>7. c \in Int /\ 0 <= c /\ c <= a /\ c <= b /\ a + b - c <= 65535
  BY <1>6 DEF Within
<1>8. BitAnd(a, b) = c
  BY <1>4, <1>7
<1>9. BitOr(a, b) = a + b - c /\ BitXor(a, b) = a + b - 2 * c
  BY <1>8 DEF BitOr, BitXor
<1>10. c <= 65535 /\ a + b - c \in Int /\ 0 <= a + b - c
  BY <1>1, <1>7
<1>11. a + b - 2 * c \in Int /\ 0 <= a + b - 2 * c /\ a + b - 2 * c <= 65535
  BY <1>1, <1>7
<1> QED
  BY <1>7, <1>8, <1>9, <1>10, <1>11, NumberIsWord
-----------------------------------------------------------------------------
(* Induction, by the least number that is not in a set: a theorem that takes *)
(* the induction hypothesis as an operator cannot be used with an operator.  *)

LEMMA LeastNumber ==
  ASSUME NEW T \in SUBSET Nat, T # {}
  PROVE  \E x \in T : \A y \in T : x <= y
<1> DEFINE Less == OpToRel(<, Nat)
<1>1. IsWellFoundedOn(Less, Nat)
  BY NatLessThanWellFounded
<1>2. \A x, y \in Nat : x < y => <<x, y>> \in Less
  BY DEF OpToRel
<1> HIDE DEF Less
<1>3. PICK x \in T : \A y \in T : ~(<<y, x>> \in Less)
  BY <1>1, WFMin
<1>4. \A y \in T : ~(y < x)
  BY <1>2, <1>3
<1>5. \A y \in T : x <= y
  BY <1>4
<1> QED
  BY <1>5

LEMMA InductionOverSet ==
  ASSUME NEW T \in SUBSET Nat, 0 \in T, \A n \in T : n + 1 \in T
  PROVE  T = Nat
<1> SUFFICES ASSUME Nat \ T # {} PROVE FALSE
  OBVIOUS
<1>1. PICK m \in Nat \ T : \A y \in Nat \ T : m <= y
  BY LeastNumber
<1>2. m # 0 /\ m - 1 \in Nat
  OBVIOUS
<1>3. m - 1 \in T
  BY <1>1, <1>2
<1>4. (m - 1) + 1 \in T
  BY <1>3
<1> QED
  BY <1>2, <1>4
=============================================================================
