----------------------------- MODULE WrittenProofs -----------------------------
(***************************************************************************)
(* What cosi does with the words of sasm is what the program says, for all *)
(* programs, as long as a program runs from one of its instructions to the *)
(* next, leaves their words alone, and has operands that fit: the          *)
(* refinement of Isa to WrittenProgram.                                    *)
(*                                                                         *)
(* In this order: numbers and the sets of their bits, so that what is      *)
(* computed is the same; which fields of a word select which instruction;  *)
(* the fields, operands and targets of the word at ip, from the formats of *)
(* sasm; the conditions, with what the flags say of the last result; and   *)
(* then each instruction of WrittenProgram by the one of cosi.             *)
(***************************************************************************)
EXTENDS IsaProofs

-----------------------------------------------------------------------------
(* Numbers as sets of bits.                                                  *)

Places    == 0 .. 15
Has(s, k) == IF k \in s THEN 1 ELSE 0
Sum2(s, k)  == Has(s, k) + 2 * Has(s, k + 1)
Sum4(s, k)  == Sum2(s, k) + 4 * Sum2(s, k + 2)
Sum8(s, k)  == Sum4(s, k) + 16 * Sum4(s, k + 4)
Sum16(s)    == Sum8(s, 0) + 256 * Sum8(s, 8)

LEMMA HasIsNumber ==
  ASSUME NEW s, NEW k
  PROVE  Has(s, k) \in Int /\ 0 <= Has(s, k) /\ Has(s, k) <= 1
  BY DEF Has

LEMMA Sum2IsNumber ==
  ASSUME NEW s, NEW k \in Int
  PROVE  Sum2(s, k) \in Int /\ 0 <= Sum2(s, k) /\ Sum2(s, k) <= 3
  BY HasIsNumber DEF Sum2

LEMMA Sum4IsNumber ==
  ASSUME NEW s, NEW k \in Int
  PROVE  Sum4(s, k) \in Int /\ 0 <= Sum4(s, k) /\ Sum4(s, k) <= 15
  BY Sum2IsNumber DEF Sum4

LEMMA Sum8IsNumber ==
  ASSUME NEW s, NEW k \in Int
  PROVE  Sum8(s, k) \in Int /\ 0 <= Sum8(s, k) /\ Sum8(s, k) <= 255
  BY Sum4IsNumber DEF Sum8

LEMMA SumIsNumber ==
  ASSUME NEW s
  PROVE  Sum16(s) \in Int /\ 0 <= Sum16(s) /\ Sum16(s) <= 65535
  BY Sum8IsNumber DEF Sum16

Balanced(p, q, r, t) == p + q = r + t

LEMMA Weighted ==
  ASSUME NEW p \in Int, NEW q \in Int, NEW r \in Int, NEW t \in Int, Balanced(p, q, r, t),
         NEW a \in Int, NEW b \in Int, NEW c \in Int, NEW d \in Int, Balanced(a, b, c, d)
  PROVE  /\ Balanced(p + 2 * a, q + 2 * b, r + 2 * c, t + 2 * d)
         /\ Balanced(p + 4 * a, q + 4 * b, r + 4 * c, t + 4 * d)
         /\ Balanced(p + 16 * a, q + 16 * b, r + 16 * c, t + 16 * d)
  BY DEF Balanced

LEMMA WeightedBytes ==
  ASSUME NEW p \in Int, NEW q \in Int, NEW r \in Int, NEW t \in Int, Balanced(p, q, r, t),
         NEW a \in Int, NEW b \in Int, NEW c \in Int, NEW d \in Int, Balanced(a, b, c, d)
  PROVE  Balanced(p + 256 * a, q + 256 * b, r + 256 * c, t + 256 * d)
  BY DEF Balanced

\* What holds of every place holds of the sums.
LEMMA SumsAdd ==
  ASSUME NEW P, NEW Q, NEW R, NEW T,
         \A k \in Int : Balanced(Has(P, k), Has(Q, k), Has(R, k), Has(T, k))
  PROVE  Balanced(Sum16(P), Sum16(Q), Sum16(R), Sum16(T))
<1>1. \A k \in Int : Balanced(Has(P, k), Has(Q, k), Has(R, k), Has(T, k))
  OBVIOUS
<1>2. ASSUME NEW k \in Int
      PROVE  Balanced(Sum2(P, k), Sum2(Q, k), Sum2(R, k), Sum2(T, k))
  <2> DEFINE l == k + 1
  <2>1. l \in Int
    OBVIOUS
  <2> HIDE DEF l
  <2>2. Has(P, k) \in Int /\ Has(P, l) \in Int
    BY <2>1, HasIsNumber
  <2>3. Has(Q, k) \in Int /\ Has(Q, l) \in Int
    BY <2>1, HasIsNumber
  <2>4. Has(R, k) \in Int /\ Has(R, l) \in Int
    BY <2>1, HasIsNumber
  <2>5. Has(T, k) \in Int /\ Has(T, l) \in Int
    BY <2>1, HasIsNumber
  <2>6. Balanced(Has(P, k), Has(Q, k), Has(R, k), Has(T, k))
        /\ Balanced(Has(P, l), Has(Q, l), Has(R, l), Has(T, l))
    BY <2>1, <1>1
  <2>7. Balanced(Has(P, k) + 2 * Has(P, l), Has(Q, k) + 2 * Has(Q, l), Has(R, k) + 2 * Has(R, l), Has(T, k) + 2 * Has(T, l))
    BY <2>2, <2>3, <2>4, <2>5, <2>6, Weighted
  <2> QED
    BY <2>7 DEF Sum2, l
<1>3. ASSUME NEW k \in Int
      PROVE  Balanced(Sum4(P, k), Sum4(Q, k), Sum4(R, k), Sum4(T, k))
  <2> DEFINE l == k + 2
  <2>1. l \in Int
    OBVIOUS
  <2> HIDE DEF l
  <2>2. Sum2(P, k) \in Int /\ Sum2(P, l) \in Int
    BY <2>1, Sum2IsNumber
  <2>3. Sum2(Q, k) \in Int /\ Sum2(Q, l) \in Int
    BY <2>1, Sum2IsNumber
  <2>4. Sum2(R, k) \in Int /\ Sum2(R, l) \in Int
    BY <2>1, Sum2IsNumber
  <2>5. Sum2(T, k) \in Int /\ Sum2(T, l) \in Int
    BY <2>1, Sum2IsNumber
  <2>6. Balanced(Sum2(P, k), Sum2(Q, k), Sum2(R, k), Sum2(T, k))
        /\ Balanced(Sum2(P, l), Sum2(Q, l), Sum2(R, l), Sum2(T, l))
    BY <2>1, <1>2
  <2>7. Balanced(Sum2(P, k) + 4 * Sum2(P, l), Sum2(Q, k) + 4 * Sum2(Q, l), Sum2(R, k) + 4 * Sum2(R, l), Sum2(T, k) + 4 * Sum2(T, l))
    BY <2>2, <2>3, <2>4, <2>5, <2>6, Weighted
  <2> QED
    BY <2>7 DEF Sum4, l
<1>4. ASSUME NEW k \in Int
      PROVE  Balanced(Sum8(P, k), Sum8(Q, k), Sum8(R, k), Sum8(T, k))
  <2> DEFINE l == k + 4
  <2>1. l \in Int
    OBVIOUS
  <2> HIDE DEF l
  <2>2. Sum4(P, k) \in Int /\ Sum4(P, l) \in Int
    BY <2>1, Sum4IsNumber
  <2>3. Sum4(Q, k) \in Int /\ Sum4(Q, l) \in Int
    BY <2>1, Sum4IsNumber
  <2>4. Sum4(R, k) \in Int /\ Sum4(R, l) \in Int
    BY <2>1, Sum4IsNumber
  <2>5. Sum4(T, k) \in Int /\ Sum4(T, l) \in Int
    BY <2>1, Sum4IsNumber
  <2>6. Balanced(Sum4(P, k), Sum4(Q, k), Sum4(R, k), Sum4(T, k))
        /\ Balanced(Sum4(P, l), Sum4(Q, l), Sum4(R, l), Sum4(T, l))
    BY <2>1, <1>3
  <2>7. Balanced(Sum4(P, k) + 16 * Sum4(P, l), Sum4(Q, k) + 16 * Sum4(Q, l), Sum4(R, k) + 16 * Sum4(R, l), Sum4(T, k) + 16 * Sum4(T, l))
    BY <2>2, <2>3, <2>4, <2>5, <2>6, Weighted
  <2> QED
    BY <2>7 DEF Sum8, l
<1> DEFINE Lower(s) == Sum8(s, 0)
           Upper(s) == Sum8(s, 8)
<1>5. \A s : Lower(s) \in Int /\ Upper(s) \in Int
  BY Sum8IsNumber
<1>6. Balanced(Lower(P), Lower(Q), Lower(R), Lower(T)) /\ Balanced(Upper(P), Upper(Q), Upper(R), Upper(T))
  BY <1>4
<1>7. \A s : Sum16(s) = Lower(s) + 256 * Upper(s)
  BY DEF Sum16
<1> HIDE DEF Lower, Upper
<1>8. /\ Lower(P) \in Int /\ Lower(Q) \in Int /\ Lower(R) \in Int /\ Lower(T) \in Int
      /\ Upper(P) \in Int /\ Upper(Q) \in Int /\ Upper(R) \in Int /\ Upper(T) \in Int
  BY <1>5
<1>9. Balanced(Lower(P) + 256 * Upper(P), Lower(Q) + 256 * Upper(Q), Lower(R) + 256 * Upper(R), Lower(T) + 256 * Upper(T))
  BY <1>6, <1>8, WeightedBytes
<1> QED
  BY <1>7, <1>9

LEMMA SumOfOne ==
  ASSUME NEW n \in Places
  PROVE  Sum16({n}) = 2^n /\ 2^n > 0 /\ 2^n \in Int
<1>1. n \in {0, 1, 2, 3, 4, 5, 6, 7, 8, 9, 10, 11, 12, 13, 14, 15}
  BY DEF Places
<1>2. \A k \in Int : Has({n}, k) = IF k = n THEN 1 ELSE 0
  BY DEF Has
<1> DEFINE s == {n}
<1> HIDE DEF s
<1>3. \A k \in Int : Has(s, k) = IF k = n THEN 1 ELSE 0
  BY <1>2 DEF s
<1>4. Sum16(s) = TwoTo(n)
  <2>1. CASE n = 0
    BY <1>3, <2>1 DEF TwoTo, Sum16, Sum8, Sum4, Sum2
  <2>2. CASE n = 1
    BY <1>3, <2>2 DEF TwoTo, Sum16, Sum8, Sum4, Sum2
  <2>3. CASE n = 2
    BY <1>3, <2>3 DEF TwoTo, Sum16, Sum8, Sum4, Sum2
  <2>4. CASE n = 3
    BY <1>3, <2>4 DEF TwoTo, Sum16, Sum8, Sum4, Sum2
  <2>5. CASE n = 4
    BY <1>3, <2>5 DEF TwoTo, Sum16, Sum8, Sum4, Sum2
  <2>6. CASE n = 5
    BY <1>3, <2>6 DEF TwoTo, Sum16, Sum8, Sum4, Sum2
  <2>7. CASE n = 6
    BY <1>3, <2>7 DEF TwoTo, Sum16, Sum8, Sum4, Sum2
  <2>8. CASE n = 7
    BY <1>3, <2>8 DEF TwoTo, Sum16, Sum8, Sum4, Sum2
  <2>9. CASE n = 8
    BY <1>3, <2>9 DEF TwoTo, Sum16, Sum8, Sum4, Sum2
  <2>10. CASE n = 9
    BY <1>3, <2>10 DEF TwoTo, Sum16, Sum8, Sum4, Sum2
  <2>11. CASE n = 10
    BY <1>3, <2>11 DEF TwoTo, Sum16, Sum8, Sum4, Sum2
  <2>12. CASE n = 11
    BY <1>3, <2>12 DEF TwoTo, Sum16, Sum8, Sum4, Sum2
  <2>13. CASE n = 12
    BY <1>3, <2>13 DEF TwoTo, Sum16, Sum8, Sum4, Sum2
  <2>14. CASE n = 13
    BY <1>3, <2>14 DEF TwoTo, Sum16, Sum8, Sum4, Sum2
  <2>15. CASE n = 14
    BY <1>3, <2>15 DEF TwoTo, Sum16, Sum8, Sum4, Sum2
  <2>16. CASE n = 15
    BY <1>3, <2>16 DEF TwoTo, Sum16, Sum8, Sum4, Sum2
  <2> QED
    BY <1>1, <2>1, <2>2, <2>3, <2>4, <2>5, <2>6, <2>7, <2>8, <2>9, <2>10, <2>11, <2>12, <2>13, <2>14,
       <2>15, <2>16
<1>5. TwoTo(n) > 0 /\ TwoTo(n) \in Int
  BY <1>1, Powers DEF PowersOfTwo
<1> QED
  BY <1>4, <1>5 DEF TwoTo, s

LEMMA SumOfNone == Sum16({}) = 0
<1> DEFINE s == {}
<1>1. \A k \in Int : Has(s, k) = 0
  BY DEF Has
<1> HIDE DEF s
<1>2. \A k \in Int : Sum2(s, k) = 0
  BY <1>1 DEF Sum2
<1>3. \A k \in Int : Sum4(s, k) = 0
  BY <1>2 DEF Sum4
<1>4. \A k \in Int : Sum8(s, k) = 0
  BY <1>3 DEF Sum8
<1> QED
  BY <1>4 DEF Sum16, s

\* A place less in the set is its power of two less in the sum.
LEMMA SumWithout ==
  ASSUME NEW s \in SUBSET Places, NEW n \in s
  PROVE  Sum16(s) = 2^n + Sum16(s \ {n}) /\ Sum16(s \ {n}) < Sum16(s)
<1>1. \A k \in Int : Balanced(Has(s, k), Has({}, k), Has({n}, k), Has(s \ {n}, k))
  BY DEF Has, Balanced
<1>2. Sum16(s) + Sum16({}) = Sum16({n}) + Sum16(s \ {n})
  <2> DEFINE r == s \ {n}
             e == {}
             o == {n}
  <2>1. \A k \in Int : Balanced(Has(s, k), Has(e, k), Has(o, k), Has(r, k))
    BY <1>1
  <2> HIDE DEF r, e, o
  <2>2. Balanced(Sum16(s), Sum16(e), Sum16(o), Sum16(r))
    BY <2>1, SumsAdd
  <2> QED
    BY <2>2 DEF r, e, o, Balanced
<1>3. Sum16({n}) = 2^n /\ 2^n > 0 /\ 2^n \in Int
  BY SumOfOne
<1> QED
  BY <1>2, <1>3, SumOfNone, SumIsNumber

\* What the recursive definition computes: there is a function that satisfies
\* it, and no two do.
LEMMA NumberIsSum ==
  ASSUME NEW s \in SUBSET Places
  PROVE  Written!Number[s] = Sum16(s)
<1> DEFINE Rec(f, x) == IF x = {} THEN 0 ELSE LET n == CHOOSE n \in x : TRUE IN 2^n + f[x \ {n}]
           G == [x \in SUBSET Places |-> Sum16(x)]
           N == Written!Number
<1>1. ASSUME NEW x \in SUBSET Places, x # {}
      PROVE  \E n \in x : /\ n = CHOOSE m \in x : TRUE
                          /\ x \ {n} \in SUBSET Places
                          /\ Sum16(x) = 2^n + Sum16(x \ {n}) /\ Sum16(x \ {n}) < Sum16(x)
  BY <1>1, SumWithout
<1>2. ASSUME NEW x \in SUBSET Places
      PROVE  Sum16(x) = Rec(G, x)
  BY <1>1, SumOfNone
<1>3. G = [x \in SUBSET Places |-> Rec(G, x)]
  BY <1>2
<1>4. N = CHOOSE f : f = [x \in SUBSET Places |-> Rec(f, x)]
  BY DEF Written!Number, Places
<1>5. N = [x \in SUBSET Places |-> Rec(N, x)]
  <2> HIDE DEF N, G
  <2> QED
    BY <1>3, <1>4
<1> HIDE DEF N, G
<1>6. \A x \in SUBSET Places : N[x] = Rec(N, x)
  BY <1>5
<1> HIDE DEF Rec
<1> DEFINE Bad == {x \in SUBSET Places : N[x] # Sum16(x)}
           T   == {Sum16(x) : x \in Bad}
<1>7. Bad = {}
  <2> SUFFICES ASSUME Bad # {} PROVE FALSE
    OBVIOUS
  <2>1. T \in SUBSET Nat /\ T # {}
    BY SumIsNumber
  <2>2. PICK m \in T : \A y \in T : m <= y
    BY <2>1, LeastNumber
  <2>3. PICK x \in Bad : m = Sum16(x)
    BY <2>2
  <2>4. x # {}
    BY <1>6, <2>3, SumOfNone DEF Rec
  <2>5. PICK n \in x : /\ n = CHOOSE k \in x : TRUE
                       /\ x \ {n} \in SUBSET Places
                       /\ Sum16(x) = 2^n + Sum16(x \ {n}) /\ Sum16(x \ {n}) < Sum16(x)
    BY <1>1, <2>3, <2>4
  <2>6. x \ {n} \notin Bad
    <3>1. SUFFICES ASSUME x \ {n} \in Bad PROVE FALSE
      OBVIOUS
    <3>2. Sum16(x \ {n}) \in T
      BY <3>1
    <3>3. Sum16(x) <= Sum16(x \ {n})
      BY <2>2, <2>3, <3>2
    <3> QED
      BY <2>5, <3>3, SumIsNumber
  <2>7. N[x \ {n}] = Sum16(x \ {n})
    BY <2>5, <2>6
  <2>8. N[x] = 2^n + N[x \ {n}]
    BY <1>6, <2>3, <2>4, <2>5 DEF Rec
  <2> QED
    BY <2>3, <2>5, <2>7, <2>8
<1> QED
  BY <1>7 DEF N

-----------------------------------------------------------------------------
(* Unions and differences of bits.                                           *)

LEMMA SumOfUnion ==
  ASSUME NEW A, NEW B
  PROVE  Sum16(A \union B) = Sum16(A) + Sum16(B) - Sum16(A \intersect B)
<1> DEFINE u == A \union B
           i == A \intersect B
<1>1. \A k \in Int : Balanced(Has(u, k), Has(i, k), Has(A, k), Has(B, k))
  BY DEF Has, Balanced
<1> HIDE DEF u, i
<1>2. Balanced(Sum16(u), Sum16(i), Sum16(A), Sum16(B))
  BY <1>1, SumsAdd
<1>3. /\ Sum16(u) \in Int /\ Sum16(i) \in Int
      /\ Sum16(A) \in Int /\ Sum16(B) \in Int
  BY SumIsNumber
<1>4. Sum16(u) = Sum16(A) + Sum16(B) - Sum16(i)
  BY <1>2, <1>3 DEF Balanced
<1> QED
  BY <1>4 DEF u, i

LEMMA SumOfDifference ==
  ASSUME NEW A, NEW B
  PROVE  Sum16(A \ B) = Sum16(A) - Sum16(A \intersect B)
<1> DEFINE u == A \ B
           i == A \intersect B
           e == {}
<1>1. \A k \in Int : Balanced(Has(u, k), Has(i, k), Has(A, k), Has(e, k))
  BY DEF Has, Balanced
<1> HIDE DEF u, i, e
<1>2. Balanced(Sum16(u), Sum16(i), Sum16(A), Sum16(e))
  BY <1>1, SumsAdd
<1>3. /\ Sum16(u) \in Int /\ Sum16(i) \in Int
      /\ Sum16(A) \in Int /\ Sum16(e) = 0
  BY SumIsNumber, SumOfNone DEF e
<1>4. Sum16(u) = Sum16(A) - Sum16(i)
  BY <1>2, <1>3 DEF Balanced
<1> QED
  BY <1>4 DEF u, i

LEMMA SumOfAll == Sum16(Places) = 65535
<1>1. \A k \in Int : 0 <= k /\ k <= 15 => Has(Places, k) = 1
  BY DEF Has, Places
<1>2. /\ Sum4(Places, 0) = 15 /\ Sum4(Places, 4) = 15
      /\ Sum4(Places, 8) = 15 /\ Sum4(Places, 12) = 15
  BY <1>1 DEF Sum4, Sum2
<1> QED
  BY <1>2 DEF Sum16, Sum8

-----------------------------------------------------------------------------
(* The operators on bits, from one bit to sixteen.                           *)

\* The bits of v from place k on.
From(v, k) == v \div TwoTo(k)

LEMMA FromTwice ==
  ASSUME NEW v \in Int
  PROVE  /\ \A k \in {0, 2, 4, 6, 8, 10, 12, 14} : From(v, k) \div 2 = From(v, k + 1)
         /\ \A k \in {0, 4, 8, 12} : From(v, k) \div 4 = From(v, k + 2)
         /\ \A k \in {0, 8} : From(v, k) \div 16 = From(v, k + 4)
         /\ From(v, 0) \div 256 = From(v, 8)
         /\ From(v, 0) = v
         /\ \A k \in Places : From(v, k) \in Int
<1>1. /\ From(v, 0) = v /\ From(v, 1) = v \div 2 /\ From(v, 2) = v \div 4 /\ From(v, 3) = v \div 8
      /\ From(v, 4) = v \div 16 /\ From(v, 5) = v \div 32 /\ From(v, 6) = v \div 64
      /\ From(v, 7) = v \div 128
  BY DEF From, TwoTo
<1>2. /\ From(v, 8) = v \div 256 /\ From(v, 9) = v \div 512 /\ From(v, 10) = v \div 1024
      /\ From(v, 11) = v \div 2048 /\ From(v, 12) = v \div 4096 /\ From(v, 13) = v \div 8192
      /\ From(v, 14) = v \div 16384 /\ From(v, 15) = v \div 32768
  BY DEF From, TwoTo
<1>3. /\ v \div 2 = From(v, 1) /\ From(v, 2) \div 2 = From(v, 3)
      /\ From(v, 4) \div 2 = From(v, 5) /\ From(v, 6) \div 2 = From(v, 7)
  BY <1>1
<1>4. /\ From(v, 8) \div 2 = From(v, 9) /\ From(v, 10) \div 2 = From(v, 11)
      /\ From(v, 12) \div 2 = From(v, 13) /\ From(v, 14) \div 2 = From(v, 15)
  BY <1>2
<1>5. /\ v \div 4 = From(v, 2) /\ From(v, 4) \div 4 = From(v, 6)
      /\ From(v, 8) \div 4 = From(v, 10) /\ From(v, 12) \div 4 = From(v, 14)
  BY <1>1, <1>2
<1>6. v \div 16 = From(v, 4) /\ From(v, 8) \div 16 = From(v, 12) /\ v \div 256 = From(v, 8)
  BY <1>1, <1>2
<1>7. ASSUME NEW k \in Places PROVE From(v, k) \in Int
  <2>1. k \in {0, 1, 2, 3, 4, 5, 6, 7, 8, 9, 10, 11, 12, 13, 14, 15}
    BY DEF Places
  <2> QED
    BY <1>1, <1>2, <2>1
<1>8. From(v, 0) = v
  BY <1>1
<1> QED
  BY <1>3, <1>4, <1>5, <1>6, <1>7, <1>8

LEMMA BitsAre ==
  ASSUME NEW v \in Int
  PROVE  /\ Written!Bits(v) \in SUBSET Places
         /\ \A k \in Places : Has(Written!Bits(v), k) = From(v, k) % 2
<1>1. \A k \in Places : k \in Written!Bits(v) <=> From(v, k) % 2 = 1
  BY DEF Written!Bits, Places, From, TwoTo
<1>2. ASSUME NEW k \in Places PROVE From(v, k) % 2 \in {0, 1}
  <2>1. From(v, k) \in Int
    BY FromTwice
  <2> QED
    BY <2>1
<1>3. Written!Bits(v) \in SUBSET Places
  BY DEF Written!Bits, Places
<1> QED
  BY <1>1, <1>2, <1>3 DEF Has

\* Common16 is the sum of the bits that both have.
LEMMA CommonBits ==
  ASSUME NEW a \in Int, NEW b \in Int
  PROVE  Common16(a, b) = Sum16(Written!Bits(a) \intersect Written!Bits(b))
<1> DEFINE A == Written!Bits(a)
           B == Written!Bits(b)
           s == A \intersect B
<1>1. ASSUME NEW k \in Places PROVE Common1(From(a, k), From(b, k)) = Has(s, k)
  <2>1. Has(A, k) = From(a, k) % 2 /\ Has(B, k) = From(b, k) % 2
    BY BitsAre
  <2>2. Has(s, k) = Has(A, k) * Has(B, k)
    BY DEF Has
  <2> QED
    BY <2>1, <2>2 DEF Common1
<1> HIDE DEF s
<1>2. ASSUME NEW k \in {0, 2, 4, 6, 8, 10, 12, 14}
      PROVE  Common2(From(a, k), From(b, k)) = Sum2(s, k)
  <2>1. k \in Places /\ k + 1 \in Places
    BY DEF Places
  <2>2. From(a, k) \div 2 = From(a, k + 1) /\ From(b, k) \div 2 = From(b, k + 1)
    BY FromTwice
  <2> QED
    BY <1>1, <2>1, <2>2 DEF Common2, Sum2
<1>3. ASSUME NEW k \in {0, 4, 8, 12}
      PROVE  Common4(From(a, k), From(b, k)) = Sum4(s, k)
  <2>1. k \in {0, 2, 4, 6, 8, 10, 12, 14} /\ k + 2 \in {0, 2, 4, 6, 8, 10, 12, 14}
    OBVIOUS
  <2>2. From(a, k) \div 4 = From(a, k + 2) /\ From(b, k) \div 4 = From(b, k + 2)
    BY FromTwice
  <2> QED
    BY <1>2, <2>1, <2>2 DEF Common4, Sum4
<1>4. ASSUME NEW k \in {0, 8}
      PROVE  Common8(From(a, k), From(b, k)) = Sum8(s, k)
  <2>1. k \in {0, 4, 8, 12} /\ k + 4 \in {0, 4, 8, 12}
    OBVIOUS
  <2>2. From(a, k) \div 16 = From(a, k + 4) /\ From(b, k) \div 16 = From(b, k + 4)
    BY FromTwice
  <2> QED
    BY <1>3, <2>1, <2>2 DEF Common8, Sum8
<1>5. /\ From(a, 0) = a /\ From(b, 0) = b
      /\ a \div 256 = From(a, 8) /\ b \div 256 = From(b, 8)
  BY FromTwice
<1>6. Common8(a, b) = Sum8(s, 0) /\ Common8(a \div 256, b \div 256) = Sum8(s, 8)
  BY <1>4, <1>5
<1> QED
  BY <1>6 DEF Common16, Sum16, s

\* A word is the sum of its bits.
LEMMA CommonSelf ==
  ASSUME NEW a \in Int
  PROVE  Common16(a, a) = a % 65536
<1>1. ASSUME NEW v \in Int PROVE Common1(v, v) = v % 2
  <2>1. v % 2 \in {0, 1}
    OBVIOUS
  <2> QED
    BY <2>1 DEF Common1
<1>2. ASSUME NEW v \in Int PROVE Common2(v, v) = v % 4
  <2>1. Common1(v, v) = v % 2 /\ Common1(v \div 2, v \div 2) = (v \div 2) % 2
    BY <1>1
  <2>2. v % 4 = (v % 2) + 2 * ((v \div 2) % 2)
    OBVIOUS
  <2>3. Common2(v, v) = (v % 2) + 2 * ((v \div 2) % 2)
    BY <2>1 DEF Common2
  <2> QED
    BY <2>2, <2>3
<1>3. ASSUME NEW v \in Int PROVE Common4(v, v) = v % 16
  <2>1. Common2(v, v) = v % 4 /\ Common2(v \div 4, v \div 4) = (v \div 4) % 4
    BY <1>2
  <2>2. v % 16 = (v % 4) + 4 * ((v \div 4) % 4)
    OBVIOUS
  <2>3. Common4(v, v) = (v % 4) + 4 * ((v \div 4) % 4)
    BY <2>1 DEF Common4
  <2> QED
    BY <2>2, <2>3
<1>4. ASSUME NEW v \in Int PROVE Common8(v, v) = v % 256
  <2>1. Common4(v, v) = v % 16 /\ Common4(v \div 16, v \div 16) = (v \div 16) % 16
    BY <1>3
  <2>2. v % 256 = (v % 16) + 16 * ((v \div 16) % 16)
    OBVIOUS
  <2>3. Common8(v, v) = (v % 16) + 16 * ((v \div 16) % 16)
    BY <2>1 DEF Common8
  <2> QED
    BY <2>2, <2>3
<1>5. Common8(a, a) = a % 256 /\ Common8(a \div 256, a \div 256) = (a \div 256) % 256
  BY <1>4
<1>6. a % 65536 = (a % 256) + 256 * ((a \div 256) % 256)
  OBVIOUS
<1>7. Common16(a, a) = (a % 256) + 256 * ((a \div 256) % 256)
  BY <1>5 DEF Common16
<1> QED
  BY <1>6, <1>7

LEMMA WordIsSum ==
  ASSUME NEW a \in Word16
  PROVE  Sum16(Written!Bits(a)) = a
<1>1. a \in Int /\ 0 <= a /\ a <= 65535
  BY WordIsNumber
<1>2. Common16(a, a) = a
  BY <1>1, CommonSelf
<1>3. Written!Bits(a) \intersect Written!Bits(a) = Written!Bits(a)
  OBVIOUS
<1> QED
  BY <1>1, <1>2, <1>3, CommonBits

LEMMA AndOfWords ==
  ASSUME NEW a \in Word16, NEW b \in Word16
  PROVE  BitAnd(a, b) = Common16(a, b) /\ Common16(a, b) \in Int
<1>1. a \in Int /\ 0 <= a /\ a <= 65535 /\ b \in Int /\ 0 <= b /\ b <= 65535
  BY WordIsNumber
<1>2. a \div 65536 = 0 /\ b \div 65536 = 0 /\ ~(a < 0 /\ b < 0)
  BY <1>1
<1>3. CommonSign(a, b) = 0
  BY <1>2 DEF CommonSign
<1>4. BitAnd(a, b) = Common16(a, b) + 65536 * (0 + 256 * 0)
  BY <1>2, <1>3, CommonOfNone DEF BitAnd
<1>5. Common16(a, b) \in Int
  BY <1>1, Common16Within DEF Within
<1> QED
  BY <1>4, <1>5

\* The complement of a word has the other bits.
LEMMA OtherBits ==
  ASSUME NEW b \in Word16
  PROVE  /\ Written!Bits(65535 - b) = Places \ Written!Bits(b)
         /\ 65535 - b \in Word16
<1>1. b \in Int /\ 0 <= b /\ b <= 65535
  BY WordIsNumber
<1> DEFINE c == 65535 - b
<1>2. c \in Int /\ 0 <= c /\ c <= 65535
  BY <1>1
<1>3. c \in Word16
  BY <1>2, NumberIsWord
<1>4. ASSUME NEW k \in Places
      PROVE  From(c, k) % 2 = 1 <=> From(b, k) % 2 # 1
  <2>1. k \in {0, 1, 2, 3, 4, 5, 6, 7, 8, 9, 10, 11, 12, 13, 14, 15}
    BY DEF Places
  <2>2. CASE k = 0
    BY <1>1, <2>2 DEF From, TwoTo
  <2>3. CASE k = 1
    BY <1>1, <2>3 DEF From, TwoTo
  <2>4. CASE k = 2
    BY <1>1, <2>4 DEF From, TwoTo
  <2>5. CASE k = 3
    BY <1>1, <2>5 DEF From, TwoTo
  <2>6. CASE k = 4
    BY <1>1, <2>6 DEF From, TwoTo
  <2>7. CASE k = 5
    BY <1>1, <2>7 DEF From, TwoTo
  <2>8. CASE k = 6
    BY <1>1, <2>8 DEF From, TwoTo
  <2>9. CASE k = 7
    BY <1>1, <2>9 DEF From, TwoTo
  <2>10. CASE k = 8
    BY <1>1, <2>10 DEF From, TwoTo
  <2>11. CASE k = 9
    BY <1>1, <2>11 DEF From, TwoTo
  <2>12. CASE k = 10
    BY <1>1, <2>12 DEF From, TwoTo
  <2>13. CASE k = 11
    BY <1>1, <2>13 DEF From, TwoTo
  <2>14. CASE k = 12
    BY <1>1, <2>14 DEF From, TwoTo
  <2>15. CASE k = 13
    BY <1>1, <2>15 DEF From, TwoTo
  <2>16. CASE k = 14
    BY <1>1, <2>16 DEF From, TwoTo
  <2>17. CASE k = 15
    BY <1>1, <2>17 DEF From, TwoTo
  <2> QED
    BY <2>1, <2>2, <2>3, <2>4, <2>5, <2>6, <2>7, <2>8, <2>9, <2>10, <2>11, <2>12, <2>13, <2>14, <2>15,
       <2>16, <2>17
<1>5. /\ \A k \in Places : k \in Written!Bits(b) <=> From(b, k) % 2 = 1
      /\ \A k \in Places : k \in Written!Bits(c) <=> From(c, k) % 2 = 1
      /\ Written!Bits(b) \in SUBSET Places /\ Written!Bits(c) \in SUBSET Places
  BY DEF Written!Bits, Places, From, TwoTo
<1>6. Written!Bits(c) = Places \ Written!Bits(b)
  BY <1>4, <1>5
<1> QED
  BY <1>3, <1>6

-----------------------------------------------------------------------------
(* Shifts, one place after the other.                                        *)

Up(s, b)   == {k \in Places : k - b \in s}
Down(s, b) == {k \in Places : k + b \in s}

LEMMA DoubledBits ==
  ASSUME NEW a \in Int
  PROVE  Written!Bits((2 * a) % 65536) = Up(Written!Bits(a), 1)
<1> DEFINE c == (2 * a) % 65536
<1>1. c \in Int
  OBVIOUS
<1>2. From(c, 0) % 2 # 1
  BY DEF From, TwoTo
<1>3. ASSUME NEW k \in Places, k # 0
      PROVE  From(c, k) % 2 = From(a, k - 1) % 2
  <2>1. k \in {1, 2, 3, 4, 5, 6, 7, 8, 9, 10, 11, 12, 13, 14, 15}
    BY <1>3 DEF Places
  <2>2. CASE k = 1
    BY <2>2 DEF From, TwoTo
  <2>3. CASE k = 2
    BY <2>3 DEF From, TwoTo
  <2>4. CASE k = 3
    BY <2>4 DEF From, TwoTo
  <2>5. CASE k = 4
    BY <2>5 DEF From, TwoTo
  <2>6. CASE k = 5
    BY <2>6 DEF From, TwoTo
  <2>7. CASE k = 6
    BY <2>7 DEF From, TwoTo
  <2>8. CASE k = 7
    BY <2>8 DEF From, TwoTo
  <2>9. CASE k = 8
    BY <2>9 DEF From, TwoTo
  <2>10. CASE k = 9
    BY <2>10 DEF From, TwoTo
  <2>11. CASE k = 10
    BY <2>11 DEF From, TwoTo
  <2>12. CASE k = 11
    BY <2>12 DEF From, TwoTo
  <2>13. CASE k = 12
    BY <2>13 DEF From, TwoTo
  <2>14. CASE k = 13
    BY <2>14 DEF From, TwoTo
  <2>15. CASE k = 14
    BY <2>15 DEF From, TwoTo
  <2>16. CASE k = 15
    BY <2>16 DEF From, TwoTo
  <2> QED
    BY <2>1, <2>2, <2>3, <2>4, <2>5, <2>6, <2>7, <2>8, <2>9, <2>10, <2>11, <2>12, <2>13, <2>14, <2>15, <2>16
<1> HIDE DEF c
<1>4. \A v : \A k \in Places : k \in Written!Bits(v) <=> From(v, k) % 2 = 1
  BY DEF Written!Bits, Places, From, TwoTo
<1>5. \A v : Written!Bits(v) \in SUBSET Places
  BY DEF Written!Bits, Places
<1>6. ASSUME NEW k \in Places
      PROVE  k \in Written!Bits(c) <=> k - 1 \in Written!Bits(a)
  <2>1. CASE k = 0
    <3>1. k - 1 \notin Places
      BY <2>1 DEF Places
    <3> QED
      BY <1>2, <1>4, <1>5, <2>1, <3>1
  <2>2. CASE k # 0
    <3>1. k - 1 \in Places
      BY <2>2 DEF Places
    <3> QED
      BY <1>3, <1>4, <2>2, <3>1
  <2> QED
    BY <2>1, <2>2
<1> QED
  BY <1>5, <1>6 DEF Up, c

LEMMA HalvedBits ==
  ASSUME NEW a \in Word16
  PROVE  Written!Bits(a \div 2) = Down(Written!Bits(a), 1)
<1> DEFINE c == a \div 2
<1>1. a \in Int /\ 0 <= a /\ a <= 65535
  BY WordIsNumber
<1>2. From(c, 15) % 2 # 1
  BY <1>1 DEF From, TwoTo
<1>3. ASSUME NEW k \in Places, k # 15
      PROVE  From(c, k) % 2 = From(a, k + 1) % 2
  <2>1. k \in {0, 1, 2, 3, 4, 5, 6, 7, 8, 9, 10, 11, 12, 13, 14}
    BY <1>3 DEF Places
  <2>2. CASE k = 0
    BY <1>1, <2>2 DEF From, TwoTo
  <2>3. CASE k = 1
    BY <1>1, <2>3 DEF From, TwoTo
  <2>4. CASE k = 2
    BY <1>1, <2>4 DEF From, TwoTo
  <2>5. CASE k = 3
    BY <1>1, <2>5 DEF From, TwoTo
  <2>6. CASE k = 4
    BY <1>1, <2>6 DEF From, TwoTo
  <2>7. CASE k = 5
    BY <1>1, <2>7 DEF From, TwoTo
  <2>8. CASE k = 6
    BY <1>1, <2>8 DEF From, TwoTo
  <2>9. CASE k = 7
    BY <1>1, <2>9 DEF From, TwoTo
  <2>10. CASE k = 8
    BY <1>1, <2>10 DEF From, TwoTo
  <2>11. CASE k = 9
    BY <1>1, <2>11 DEF From, TwoTo
  <2>12. CASE k = 10
    BY <1>1, <2>12 DEF From, TwoTo
  <2>13. CASE k = 11
    BY <1>1, <2>13 DEF From, TwoTo
  <2>14. CASE k = 12
    BY <1>1, <2>14 DEF From, TwoTo
  <2>15. CASE k = 13
    BY <1>1, <2>15 DEF From, TwoTo
  <2>16. CASE k = 14
    BY <1>1, <2>16 DEF From, TwoTo
  <2> QED
    BY <2>1, <2>2, <2>3, <2>4, <2>5, <2>6, <2>7, <2>8, <2>9, <2>10, <2>11, <2>12, <2>13, <2>14, <2>15, <2>16
<1> HIDE DEF c
<1>4. \A v : \A k \in Places : k \in Written!Bits(v) <=> From(v, k) % 2 = 1
  BY DEF Written!Bits, Places, From, TwoTo
<1>5. \A v : Written!Bits(v) \in SUBSET Places
  BY DEF Written!Bits, Places
<1>6. ASSUME NEW k \in Places
      PROVE  k \in Written!Bits(c) <=> k + 1 \in Written!Bits(a)
  <2>1. CASE k = 15
    <3>1. k + 1 \notin Places
      BY <2>1 DEF Places
    <3> QED
      BY <1>2, <1>4, <1>5, <2>1, <3>1
  <2>2. CASE k # 15
    <3>1. k + 1 \in Places
      BY <2>2 DEF Places
    <3> QED
      BY <1>3, <1>4, <2>2, <3>1
  <2> QED
    BY <2>1, <2>2
<1> QED
  BY <1>5, <1>6 DEF Down, c

LEMMA UpTwice ==
  ASSUME NEW s \in SUBSET Places, NEW b \in 0 .. 14
  PROVE  /\ Up(Up(s, b), 1) = Up(s, b + 1) /\ Up(s, 0) = s
         /\ Down(Down(s, b), 1) = Down(s, b + 1) /\ Down(s, 0) = s
<1>1. ASSUME NEW k \in Places
      PROVE  k - 1 \in Up(s, b) <=> k - (b + 1) \in s
  <2>1. (k - 1) - b = k - (b + 1)
    BY DEF Places
  <2>2. k - (b + 1) \in s => k - 1 \in Places
    BY DEF Places
  <2> QED
    BY <2>1, <2>2 DEF Up
<1>2. ASSUME NEW k \in Places
      PROVE  k + 1 \in Down(s, b) <=> k + (b + 1) \in s
  <2>1. (k + 1) + b = k + (b + 1)
    BY DEF Places
  <2>2. k + (b + 1) \in s => k + 1 \in Places
    BY DEF Places
  <2> QED
    BY <2>1, <2>2 DEF Down
<1>3. \A k \in Places : k - 0 = k /\ k + 0 = k
  BY DEF Places
<1>4. Up(Up(s, b), 1) = Up(s, b + 1)
  BY <1>1 DEF Up
<1>5. Down(Down(s, b), 1) = Down(s, b + 1)
  BY <1>2 DEF Down
<1> QED
  BY <1>3, <1>4, <1>5 DEF Up, Down

LEMMA NextPower ==
  ASSUME NEW b \in 0 .. 14
  PROVE  TwoTo(b + 1) = 2 * TwoTo(b)
<1>1. b \in {0, 1, 2, 3, 4, 5, 6, 7, 8, 9, 10, 11, 12, 13, 14}
  OBVIOUS
<1>2. CASE b = 0
  BY <1>2 DEF TwoTo
<1>3. CASE b = 1
  BY <1>3 DEF TwoTo
<1>4. CASE b = 2
  BY <1>4 DEF TwoTo
<1>5. CASE b = 3
  BY <1>5 DEF TwoTo
<1>6. CASE b = 4
  BY <1>6 DEF TwoTo
<1>7. CASE b = 5
  BY <1>7 DEF TwoTo
<1>8. CASE b = 6
  BY <1>8 DEF TwoTo
<1>9. CASE b = 7
  BY <1>9 DEF TwoTo
<1>10. CASE b = 8
  BY <1>10 DEF TwoTo
<1>11. CASE b = 9
  BY <1>11 DEF TwoTo
<1>12. CASE b = 10
  BY <1>12 DEF TwoTo
<1>13. CASE b = 11
  BY <1>13 DEF TwoTo
<1>14. CASE b = 12
  BY <1>14 DEF TwoTo
<1>15. CASE b = 13
  BY <1>15 DEF TwoTo
<1>16. CASE b = 14
  BY <1>16 DEF TwoTo
<1> QED
  BY <1>1, <1>2, <1>3, <1>4, <1>5, <1>6, <1>7, <1>8, <1>9, <1>10, <1>11, <1>12, <1>13, <1>14, <1>15, <1>16

LEMMA PowerIsNumber ==
  ASSUME NEW b \in 0 .. 15
  PROVE  TwoTo(b) \in Int /\ TwoTo(b) >= 1
  BY Powers DEF PowersOfTwo

ShiftsUp(a, b)   == Written!Bits((a * TwoTo(b)) % 65536) = Up(Written!Bits(a), b)
ShiftsDown(a, b) == Written!Bits(a \div TwoTo(b)) = Down(Written!Bits(a), b) /\ a \div TwoTo(b) \in Word16

LEMMA ShiftNext ==
  ASSUME NEW a \in Word16, NEW b \in 0 .. 14
  PROVE  /\ ShiftsUp(a, b) => ShiftsUp(a, b + 1)
         /\ ShiftsDown(a, b) => ShiftsDown(a, b + 1)
<1> DEFINE p == TwoTo(b)
           m == a * p
           c == m % 65536
           s == Written!Bits(a)
<1>1. a \in Int /\ 0 <= a /\ a <= 65535
  BY WordIsNumber
<1>2. p \in Int /\ p >= 1 /\ TwoTo(b + 1) = 2 * p /\ p \in PowersOfTwo
  BY NextPower, PowerIsNumber, Powers
<1>3. s \in SUBSET Places
  BY <1>1, BitsAre
<1> HIDE DEF p, s
<1>4. m \in Int /\ a * (2 * p) = 2 * m
  BY <1>1, <1>2
<1>5. ASSUME Written!Bits(c) = Up(s, b) PROVE Written!Bits((a * (2 * p)) % 65536) = Up(s, b + 1)
  <2> HIDE DEF m
  <2>1. c \in Int /\ (2 * c) % 65536 = (2 * m) % 65536
    BY <1>4
  <2>2. Written!Bits((2 * c) % 65536) = Up(Written!Bits(c), 1)
    BY <2>1, DoubledBits
  <2>3. Up(Up(s, b), 1) = Up(s, b + 1)
    BY <1>3, UpTwice
  <2> QED
    BY <1>4, <1>5, <2>1, <2>2, <2>3
<1>6. ASSUME Written!Bits(a \div p) = Down(s, b), a \div p \in Word16
      PROVE  Written!Bits(a \div (2 * p)) = Down(s, b + 1) /\ a \div (2 * p) \in Word16
  <2> DEFINE d == a \div p
  <2>1. d \div 2 = a \div (2 * p)
    BY <1>1, <1>2 DEF PowersOfTwo
  <2>2. d \in Int /\ 0 <= d /\ d <= 65535
    BY <1>6, WordIsNumber
  <2>3. d \in Word16 /\ Written!Bits(d) = Down(s, b)
    BY <1>6
  <2> HIDE DEF d
  <2>4. Written!Bits(d \div 2) = Down(Written!Bits(d), 1)
    BY <2>3, HalvedBits
  <2>5. Down(Down(s, b), 1) = Down(s, b + 1)
    BY <1>3, UpTwice
  <2>6. d \div 2 \in Word16
    BY <2>2, NumberIsWord
  <2> QED
    BY <2>1, <2>3, <2>4, <2>5, <2>6
<1> QED
  BY <1>2, <1>5, <1>6 DEF ShiftsUp, ShiftsDown, p, s

LEMMA ShiftsAre ==
  ASSUME NEW a \in Word16, NEW b \in 0 .. 15
  PROVE  ShiftsUp(a, b) /\ ShiftsDown(a, b)
<1> DEFINE Both(n) == ShiftsUp(a, n) /\ ShiftsDown(a, n)
<1>1. Both(0)
  <2>1. a \in Int /\ 0 <= a /\ a <= 65535 /\ TwoTo(0) = 1
    BY WordIsNumber DEF TwoTo
  <2>2. (a * 1) % 65536 = a /\ a \div 1 = a
    BY <2>1
  <2>3. Written!Bits(a) \in SUBSET Places
    BY <2>1, BitsAre
  <2>4. Up(Written!Bits(a), 0) = Written!Bits(a) /\ Down(Written!Bits(a), 0) = Written!Bits(a)
    BY <2>3, UpTwice
  <2> QED
    BY <2>1, <2>2, <2>4 DEF ShiftsUp, ShiftsDown
<1>2. \A n \in 0 .. 14 : Both(n) => Both(n + 1)
  BY ShiftNext
<1> HIDE DEF Both
<1>3. Both(1) /\ Both(2) /\ Both(3) /\ Both(4) /\ Both(5)
  BY <1>1, <1>2
<1>4. Both(6) /\ Both(7) /\ Both(8) /\ Both(9) /\ Both(10)
  BY <1>3, <1>2
<1>5. Both(11) /\ Both(12) /\ Both(13) /\ Both(14) /\ Both(15)
  BY <1>4, <1>2
<1>6. b \in {0, 1, 2, 3, 4, 5, 6, 7, 8, 9, 10, 11, 12, 13, 14, 15}
  OBVIOUS
<1>7. Both(b)
  BY <1>1, <1>3, <1>4, <1>5, <1>6
<1> QED
  BY <1>7 DEF Both

-----------------------------------------------------------------------------
(* Products.                                                                 *)

LEMMA MoreWords ==
  ASSUME NEW x \in Int, NEW k \in Int
  PROVE  (x + 65536 * k) % 65536 = x % 65536
  OBVIOUS

LEMMA ProductOfWords ==
  ASSUME NEW a \in Word16, NEW b \in Word16
  PROVE  Product(a, b) = (a * b) % 65536
<1>1. a \in Int /\ 0 <= a /\ a <= 65535 /\ b \in Int /\ 0 <= b /\ b <= 65535
  BY WordIsNumber
<1> DEFINE h == a \div 256
           l == a % 256
           lb == l * b
           hb == h * b
<1>2. h \in Int /\ l \in Int /\ a = 256 * h + l
  BY <1>1
<1> HIDE DEF h, l
<1>3. lb \in Int /\ hb \in Int
  BY <1>1, <1>2
<1>4. a * b = 256 * hb + lb
  BY <1>1, <1>2
<1> HIDE DEF lb, hb
<1>5. (lb + 256 * (hb % 256)) % 65536 = (256 * hb + lb) % 65536
  <2>1. hb % 256 = hb - 256 * (hb \div 256) /\ hb \div 256 \in Int
    BY <1>3
  <2> DEFINE k == hb \div 256
  <2> HIDE DEF k
  <2>2. lb + 256 * (hb % 256) = (256 * hb + lb) + 65536 * (-k) /\ k \in Int
    BY <1>3, <2>1 DEF k
  <2>3. 256 * hb + lb \in Int /\ -k \in Int
    BY <1>3, <2>2
  <2> QED
    BY <2>2, <2>3, MoreWords
<1> QED
  BY <1>4, <1>5 DEF Product, Cut, h, l, lb, hb

LEMMA SignedProduct ==
  ASSUME NEW a \in Word16, NEW b \in Word16
  PROVE  (Signed16(a) * Signed16(b)) % 65536 = (a * b) % 65536
<1>1. a \in Int /\ b \in Int
  BY WordIsNumber
<1>2. PICK i \in {0, 1} : Signed16(a) = a - 65536 * i
  BY <1>1 DEF Signed16
<1>3. PICK j \in {0, 1} : Signed16(b) = b - 65536 * j
  BY <1>1 DEF Signed16
<1>4. CASE i = 0 /\ j = 0
  BY <1>1, <1>2, <1>3, <1>4
<1>5. CASE i = 1 /\ j = 0
  <2>1. (a - 65536) * b = a * b + 65536 * (-b) /\ a * b \in Int /\ -b \in Int
    BY <1>1
  <2> QED
    BY <1>1, <1>2, <1>3, <1>5, <2>1, MoreWords
<1>6. CASE i = 0 /\ j = 1
  <2>1. a * (b - 65536) = a * b + 65536 * (-a) /\ a * b \in Int /\ -a \in Int
    BY <1>1
  <2> QED
    BY <1>1, <1>2, <1>3, <1>6, <2>1, MoreWords
<1>7. CASE i = 1 /\ j = 1
  <2>1. (a - 65536) * (b - 65536) = a * b + 65536 * (65536 - a - b)
    BY <1>1
  <2>2. a * b \in Int /\ 65536 - a - b \in Int
    BY <1>1
  <2> QED
    BY <1>1, <1>2, <1>3, <1>7, <2>1, <2>2, MoreWords
<1> QED
  BY <1>4, <1>5, <1>6, <1>7

NumberOf(s) == Written!Number[s]

LEMMA NumberOfIs ==
  ASSUME NEW s \in SUBSET Places
  PROVE  NumberOf(s) = Sum16(s)
  BY NumberIsSum DEF NumberOf

LEMMA BitsOfWordAre ==
  ASSUME NEW a \in Word16
  PROVE  Written!Bits(a) \in SUBSET Places
  BY WordIsNumber, BitsAre

\* The bits of both, of the first alone, of either and of one of them.
OfBoth(a, b)   == Written!Bits(a) \intersect Written!Bits(b)
OfFirst(a, b)  == Written!Bits(a) \ Written!Bits(b)
OfEither(a, b) == Written!Bits(a) \union Written!Bits(b)
OfOne(a, b)    == (Written!Bits(a) \union Written!Bits(b)) \ (Written!Bits(a) \intersect Written!Bits(b))

\* What the processor computes with additions and multiplications of words of
\* sixteen bits is what is meant with sets of bits (instruction.cpp:285-403).
LEMMA LogicComputes ==
  ASSUME NEW a \in Word16, NEW b \in Word16
  PROVE  /\ BitAnd(a, b) = NumberOf(OfBoth(a, b))
         /\ BitAnd(a, 65535 - b) = NumberOf(OfFirst(a, b))
         /\ BitOr(a, b) = NumberOf(OfEither(a, b))
         /\ BitXor(a, b) = NumberOf(OfOne(a, b))
<1> DEFINE A == Written!Bits(a)
           B == Written!Bits(b)
<1>1. A \in SUBSET Places /\ B \in SUBSET Places
  BY BitsOfWordAre
<1>2. a \in Int /\ b \in Int
  BY WordIsNumber
<1>3. BitAnd(a, b) = Sum16(A \intersect B)
  BY <1>2, AndOfWords, CommonBits
<1>4. BitAnd(a, 65535 - b) = Sum16(A \ B)
  <2> DEFINE c == 65535 - b
  <2>1. c \in Word16 /\ Written!Bits(c) = Places \ B
    BY OtherBits
  <2>2. c \in Int
    BY <1>2
  <2> HIDE DEF c
  <2>3. BitAnd(a, c) = Sum16(A \intersect Written!Bits(c))
    BY <1>2, <2>1, <2>2, AndOfWords, CommonBits
  <2>4. A \intersect (Places \ B) = A \ B
    BY <1>1
  <2> QED
    BY <2>1, <2>3, <2>4 DEF c
<1>5. Sum16(A) = a /\ Sum16(B) = b
  BY WordIsSum
<1>6. Sum16(A \intersect B) \in Int
  BY SumIsNumber
<1> HIDE DEF A, B
<1>7. BitOr(a, b) = Sum16(A \union B)
  <2>1. Sum16(A \union B) = Sum16(A) + Sum16(B) - Sum16(A \intersect B)
    BY SumOfUnion
  <2> QED
    BY <1>3, <1>5, <2>1 DEF BitOr
<1>8. BitXor(a, b) = Sum16((A \union B) \ (A \intersect B))
  <2> DEFINE u == A \union B
             i == A \intersect B
  <2>1. Sum16(u) = Sum16(A) + Sum16(B) - Sum16(i)
    BY SumOfUnion
  <2>2. Sum16(u \ i) = Sum16(u) - Sum16(u \intersect i)
    BY SumOfDifference
  <2>3. u \intersect i = i
    OBVIOUS
  <2> HIDE DEF u, i
  <2>4. Sum16(i) \in Int /\ BitAnd(a, b) = Sum16(i)
    BY <1>3, SumIsNumber DEF i
  <2> DEFINE x == Sum16(i)
             y == Sum16(u)
             z == Sum16(u \ i)
  <2>5. y = a + b - x
    BY <1>5, <2>1
  <2>6. z = y - x
    BY <2>2, <2>3
  <2>7. x \in Int /\ BitAnd(a, b) = x
    BY <2>4
  <2> HIDE DEF x, y, z
  <2>8. z = a + b - 2 * x
    BY <1>2, <2>5, <2>6, <2>7
  <2>9. BitXor(a, b) = z
    BY <2>7, <2>8 DEF BitXor
  <2> QED
    BY <2>9 DEF z, u, i
<1>9. /\ A \intersect B \in SUBSET Places /\ A \ B \in SUBSET Places
      /\ A \union B \in SUBSET Places /\ (A \union B) \ (A \intersect B) \in SUBSET Places
  BY <1>1
<1> QED
  BY <1>3, <1>4, <1>7, <1>8, <1>9, NumberOfIs DEF A, B, OfBoth, OfFirst, OfEither, OfOne

LEMMA ComplementComputes ==
  ASSUME NEW a \in Word16
  PROVE  65535 - a = NumberOf(Places \ Written!Bits(a))
<1> DEFINE A == Written!Bits(a)
<1>1. A \in SUBSET Places /\ a \in Int /\ Sum16(A) = a
  BY BitsOfWordAre, WordIsNumber, WordIsSum
<1> HIDE DEF A
<1>2. Sum16(Places \ A) = Sum16(Places) - Sum16(Places \intersect A)
  BY SumOfDifference
<1>3. Places \intersect A = A /\ Places \ A \in SUBSET Places
  BY <1>1
<1>4. Sum16(Places \ A) = 65535 - a
  BY <1>1, <1>2, <1>3, SumOfAll
<1> QED
  BY <1>3, <1>4, NumberOfIs DEF A

LEMMA ShiftsCompute ==
  ASSUME NEW a \in Word16, NEW b \in Word16
  PROVE  /\ (IF b >= 16 THEN 0 ELSE Cut(a * 2^b)) = NumberOf(Up(Written!Bits(a), b))
         /\ (IF b >= 16 THEN 0 ELSE a \div 2^b) = NumberOf(Down(Written!Bits(a), b))
<1> DEFINE A == Written!Bits(a)
<1>1. A \in SUBSET Places /\ a \in Int /\ b \in Int /\ 0 <= b
  BY BitsOfWordAre, WordIsNumber
<1>2. Up(A, b) \in SUBSET Places /\ Down(A, b) \in SUBSET Places
  BY DEF Up, Down
<1>3. CASE b >= 16
  <2>1. \A k \in Places : k - b \notin A /\ k + b \notin A
    BY <1>1, <1>3 DEF Places
  <2>2. Up(A, b) = {} /\ Down(A, b) = {}
    BY <2>1 DEF Up, Down
  <2>3. NumberOf({}) = 0
    BY NumberOfIs, SumOfNone
  <2> QED
    BY <1>3, <2>2, <2>3
<1>4. CASE ~(b >= 16)
  <2>1. b \in 0 .. 15
    BY <1>1, <1>4
  <2> DEFINE u == (a * TwoTo(b)) % 65536
             d == a \div TwoTo(b)
  <2>2. Written!Bits(u) = Up(A, b) /\ Written!Bits(d) = Down(A, b) /\ d \in Word16
    BY <2>1, ShiftsAre DEF ShiftsUp, ShiftsDown
  <2>3. u \in Word16
    <3>1. TwoTo(b) \in Int
      BY <2>1, PowerIsNumber
    <3>2. a * TwoTo(b) \in Int
      BY <1>1, <3>1
    <3> QED
      BY <3>2, CutIsWord DEF Cut
  <2>4. u = Cut(a * 2^b) /\ d = a \div 2^b
    BY DEF Cut, TwoTo
  <2> HIDE DEF u, d
  <2>5. u = NumberOf(Up(A, b))
    BY <1>2, <2>2, <2>3, WordIsSum, NumberOfIs
  <2>6. d = NumberOf(Down(A, b))
    BY <1>2, <2>2, WordIsSum, NumberOfIs
  <2> QED
    BY <1>4, <2>4, <2>5, <2>6
<1> QED
  BY <1>3, <1>4

\* For every two words and every binary operation: the word that
\* instruction_execute() leaves in the register (instruction.cpp:285-403), from
\* sums cut to 16 bits, an unsigned product and the operators of C, is the one
\* the instruction stands for, as numbers with a sign and sets of bits.
THEOREM ComputesAsWritten ==
  ASSUME NEW a \in Word16, NEW b \in Word16, NEW n \in Written!Binaries
  PROVE  ResultOf(n, a, b) = Written!Computed(n, a, b)
<1>1. n \in {"add", "sub", "cmp", "mlu", "and", "tst", "ann", "orr", "xor", "shl", "shr"}
  BY DEF Written!Binaries
<1>2. CASE n = "add"
  BY <1>2 DEF ResultOf, Unlimited, Cut, Written!Computed, Written!Wrap
<1>3. CASE n \in {"sub", "cmp"}
  BY <1>3 DEF ResultOf, Unlimited, Cut, Written!Computed, Written!Wrap
<1>4. CASE n = "mlu"
  <2>1. Product(a, b) = (Signed16(a) * Signed16(b)) % 65536
    BY ProductOfWords, SignedProduct
  <2>2. Written!Signed16(a) = Signed16(a) /\ Written!Signed16(b) = Signed16(b)
    BY DEF Signed16, Written!Signed16
  <2> QED
    BY <1>4, <2>1, <2>2 DEF ResultOf, Written!Computed, Written!Wrap
<1>5. CASE n \in {"and", "tst"}
  <2>1. ResultOf(n, a, b) = BitAnd(a, b)
    BY <1>5 DEF ResultOf
  <2>2. Written!Computed(n, a, b) = NumberOf(OfBoth(a, b))
    BY <1>5 DEF Written!Computed, NumberOf, OfBoth
  <2> QED
    BY <2>1, <2>2, LogicComputes
<1>6. CASE n = "ann"
  <2>1. ResultOf(n, a, b) = BitAnd(a, 65535 - b)
    BY <1>6 DEF ResultOf
  <2>2. Written!Computed(n, a, b) = NumberOf(OfFirst(a, b))
    BY <1>6 DEF Written!Computed, NumberOf, OfFirst
  <2> QED
    BY <2>1, <2>2, LogicComputes
<1>7. CASE n = "orr"
  <2>1. ResultOf(n, a, b) = BitOr(a, b)
    BY <1>7 DEF ResultOf
  <2>2. Written!Computed(n, a, b) = NumberOf(OfEither(a, b))
    BY <1>7 DEF Written!Computed, NumberOf, OfEither
  <2> QED
    BY <2>1, <2>2, LogicComputes
<1>8. CASE n = "xor"
  <2>1. ResultOf(n, a, b) = BitXor(a, b)
    BY <1>8 DEF ResultOf
  <2>2. Written!Computed(n, a, b) = NumberOf(OfOne(a, b))
    BY <1>8 DEF Written!Computed, NumberOf, OfOne
  <2> QED
    BY <2>1, <2>2, LogicComputes
<1>9. CASE n = "shl"
  BY <1>9, ShiftsCompute DEF ResultOf, Written!Computed, Up, Places, NumberOf
<1>10. CASE n = "shr"
  BY <1>10, ShiftsCompute DEF ResultOf, Written!Computed, Down, Places, NumberOf
<1> QED
  BY <1>1, <1>2, <1>3, <1>4, <1>5, <1>6, <1>7, <1>8, <1>9, <1>10

-----------------------------------------------------------------------------
(* Which instruction a word makes the processor execute.                     *)

Guarded(b, row)  == Major = 0 /\ Minor = b /\ Rsrc = row
Computable       == {16, 17, 18, 20, 24, 25, 26, 27, 28, 29, 30, 31}

LEMMA FieldsDecide ==
  /\ OperateRegister => Major = 0 /\ Minor >= 16 /\ Minor \notin {19, 21, 22, 23}
  /\ OperateImmediate => Major >= 16 /\ Major \notin {19, 21, 22, 23, 27}
  /\ OperateOne => Major = 0 /\ Minor = 6 /\ Rsrc \in {6, 7}
  /\ SetCondition => Major = 0 /\ Minor \in {1, 23}
  /\ MoveCondition => Major \in {22, 23}
  /\ JumpCondition => Major \in {4, 5}
  /\ Jump => Major = 10
  /\ Loop => Major = 3 /\ Rsrc >= 5
  /\ CallRegister => Guarded(6, 4)
  /\ Call => Major = 21
  /\ Return => Guarded(6, 5)
  /\ Push => Guarded(6, 2)
  /\ Pop => Guarded(6, 3)
  /\ Load => (Major = 0 /\ Minor = 12) \/ Major \in {12, 14}
  /\ Write => (Major = 0 /\ Minor = 13) \/ Major \in {13, 15}
  /\ ReadAuxiliary => Major = 0 /\ Minor = 10
  /\ WriteAuxiliary => (Major = 0 /\ Minor = 11) \/ Major = 11
  /\ PortRead => (Major = 0 /\ Minor = 8) \/ Major = 8
  /\ PortWrite => (Major = 0 /\ Minor = 9) \/ Major = 9
  /\ RandomNumber => Guarded(6, 1)
  /\ DoNothing => \/ Major = 0 /\ Minor = 4 /\ Rsrc \in {4, 5}
                  \/ Guarded(6, 0)
                  \/ Major = 0 /\ Minor = 7 /\ Rsrc \in 0 .. 4
                  \/ Major = 3 /\ Rsrc \in 0 .. 4
  /\ Halt => Guarded(4, 1)
  /\ Invalid => \/ Major = 0 /\ Minor \in {0, 2, 3, 5, 14, 15, 19}
                \/ Major = 0 /\ Minor = 4 /\ Rsrc \in {2, 3, 6, 7}
                \/ Major = 0 /\ Minor = 7 /\ Rsrc \in 5 .. 7
                \/ Major \in {1, 6, 7, 19, 27}
                \/ Major = 2 /\ Rsrc \notin {0, 2, 3}
<1>1. /\ OperateRegister => Major = 0 /\ Minor >= 16 /\ Minor \notin {19, 21, 22, 23}
      /\ OperateImmediate => Major >= 16 /\ Major \notin {19, 21, 22, 23, 27}
      /\ OperateOne => Major = 0 /\ Minor = 6 /\ Rsrc \in {6, 7}
  BY DEF OperateRegister, OperateImmediate, OperateOne
<1>2. /\ SetCondition => Major = 0 /\ Minor \in {1, 23}
      /\ MoveCondition => Major \in {22, 23}
      /\ JumpCondition => Major \in {4, 5}
      /\ Jump => Major = 10
      /\ Loop => Major = 3 /\ Rsrc >= 5
  BY DEF SetCondition, MoveCondition, JumpCondition, Jump, Loop
<1>3. /\ CallRegister => Guarded(6, 4)
      /\ Call => Major = 21
      /\ Return => Guarded(6, 5)
      /\ Push => Guarded(6, 2)
      /\ Pop => Guarded(6, 3)
  BY DEF CallRegister, Call, Return, Push, Pop, Guarded
<1>4. /\ Load => (Major = 0 /\ Minor = 12) \/ Major \in {12, 14}
      /\ Write => (Major = 0 /\ Minor = 13) \/ Major \in {13, 15}
      /\ ReadAuxiliary => Major = 0 /\ Minor = 10
      /\ WriteAuxiliary => (Major = 0 /\ Minor = 11) \/ Major = 11
  BY DEF Load, Write, ReadAuxiliary, WriteAuxiliary
<1>5. /\ PortRead => (Major = 0 /\ Minor = 8) \/ Major = 8
      /\ PortWrite => (Major = 0 /\ Minor = 9) \/ Major = 9
      /\ RandomNumber => Guarded(6, 1)
      /\ Halt => Guarded(4, 1)
  BY DEF PortRead, PortWrite, RandomNumber, Halt, Guarded
<1>6. DoNothing => \/ Major = 0 /\ Minor = 4 /\ Rsrc \in {4, 5}
                   \/ Guarded(6, 0)
                   \/ Major = 0 /\ Minor = 7 /\ Rsrc \in 0 .. 4
                   \/ Major = 3 /\ Rsrc \in 0 .. 4
  BY DEF DoNothing, Guarded
<1>7. Invalid => \/ Major = 0 /\ Minor \in {0, 2, 3, 5, 14, 15, 19}
                 \/ Major = 0 /\ Minor = 4 /\ Rsrc \in {2, 3, 6, 7}
                 \/ Major = 0 /\ Minor = 7 /\ Rsrc \in 5 .. 7
                 \/ Major \in {1, 6, 7, 19, 27}
                 \/ Major = 2 /\ Rsrc \notin {0, 2, 3}
  BY DEF Invalid
<1> QED
  BY <1>1, <1>2, <1>3, <1>4, <1>5, <1>6, <1>7

\* What a step does beside the instruction.
Computes(A) == A /\ UNCHANGED <<ioVars, program>>
Leaves(A)   == A /\ UNCHANGED <<ioVars, program, shown>>

\* Two registers, or an immediate in place of the second.
TakesReg(c) == Major = 0 /\ Minor = c
TakesImm(c) == Major = c

LEMMA StepOperates ==
  ASSUME Step, NEW c \in Computable
  PROVE  /\ TakesReg(c) => Computes(OperateRegister /\ shown' = Shown(Minor, regs[Rsrc]))
         /\ TakesImm(c) /\ c # 27 => Computes(OperateImmediate /\ shown' = Shown(Major, Imm8))
<1> USE FieldsDecide DEF Guarded, Computes, Computable, Step, OperateStep, FlagStep, OtherStep, PortStep
<1>1. TakesReg(c) => Computes(OperateRegister /\ shown' = Shown(Minor, regs[Rsrc]))
  BY DEF TakesReg
<1>2. TakesImm(c) /\ c # 27 => Computes(OperateImmediate /\ shown' = Shown(Major, Imm8))
  BY DEF TakesImm
<1> QED
  BY <1>1, <1>2

LEMMA StepMoves ==
  ASSUME Step
  PROVE  /\ TakesReg(12) \/ TakesImm(12) \/ TakesImm(14) => Leaves(Load)
         /\ TakesReg(13) \/ TakesImm(13) \/ TakesImm(15) => Leaves(Write)
         /\ TakesReg(10) => Leaves(ReadAuxiliary)
         /\ TakesReg(11) \/ TakesImm(11) => Computes(FlagStep)
         /\ TakesReg(8) \/ TakesImm(8) => PortRead /\ UNCHANGED <<shown, program>>
         /\ TakesReg(9) \/ TakesImm(9) => PortWrite /\ UNCHANGED <<shown, program>>
         /\ TakesReg(2) \/ TakesReg(3) \/ TakesReg(19) \/ TakesImm(19) => Leaves(Invalid)
         /\ ~TakesReg(21) /\ ~TakesReg(22)
<1> USE FieldsDecide DEF Guarded, Computes, Leaves, Step, OperateStep, FlagStep, OtherStep, PortStep, TakesReg, TakesImm
<1>1. TakesReg(12) \/ TakesImm(12) \/ TakesImm(14) => Leaves(Load)
  OBVIOUS
<1>2. TakesReg(13) \/ TakesImm(13) \/ TakesImm(15) => Leaves(Write)
  OBVIOUS
<1>3. TakesReg(10) => Leaves(ReadAuxiliary)
  OBVIOUS
<1>4. TakesReg(11) \/ TakesImm(11) => Computes(FlagStep)
  OBVIOUS
<1>5. TakesReg(8) \/ TakesImm(8) => PortRead /\ UNCHANGED <<shown, program>>
  OBVIOUS
<1>6. TakesReg(9) \/ TakesImm(9) => PortWrite /\ UNCHANGED <<shown, program>>
  OBVIOUS
<1>7. TakesReg(2) \/ TakesReg(3) \/ TakesReg(19) \/ TakesImm(19) => Leaves(Invalid)
  OBVIOUS
<1>8. ~TakesReg(21) /\ ~TakesReg(22)
  OBVIOUS
<1> QED
  BY <1>1, <1>2, <1>3, <1>4, <1>5, <1>6, <1>7, <1>8

LEMMA StepControls ==
  ASSUME Step
  PROVE  /\ Guarded(6, 6) \/ Guarded(6, 7) => Computes(OperateOne /\ shown' = <<regs'[Rd]>>)
         /\ Guarded(6, 0) \/ Guarded(7, 0) => Leaves(DoNothing)
         /\ Guarded(6, 1) => Leaves(RandomNumber)
         /\ Guarded(6, 2) => Leaves(Push)
         /\ Guarded(6, 3) => Leaves(Pop)
         /\ Guarded(6, 4) => Leaves(CallRegister)
         /\ Guarded(6, 5) => Leaves(Return)
         /\ Guarded(4, 1) => Leaves(Halt)
         /\ ~Guarded(4, 0)
<1> USE FieldsDecide DEF Guarded, Computes, Leaves, Step, OperateStep, FlagStep, OtherStep, PortStep
<1>1. Guarded(6, 6) \/ Guarded(6, 7) => Computes(OperateOne /\ shown' = <<regs'[Rd]>>)
  OBVIOUS
<1>2. Guarded(6, 0) \/ Guarded(7, 0) => Leaves(DoNothing)
  OBVIOUS
<1>3. Guarded(6, 1) => Leaves(RandomNumber)
  OBVIOUS
<1>4. Guarded(6, 2) => Leaves(Push)
  OBVIOUS
<1>5. Guarded(6, 3) => Leaves(Pop)
  OBVIOUS
<1>6. Guarded(6, 4) => Leaves(CallRegister)
  OBVIOUS
<1>7. Guarded(6, 5) => Leaves(Return)
  OBVIOUS
<1>8. Guarded(4, 1) => Leaves(Halt)
  OBVIOUS
<1>9. ~Guarded(4, 0)
  OBVIOUS
<1> QED
  BY <1>1, <1>2, <1>3, <1>4, <1>5, <1>6, <1>7, <1>8, <1>9

LEMMA StepBranches ==
  ASSUME Step
  PROVE  /\ Major = 0 /\ Minor \in {1, 23} => Leaves(SetCondition)
         /\ Major \in {22, 23} => Leaves(MoveCondition)
         /\ Major \in {4, 5} => Leaves(JumpCondition)
         /\ Major = 10 => Leaves(Jump)
         /\ Major = 21 => Leaves(Call)
         /\ Major = 3 /\ Rsrc = 7 => Leaves(Loop)
         /\ ~(Major = 2 /\ Rsrc \in {0, 2, 3})
<1> USE FieldsDecide DEF Guarded, Leaves, Step, OperateStep, FlagStep, OtherStep, PortStep
<1>1. Major = 0 /\ Minor \in {1, 23} => Leaves(SetCondition)
  OBVIOUS
<1>2. Major \in {22, 23} => Leaves(MoveCondition)
  OBVIOUS
<1>3. Major \in {4, 5} => Leaves(JumpCondition)
  OBVIOUS
<1>4. Major = 10 => Leaves(Jump)
  OBVIOUS
<1>5. Major = 21 => Leaves(Call)
  OBVIOUS
<1>6. Major = 3 /\ Rsrc = 7 => Leaves(Loop)
  OBVIOUS
<1>7. ~(Major = 2 /\ Rsrc \in {0, 2, 3})
  OBVIOUS
<1> QED
  BY <1>1, <1>2, <1>3, <1>4, <1>5, <1>6, <1>7

-----------------------------------------------------------------------------
(* What is asked of a program: it runs from one of its instructions to the   *)
(* next, does not write over them, and its operands fit into their fields,   *)
(* with the prefix that is there.                                            *)

Here == program[ip + 1]
Now  == Placed(Here, ip)

Reach(n) == IF n \in {"cal", "jmp"} THEN 1024 ELSE 128

\* An operand of instruction n, o as it is written and q where it stands: a
\* label is an address, and where the field is too short for it or for the
\* distance to it, the prefix is what the field leaves out.
Fits(n, o, q) ==
    /\ o.kind = "label" => o.val \in Word16
    /\ o.kind = "label" /\ n \notin Relative =>
           IF ui_modified THEN ui % 256 = o.val \div 256 ELSE o.val < 256
    /\ o.kind \in {"label", "imm"} /\ n \in Relative =>
           IF ui_modified THEN o.kind = "imm" \/ ui % 256 = (q.val \div 256) % 256
           ELSE -Reach(n) <= q.val /\ q.val < Reach(n)

Orderly ==
    ~halt => /\ ip < Len(program) /\ Fetched = Image(program)[ip]
             /\ Here.name # "ddw"
             /\ \A k \in 1 .. Len(Here.ops) : Fits(Here.name, Here.ops[k], Now.ops[k])

Running == CpuOK /\ ProgramOK /\ Orderly /\ ~halt

-----------------------------------------------------------------------------
(* The instruction at ip, and its word.                                      *)

LEMMA InstructionHere ==
  ASSUME Running
  PROVE  /\ ip \in Int /\ 0 <= ip /\ ip < Len(program)
         /\ Len(Here.ops) \in Nat /\ Here.name # "ddw"
         /\ WellFormed(Now) /\ Fetched = Encoded(Now)
<1>1. /\ CpuOK /\ ProgramOK /\ ip < Len(program) /\ Fetched = Image(program)[ip]
      /\ Here.name # "ddw"
  BY DEF Running, Orderly
<1>2. ip \in Int /\ 0 <= ip /\ Len(program) \in Nat
  BY <1>1, WordIsNumber, JobsAssumption DEF CpuOK, IpOK, ProgramOK
<1>3. ip \in 0 .. Len(program) - 1 /\ ip + 1 \in 1 .. Len(program) /\ (ip + 1) - 1 = ip
  BY <1>1, <1>2
<1>4. Len(Here.ops) \in Nat /\ Assembles(Now)
  <2>1. \A k \in 1 .. Len(program) :
           Len(program[k].ops) \in Nat /\ Assembles(Placed(program[k], k - 1))
    BY <1>1, JobsAssumption DEF ProgramOK
  <2> QED
    BY <1>3, <2>1 DEF Here, Now
<1>5. Fetched = WordOf(Now)
  <2>1. Image(program)[ip] = WordOf(Now)
    BY <1>3 DEF Image, Here, Now
  <2> QED
    BY <1>1, <2>1
<1>6. Now.name = Here.name
  BY DEF Now, Placed, Ins
<1>7. WellFormed(Now) /\ Fetched = Encoded(Now)
  BY <1>1, <1>4, <1>5, <1>6 DEF Assembles, WordOf
<1> QED
  BY <1>1, <1>2, <1>4, <1>7

LEMMA OperandsHere ==
  ASSUME Running
  PROVE  /\ Now.name = Here.name /\ Now.cond = Here.cond /\ Len(Now.ops) = Len(Here.ops)
         /\ \A k \in 1 .. Len(Here.ops) :
               LET o == Here.ops[k]
                   q == Now.ops[k]
               IN  /\ Fits(Here.name, o, q)
                   /\ o.kind # "label" => q = o
                   /\ o.kind = "label" =>
                         q = Imm(RelativeTo(IF Here.name \in Relative THEN ip ELSE -1, o.val))
<1>1. /\ Now.name = Here.name /\ Now.cond = Here.cond
      /\ Now.ops = [k \in 1 .. Len(Here.ops) |->
             IF Here.ops[k].kind = "label"
             THEN Imm(RelativeTo(IF Here.name \in Relative THEN ip ELSE -1, Here.ops[k].val))
             ELSE Here.ops[k]]
  BY DEF Now, Placed, Ins
<1>2. Len(Here.ops) \in Nat
  BY InstructionHere
<1>3. Len(Now.ops) = Len(Here.ops)
  BY <1>1, <1>2
<1>4. \A k \in 1 .. Len(Here.ops) : Fits(Here.name, Here.ops[k], Now.ops[k])
  BY DEF Running, Orderly
<1> QED
  BY <1>1, <1>3, <1>4

-----------------------------------------------------------------------------
(* The values of operands.                                                   *)

\* What the processor makes of the last byte of an immediate, with a prefix or
\* without one (instruction.cpp:57-84).
ByteOperand(v) == IF ui_modified THEN Cut((256 * ui) + (v % 256)) ELSE v % 256

LEMMA PrefixIs ==
  ASSUME CpuOK
  PROVE  /\ ui \in Int /\ 0 <= ui /\ ui <= 65535 /\ ui_modified \in BOOLEAN
         /\ (IF ui_modified THEN ui ELSE -1) = -1 <=> ~ui_modified
<1>1. ui \in Int /\ 0 <= ui /\ ui <= 65535 /\ ui_modified \in BOOLEAN
  BY WordIsNumber DEF CpuOK, PrefixOK
<1> QED
  BY <1>1

LEMMA RegisterValue ==
  ASSUME Running, NEW k \in 1 .. Len(Here.ops), IsR(Now.ops[k])
  PROVE  /\ Here.ops[k].kind = "reg" /\ Here.ops[k].val = Now.ops[k].val
         /\ Here.ops[k].val \in 0 .. 7
         /\ Written!Value(k) = regs[Now.ops[k].val]
<1>1. Here.ops[k].kind # "label"
  <2>1. Here.ops[k].kind = "label" =>
           Now.ops[k] = Imm(RelativeTo(IF Here.name \in Relative THEN ip ELSE -1, Here.ops[k].val))
    BY OperandsHere
  <2>2. Here.ops[k].kind = "label" => Now.ops[k].kind = "imm"
    BY <2>1 DEF Imm
  <2> QED
    BY <2>2 DEF IsR
<1>2. Now.ops[k] = Here.ops[k]
  BY <1>1, OperandsHere
<1>3. Written!I = Here
  BY DEF Written!I, Here
<1> QED
  BY <1>2, <1>3 DEF IsR, Written!Value

LEMMA ByteValue ==
  ASSUME Running, NEW k \in 1 .. Len(Here.ops), IsI(Now.ops[k]), Here.name \notin Relative
  PROVE  Written!Value(k) = ByteOperand(Now.ops[k].val)
<1> DEFINE o == Here.ops[k]
           q == Now.ops[k]
           v == q.val
<1>1. CpuOK /\ q.kind = "imm" /\ v \in Int
  BY DEF Running, IsI
<1>2. Written!I.ops[k] = o
  BY DEF Written!I, Here
<1>3. /\ Fits(Here.name, o, q)
      /\ o.kind # "label" => q = o
      /\ o.kind = "label" => q = Imm(RelativeTo(-1, o.val))
  BY OperandsHere
<1>4. CASE o.kind = "label"
  <2>1. Written!Value(k) = o.val
    BY <1>2, <1>4 DEF Written!Value
  <2>2. v = o.val
    BY <1>3, <1>4 DEF Imm, RelativeTo
  <2>3. o.val \in Int /\ 0 <= o.val /\ o.val <= 65535
    BY <1>3, <1>4, WordIsNumber DEF Fits
  <2>4. CASE ui_modified
    <3>1. ui % 256 = o.val \div 256
      BY <1>3, <1>4, <2>4 DEF Fits
    <3> DEFINE w == o.val
    <3>2. ui \in Int /\ w \in Int /\ 0 <= w /\ w <= 65535 /\ ui % 256 = w \div 256
      BY <1>1, <2>3, <3>1, PrefixIs
    <3> HIDE DEF w
    <3>3. ((256 * ui) + (w % 256)) % 65536 = w
      BY <3>2
    <3> QED
      BY <2>1, <2>2, <2>4, <3>3 DEF ByteOperand, Cut, w
  <2>5. CASE ~ui_modified
    <3>1. o.val < 256
      BY <1>3, <1>4, <2>5 DEF Fits
    <3>2. o.val % 256 = o.val
      BY <2>3, <3>1
    <3> QED
      BY <2>1, <2>2, <2>5, <3>2 DEF ByteOperand
  <2> QED
    BY <2>4, <2>5, <1>1, PrefixIs
<1>5. CASE o.kind # "label"
  <2>1. o.kind = "imm" /\ v = o.val
    BY <1>1, <1>3, <1>5
  <2>2. CASE ui_modified
    <3>1. Written!Value(k) = Written!Wrap((ui * 256) + (v % 256))
      BY <1>1, <1>2, <2>1, <2>2, PrefixIs DEF Written!Value, Written!NoPrefix
    <3>2. ui * 256 = 256 * ui
      BY <1>1, PrefixIs
    <3> QED
      BY <2>2, <3>1, <3>2 DEF ByteOperand, Cut, Written!Wrap
  <2>3. CASE ~ui_modified
    BY <1>1, <1>2, <2>1, <2>3, PrefixIs DEF Written!Value, Written!NoPrefix, ByteOperand
  <2> QED
    BY <2>2, <2>3, <1>1, PrefixIs
<1> QED
  BY <1>4, <1>5

LEMMA ByteRead ==
  ASSUME CpuOK, NEW v \in Int, Byte8(Fetched) = v % 256
  PROVE  Imm8 = ByteOperand(v)
<1>1. (32 * Rsrc) + Minor = v % 256
  <2>1. S(Fetched) * 32 + Tail5(Fetched) = v % 256
    BY DEF Byte8
  <2>2. S(Fetched) = Rsrc /\ Tail5(Fetched) = Minor
    BY DEF S, Tail5, Rsrc, Minor
  <2>3. Rsrc \in Int /\ Minor \in Int
    BY FieldsOfFetched
  <2> QED
    BY <2>1, <2>2, <2>3
<1>2. (v % 256) % 256 = v % 256
  OBVIOUS
<1> QED
  BY <1>1, <1>2 DEF Imm8, ExtendedUi, ByteOperand

LEMMA FieldsRead ==
  ASSUME NEW t, NEW b, NEW x, NEW y, Reads(Fetched, t, b, x, y)
  PROVE  Major = t /\ Minor = b /\ Rd = x /\ Rsrc = y /\ (Fetched \div 2) % 8 = (b \div 2) % 8
  BY DEF Reads, Top, Tail5, F, S, Major, Minor, Rd, Rsrc

-----------------------------------------------------------------------------
(* The fields of the word at ip, format by format.                           *)

LEMMA FormatHere ==
  ASSUME Running
  PROVE  /\ Returning(Now) \/ OfRegisters(Now)
         /\ CpuOK /\ Now.name = Here.name /\ Now.cond = Here.cond
         /\ Len(Now.ops) = Len(Here.ops) /\ Fetched = Encoded(Now) /\ Written!I = Here
  BY InstructionHere, OperandsHere, FormatsAre DEF Running, Written!I, Here

\* The opcodes of the instructions that come with two registers or, shifted,
\* with an immediate.
Codes == [dvu |-> 2, dvs |-> 3, prd |-> 8, pwr |-> 9, xrd |-> 10, xwr |-> 11, mrd |-> 12,
          mwr |-> 13, srd |-> 14, swr |-> 15, mlu |-> 16, cmp |-> 17, tst |-> 18, mls |-> 19,
          mov |-> 20, add |-> 24, sub |-> 25, and |-> 26, ann |-> 27, orr |-> 28, xor |-> 29,
          shl |-> 30, shr |-> 31]

LEMMA CodesOfRegisters ==
  \A n \in (RegToFirst \ {"crd"}) \union {"mwr", "pwr"} : InstrReg[n] = Codes[n] /\ Codes[n] \in 0 .. 31
  BY DEF InstrReg, Codes, RegToFirst

LEMMA CodesOfSplit ==
  \A n \in SplitToFirst \union SplitToSecond : InstrImm[n] = 2048 * Codes[n] /\ Codes[n] \in 8 .. 31
<1>1. \A n \in {"add", "and", "cmp", "mlu", "mls", "mov", "mrd", "orr", "prd"} :
         InstrImm[n] = 2048 * Codes[n] /\ Codes[n] \in 8 .. 31
  BY DEF InstrImm, Codes
<1>2. \A n \in {"shl", "shr", "srd", "sub", "tst", "xor", "xwr", "mwr", "swr", "pwr"} :
         InstrImm[n] = 2048 * Codes[n] /\ Codes[n] \in 8 .. 31
  BY DEF InstrImm, Codes
<1> QED
  BY <1>1, <1>2 DEF SplitToFirst, SplitToSecond

\* Two registers: the one that is written, and the other.
TwoRegisters(n, d, s) ==
    /\ Len(Here.ops) = 2 /\ TakesReg(Codes[n])
    /\ Here.ops[d].kind = "reg" /\ Here.ops[d].val = Rd /\ Here.ops[s].kind = "reg" /\ Here.ops[s].val = Rsrc
    /\ Written!Value(s) = regs[Rsrc]
\* A register and an immediate.
AndImmediate(n, d, s) ==
    /\ Len(Here.ops) = 2 /\ TakesImm(Codes[n])
    /\ Here.ops[d].kind = "reg" /\ Here.ops[d].val = Rd
    /\ Written!Value(s) = Imm8

LEMMA RegistersRead ==
  ASSUME Running, RR(Now), Now.cond = "none", Here.name \in (RegToFirst \ {"crd"}) \union {"mwr", "pwr"}
  PROVE  IF Here.name \in RegToSecond THEN TwoRegisters(Here.name, 2, 1) ELSE TwoRegisters(Here.name, 1, 2)
<1> DEFINE n == Here.name
           p == Now.ops[1].val
           q == Now.ops[2].val
<1>1. /\ Len(Here.ops) = 2 /\ IsR(Now.ops[1]) /\ IsR(Now.ops[2]) /\ p \in 0 .. 7 /\ q \in 0 .. 7
      /\ CpuOK /\ Now.name = n /\ Fetched = Encoded(Now)
  BY FormatHere DEF RR, IsR
<1>2. /\ Here.ops[1].kind = "reg" /\ Here.ops[1].val = p /\ Written!Value(1) = regs[p]
      /\ Here.ops[2].kind = "reg" /\ Here.ops[2].val = q /\ Written!Value(2) = regs[q]
  <2>1. 1 \in 1 .. Len(Here.ops) /\ 2 \in 1 .. Len(Here.ops)
    BY <1>1
  <2> QED
    BY <1>1, <2>1, RegisterValue
<1>3. InstrReg[n] = Codes[n] /\ Codes[n] \in 0 .. 31
  BY CodesOfRegisters
<1>4. n \in RegToFirst \union RegToSecond
  BY DEF RegToSecond
<1>5. Fetched = IF n \in RegToSecond THEN RegisterWord(0, Codes[n], q, p) ELSE RegisterWord(0, Codes[n], p, q)
  BY <1>1, <1>3, <1>4, WordOfRegisters
<1>6. CASE n \in RegToSecond
  <2>1. Reads(Fetched, 0, Codes[n], q, p)
    <3>1. 0 \in 0 .. 31
      OBVIOUS
    <3>2. Reads(RegisterWord(0, Codes[n], q, p), 0, Codes[n], q, p)
      BY <1>1, <1>3, <3>1, RegisterFields
    <3> QED
      BY <1>5, <1>6, <3>2
  <2>2. Major = 0 /\ Minor = Codes[n] /\ Rd = q /\ Rsrc = p
    BY <2>1, FieldsRead
  <2> QED
    BY <1>1, <1>2, <1>6, <2>2 DEF TwoRegisters, TakesReg
<1>7. CASE n \notin RegToSecond
  <2>1. Reads(Fetched, 0, Codes[n], p, q)
    <3>1. 0 \in 0 .. 31
      OBVIOUS
    <3>2. Reads(RegisterWord(0, Codes[n], p, q), 0, Codes[n], p, q)
      BY <1>1, <1>3, <3>1, RegisterFields
    <3> QED
      BY <1>5, <1>7, <3>2
  <2>2. Major = 0 /\ Minor = Codes[n] /\ Rd = p /\ Rsrc = q
    BY <2>1, FieldsRead
  <2> QED
    BY <1>1, <1>2, <1>7, <2>2 DEF TwoRegisters, TakesReg
<1> QED
  BY <1>6, <1>7

LEMMA ImmediateRead ==
  ASSUME Running, Now.cond = "none",
         NEW d \in {1, 2}, NEW s \in {1, 2}, d # s,
         \/ RI(Now) /\ Here.name \in SplitToFirst /\ d = 1
         \/ IR(Now) /\ Here.name \in SplitToSecond /\ d = 2
  PROVE  AndImmediate(Here.name, d, s)
<1> DEFINE n == Here.name
           x == Now.ops[d].val
           v == Now.ops[s].val
<1>1. /\ Len(Here.ops) = 2 /\ IsR(Now.ops[d]) /\ IsI(Now.ops[s]) /\ x \in 0 .. 7 /\ v \in Int
      /\ CpuOK /\ Now.name = n /\ Fetched = Encoded(Now)
  BY FormatHere DEF RI, IR, IsR, IsI
<1>2. d \in 1 .. Len(Here.ops) /\ s \in 1 .. Len(Here.ops)
  BY <1>1
<1>3. Here.ops[d].kind = "reg" /\ Here.ops[d].val = x
  BY <1>1, <1>2, RegisterValue
<1>4. n \notin Relative
  BY DEF SplitToFirst, SplitToSecond, Relative
<1>5. Written!Value(s) = ByteOperand(v)
  BY <1>1, <1>2, <1>4, ByteValue
<1>6. InstrImm[n] = 2048 * Codes[n] /\ Codes[n] \in 8 .. 31
  BY CodesOfSplit
<1>7. Fetched = SplitWord(Codes[n], x, v)
  <2>1. /\ RI(Now) /\ n \in SplitToFirst => Encoded(Now) = SplitWord(Codes[n], Now.ops[1].val, Now.ops[2].val)
        /\ IR(Now) /\ n \in SplitToSecond => Encoded(Now) = SplitWord(Codes[n], Now.ops[2].val, Now.ops[1].val)
    BY <1>1, <1>6, WordOfSplit
  <2> QED
    BY <1>1, <2>1
<1>8. Codes[n] \in 0 .. 31
  BY <1>6
<1>9. Reads(Fetched, Codes[n], v % 32, x, (v \div 32) % 8) /\ Byte8(Fetched) = v % 256
  BY <1>1, <1>7, <1>8, SplitFields
<1>10. Major = Codes[n] /\ Rd = x
  BY <1>9, FieldsRead
<1>11. Imm8 = ByteOperand(v)
  BY <1>1, <1>9, ByteRead
<1> QED
  BY <1>1, <1>3, <1>5, <1>10, <1>11 DEF AndImmediate, TakesImm

\* What writes to its first operand, and what to its second.
LEMMA FirstRead ==
  ASSUME Running, Here.name \in (RegToFirst \ {"crd"}) \union {"srd"}
  PROVE  \/ Here.name # "srd" /\ TwoRegisters(Here.name, 1, 2)
         \/ Here.name \in SplitToFirst /\ AndImmediate(Here.name, 1, 2)
<1>1. /\ Now.cond = "none" /\ Now.name = Here.name
      /\ \/ RR(Now) /\ Here.name # "srd"
         \/ RI(Now) /\ Here.name \in SplitToFirst
  <2>1. Here.name \notin Bare \union OneRegister \union RegToSecond \union SplitToSecond
                          \union {"crd", "cwr", "lop", "int", "jmp", "cal", "s", "m", "j"}
    BY DEF RegToFirst, RegToSecond, OneRegister, Bare, SplitToSecond
  <2>2. /\ "srd" \notin (RegToFirst \union RegToSecond) \ {"mlu", "mls"}
        /\ "srd" \notin {"mlu", "mls"}
    BY DEF RegToFirst, RegToSecond
  <2> QED
    <3>1. \/ Now.cond = "none" /\ RR(Now) /\ Here.name # "srd"
          \/ Now.cond = "none" /\ RI(Now) /\ Here.name \in SplitToFirst
          \/ Here.name \in {"s", "m", "j"}
      BY <2>1, <2>2, FormatHere DEF Returning, OfRegisters, S1, M2
    <3> QED
      BY <2>1, <3>1, FormatHere
<1>2. Here.name \notin RegToSecond
  BY DEF RegToFirst, RegToSecond
<1>3. CASE RR(Now) /\ Here.name # "srd"
  BY <1>1, <1>2, <1>3, RegistersRead
<1>4. CASE RI(Now) /\ Here.name \in SplitToFirst
  BY <1>1, <1>4, ImmediateRead
<1> QED
  BY <1>1, <1>3, <1>4

LEMMA SecondRead ==
  ASSUME Running, Here.name \in SplitToSecond
  PROVE  \/ Here.name # "swr" /\ TwoRegisters(Here.name, 2, 1)
         \/ AndImmediate(Here.name, 2, 1)
<1>1. /\ Now.cond = "none" /\ Now.name = Here.name
      /\ (RR(Now) /\ Here.name # "swr") \/ IR(Now)
  <2>1. Here.name \notin Bare \union OneRegister \union RegToFirst \union SplitToFirst
                          \union {"crd", "cwr", "lop", "int", "jmp", "cal", "s", "m", "j", "mlu", "mls"}
    BY DEF RegToFirst, SplitToFirst, OneRegister, Bare, SplitToSecond
  <2>2. "swr" \notin RegToSecond
    BY DEF RegToSecond
  <2> QED
    BY <2>1, <2>2, FormatHere, Zenon DEF Returning, OfRegisters, S1, M2
<1>3. CASE RR(Now) /\ Here.name # "swr"
  <2>1. Here.name \in RegToSecond /\ Here.name \in {"mwr", "pwr"}
    BY <1>3 DEF SplitToSecond, RegToSecond
  <2> QED
    BY <1>1, <1>3, <2>1, RegistersRead
<1>4. CASE IR(Now)
  BY <1>1, <1>4, ImmediateRead
<1> QED
  BY <1>1, <1>3, <1>4

LEMMA OneRead ==
  ASSUME Running, \/ Here.name \in Bare
                  \/ Here.name \in OneRegister /\ (Here.name = "cal" => R1(Now))
  PROVE  /\ Guarded(Ending(Here.name), Row(Here.name))
         /\ Here.name \in OneRegister =>
               Len(Here.ops) = 1 /\ Here.ops[1].kind = "reg" /\ Here.ops[1].val = Rd
<1> DEFINE n == Here.name
           x == IF n \in OneRegister THEN Now.ops[1].val ELSE 0
<1>1. /\ Now.cond = "none" /\ Now.name = n /\ CpuOK /\ Fetched = Encoded(Now) /\ Len(Now.ops) = Len(Here.ops)
      /\ \/ R1(Now) /\ n \in OneRegister
         \/ Len(Now.ops) = 0 /\ n \in Bare
  <2>1. /\ n \notin RegToFirst \union RegToSecond \union SplitToFirst \union SplitToSecond
                    \union {"crd", "cwr", "lop", "int", "jmp", "s", "m", "j"} \union {"mlu", "mls"}
    BY DEF RegToFirst, RegToSecond, SplitToFirst, SplitToSecond, OneRegister, Bare
  <2>2. n \notin Bare \/ n \notin OneRegister
    BY DEF Bare, OneRegister
  <2>3. n = "cal" => n \notin Bare
    BY DEF Bare
  <2>4. \/ Now.cond = "none" /\ Len(Now.ops) = 0 /\ n \in Bare
        \/ Now.cond = "none" /\ R1(Now) /\ n \in OneRegister
        \/ n = "cal"
    BY <2>1, FormatHere DEF Returning, OfRegisters, S1, M2
  <2>5. n = "cal" => Now.cond = "none"
    BY <2>1, <2>3, FormatHere DEF Returning, OfRegisters, S1, M2
  <2> QED
    BY <2>3, <2>4, <2>5, FormatHere
<1>2. n \in OneRegister => n \notin Bare
  BY DEF OneRegister, Bare
<1>3. n \in OneRegister => /\ Len(Here.ops) = 1 /\ Here.ops[1].kind = "reg"
                           /\ Here.ops[1].val = x /\ x \in 0 .. 7
  <2> SUFFICES ASSUME n \in OneRegister
               PROVE  /\ Len(Here.ops) = 1 /\ Here.ops[1].kind = "reg"
                      /\ Here.ops[1].val = x /\ x \in 0 .. 7
    OBVIOUS
  <2>1. R1(Now)
    BY <1>1, <1>2
  <2>2. Len(Here.ops) = 1 /\ IsR(Now.ops[1])
    BY <1>1, <2>1 DEF R1
  <2>3. 1 \in 1 .. Len(Here.ops)
    BY <2>2
  <2> QED
    BY <2>2, <2>3, RegisterValue
<1>4. x \in 0 .. 7
  BY <1>3
<1>5. Fetched = RegisterWord(0, Ending(n), x, Row(n))
  <2>1. CASE n \in OneRegister
    <3>1. R1(Now) /\ Now.ops[1].val = x
      BY <1>1, <1>2, <2>1
    <3> HIDE DEF x
    <3> QED
      BY <1>1, <1>4, <2>1, <3>1, WordOfOne
  <2>2. CASE n \notin OneRegister
    <3>1. x = 0 /\ n \in Bare /\ Len(Now.ops) = 0
      BY <1>1, <2>2
    <3> HIDE DEF x
    <3> QED
      BY <1>1, <1>4, <3>1, WordOfOne
  <2> QED
    BY <2>1, <2>2
<1> HIDE DEF x
<1>6. Reads(Fetched, 0, Ending(n), x, Row(n))
  <2>1. Ending(n) \in 0 .. 31 /\ Row(n) \in 0 .. 7 /\ 0 \in 0 .. 31
    <3>1. Ending(n) \in {4, 6, 7} /\ Row(n) \in {0, 1, 2, 3, 4, 5, 6, 7}
      BY <1>1, RowsOfTables
    <3> QED
      BY <3>1
  <2> QED
    BY <1>4, <1>5, <2>1, RegisterFields
<1> QED
  BY <1>3, <1>6, FieldsRead DEF Guarded

\* An instruction that depends on condition k.
Decides(k) == k \in 0 .. 13 /\ Here.cond \in Conditions /\ HasNumber(Here.cond, k)

LEMMA ConditionHere ==
  ASSUME Running, Here.name \in {"s", "m", "j"}
  PROVE  /\ Now.name = Here.name /\ Now.cond = Here.cond /\ Now.cond \in Conditions
         /\ Here.name = "s" => S1(Now)
         /\ Here.name = "m" => M2(Now)
         /\ Here.name = "j" => I1(Now)
         /\ \E k : Decides(k)
<1>1. Here.name \notin Bare \union OneRegister \union RegToFirst \union RegToSecond \union SplitToFirst
                       \union SplitToSecond \union {"crd", "cwr", "lop", "int", "jmp", "cal", "mlu", "mls"}
  BY DEF RegToFirst, RegToSecond, SplitToFirst, SplitToSecond, OneRegister, Bare
<1>2. /\ Now.cond \in Conditions
      /\ S1(Now) \/ M2(Now) \/ (I1(Now) /\ Here.name = "j")
  BY <1>1, FormatHere DEF Returning, OfRegisters
<1>3. \E k : Decides(k)
  <2>1. PICK k \in 0 .. 13 : HasNumber(Now.cond, k)
    BY <1>2, ConditionNumbers
  <2> QED
    BY <1>2, <2>1, FormatHere DEF Decides
<1> QED
  BY <1>2, <1>3, FormatHere DEF S1, M2

LEMMA SetRead ==
  ASSUME Running, Here.name = "s"
  PROVE  \E k : /\ Decides(k)
                /\ Major = 0 /\ Minor = (IF k < 8 THEN 1 ELSE 23) /\ Rsrc = k % 8
                /\ Here.ops[1].kind = "reg" /\ Here.ops[1].val = Rd
<1>1. PICK k : Decides(k)
  BY ConditionHere
<1>2. S1(Now) /\ Now.cond = Here.cond /\ Len(Here.ops) = 1 /\ IsR(Now.ops[1]) /\ Fetched = Encoded(Now)
  BY ConditionHere, FormatHere DEF S1, R1
<1>3. 1 \in 1 .. Len(Here.ops)
  BY <1>2
<1>4. Here.ops[1].kind = "reg" /\ Here.ops[1].val = Now.ops[1].val /\ Now.ops[1].val \in 0 .. 7
  BY <1>2, <1>3, RegisterValue
<1> DEFINE x == Now.ops[1].val
           b == IF k < 8 THEN 1 ELSE 23
           y == k % 8
<1>5. Fetched = RegisterWord(0, b, x, y)
  BY <1>1, <1>2, <1>4, WordOfSet DEF Decides
<1>6. b \in 0 .. 31 /\ x \in 0 .. 7 /\ y \in 0 .. 7 /\ 0 \in 0 .. 31
  BY <1>1, <1>4 DEF Decides
<1> HIDE DEF b, x, y
<1>7. Reads(Fetched, 0, b, x, y)
  BY <1>5, <1>6, RegisterFields
<1>8. Major = 0 /\ Minor = b /\ Rd = x /\ Rsrc = y
  BY <1>7, FieldsRead
<1> QED
  BY <1>1, <1>4, <1>8 DEF b, x, y

LEMMA MoveRead ==
  ASSUME Running, Here.name = "m"
  PROVE  \E k : /\ Decides(k)
                /\ Major = 22 + (k \div 8) /\ (Fetched \div 2) % 8 = k % 8
                /\ Here.ops[1].kind = "reg" /\ Here.ops[1].val = Rd /\ Written!Value(2) = regs[Rsrc]
<1>1. PICK k : Decides(k)
  BY ConditionHere
<1>2. /\ M2(Now) /\ Now.cond = Here.cond /\ Len(Here.ops) = 2 /\ IsR(Now.ops[1]) /\ IsR(Now.ops[2])
      /\ Fetched = Encoded(Now)
  BY ConditionHere, FormatHere DEF M2, RR
<1>3. 1 \in 1 .. Len(Here.ops) /\ 2 \in 1 .. Len(Here.ops)
  BY <1>2
<1> DEFINE x == Now.ops[1].val
           y == Now.ops[2].val
           t == 22 + (k \div 8)
           b == 2 * (k % 8)
<1>4. /\ Here.ops[1].kind = "reg" /\ Here.ops[1].val = x /\ x \in 0 .. 7 /\ y \in 0 .. 7
      /\ Written!Value(2) = regs[y]
  BY <1>2, <1>3, RegisterValue DEF IsR
<1>5. Fetched = RegisterWord(t, b, x, y)
  BY <1>1, <1>2, <1>4, WordOfMove DEF Decides
<1>6. b \in 0 .. 31 /\ t \in 0 .. 31 /\ (b \div 2) % 8 = k % 8
  BY <1>1 DEF Decides
<1> HIDE DEF b, x, y, t
<1>7. Reads(Fetched, t, b, x, y)
  BY <1>4, <1>5, <1>6, RegisterFields
<1>8. Major = t /\ Rd = x /\ Rsrc = y /\ (Fetched \div 2) % 8 = k % 8
  BY <1>6, <1>7, FieldsRead
<1> QED
  BY <1>1, <1>4, <1>8 DEF x, y, t

-----------------------------------------------------------------------------
(* Where jumps and calls go to.                                              *)

LEMMA CutOnce ==
  ASSUME NEW x \in Int, NEW e \in Int
  PROVE  /\ (x + (e % 65536) + 1) % 65536 = (x + e + 1) % 65536
         /\ ((x + 1) + (e % 65536)) % 65536 = (x + (e % 65536) + 1) % 65536
         /\ (e % 65536) % 65536 = e % 65536
  OBVIOUS

\* The low bytes of a distance behind a prefix that holds the others.
Completes(u, v) == u % 256 = (v \div 256) % 256
WithLow(u, v)   == (256 * u) + (v % 256)

LEMMA PrefixedDistance ==
  ASSUME NEW u \in Int, NEW v \in Int, Completes(u, v)
  PROVE  Cut(WithLow(u, v)) = v % 65536
<1>1. v = (256 * (v \div 256)) + (v % 256)
  OBVIOUS
<1> DEFINE h == v \div 256
           l == v % 256
<1>2. h \in Int /\ l \in Int /\ u % 256 = h % 256 /\ v = (256 * h) + l
  BY <1>1 DEF Completes
<1> HIDE DEF h, l
<1>3. u = (256 * (u \div 256)) + (u % 256) /\ h = (256 * (h \div 256)) + (h % 256)
  BY <1>2
<1> DEFINE k == (u \div 256) - (h \div 256)
<1>4. k \in Int /\ u = (256 * k) + h
  BY <1>2, <1>3
<1> HIDE DEF k
<1>5. (256 * u) + l = (65536 * k) + v
  BY <1>2, <1>4
<1>6. ((65536 * k) + v) % 65536 = v % 65536
  BY <1>4
<1> QED
  BY <1>5, <1>6 DEF l, Cut, WithLow

\* What is added to the instruction pointer, of an immediate v.
Distance(v) == IF ui_modified THEN Cut((256 * ui) + (v % 256)) ELSE Cut(v)

LEMMA JumpsToTarget ==
  ASSUME Running, Here.name \in Relative, I1(Now)
  PROVE  Cut(ip + Distance(Now.ops[1].val) + 1) = Written!Wrap(Written!Target)
<1> DEFINE o == Here.ops[1]
           v == Now.ops[1].val
<1>1. /\ Len(Here.ops) = 1 /\ Now.ops[1].kind = "imm" /\ v \in Int
      /\ ip \in Int /\ ui \in Int /\ ui_modified \in BOOLEAN /\ CpuOK /\ 0 <= ip
  BY FormatHere, InstructionHere, PrefixIs DEF I1, IsI
<1>2. 1 \in 1 .. Len(Here.ops)
  BY <1>1
<1>3. /\ Fits(Here.name, o, Now.ops[1])
      /\ o.kind # "label" => Now.ops[1] = o
      /\ o.kind = "label" => Now.ops[1] = Imm(RelativeTo(ip, o.val))
  BY <1>2, OperandsHere
<1>4. Written!I.ops[Len(Written!I.ops)] = o
  BY <1>1, FormatHere
<1>5. CASE o.kind = "label"
  <2> DEFINE w == o.val
  <2>1. Written!Target = w
    BY <1>4, <1>5 DEF Written!Target
  <2>2. w \in Int
    BY <1>3, <1>5, WordIsNumber DEF Fits
  <2>3. v = w - ip - 1
    BY <1>1, <1>3, <1>5 DEF Imm, RelativeTo
  <2>4. Distance(v) = v % 65536
    <3>1. CASE ui_modified
      <4>1. Completes(ui, v)
        <5>1. o.kind # "imm"
          BY <1>5
        <5> QED
          BY <1>3, <1>5, <3>1, <5>1 DEF Fits, Completes
      <4>2. Cut(WithLow(ui, v)) = v % 65536
        BY <1>1, <4>1, PrefixedDistance
      <4> QED
        BY <3>1, <4>2 DEF Distance, WithLow
    <3>2. CASE ~ui_modified
      BY <3>2 DEF Distance, Cut
    <3> QED
      BY <1>1, <3>1, <3>2
  <2> HIDE DEF v, w
  <2>5. (ip + (v % 65536) + 1) % 65536 = w % 65536
    <3>1. ip + v + 1 = w
      BY <1>1, <2>2, <2>3
    <3> QED
      BY <1>1, <3>1, CutOnce
  <2> QED
    BY <2>1, <2>4, <2>5 DEF Cut, Written!Wrap, v, w
<1>6. CASE o.kind # "label"
  <2>1. o.kind = "imm" /\ o.val = v
    BY <1>1, <1>3, <1>6
  <2>2. CASE ui_modified
    <3> DEFINE e == (256 * ui) + (v % 256)
    <3>1. Written!Value(1) = e % 65536
      <4>1. Written!Value(1) = Written!Wrap((ui * 256) + (v % 256))
        BY <1>1, <1>4, <2>1, <2>2, PrefixIs, FormatHere DEF Written!Value, Written!NoPrefix
      <4>2. ui * 256 = 256 * ui
        BY <1>1
      <4> QED
        BY <4>1, <4>2 DEF Written!Wrap
    <3>2. e \in Int
      BY <1>1
    <3>3. Distance(v) = e % 65536
      BY <2>2 DEF Distance, Cut
    <3> HIDE DEF e
    <3>4. Written!Target = Written!Wrap(ip + 1 + (e % 65536))
      <4>1. Written!I.ops[Len(Written!I.ops)].kind = "imm" /\ Len(Written!I.ops) = 1
        BY <1>1, <1>4, <2>1, FormatHere
      <4>2. ~((IF ui_modified THEN ui ELSE -1) = Written!NoPrefix)
        BY <1>1, <2>2, PrefixIs DEF Written!NoPrefix
      <4> QED
        BY <3>1, <4>1, <4>2 DEF Written!Target
    <3>5. Written!Wrap(Written!Target) = (ip + (e % 65536) + 1) % 65536
      <4>1. ((ip + 1) + (e % 65536)) % 65536 = (ip + (e % 65536) + 1) % 65536
        BY <1>1, <3>2, CutOnce
      <4>2. ip + (e % 65536) + 1 \in Int
        BY <1>1, <3>2
      <4>3. ((ip + (e % 65536) + 1) % 65536) % 65536 = (ip + (e % 65536) + 1) % 65536
        BY <4>2, CutOnce
      <4> QED
        BY <3>4, <4>1, <4>3 DEF Written!Wrap
    <3> QED
      BY <3>3, <3>5 DEF Cut
  <2>3. CASE ~ui_modified
    <3>1. Written!Target = Written!Wrap(ip + 1 + v)
      <4>1. Written!I.ops[Len(Written!I.ops)].kind = "imm" /\ Len(Written!I.ops) = 1
        BY <1>1, <1>4, <2>1, FormatHere
      <4>2. (IF ui_modified THEN ui ELSE -1) = Written!NoPrefix
        BY <2>3 DEF Written!NoPrefix
      <4>3. Written!I.ops[Len(Written!I.ops)].val = v
        BY <1>4, <2>1
      <4> QED
        BY <4>1, <4>2, <4>3 DEF Written!Target
    <3>2. Distance(v) = v % 65536
      BY <2>3 DEF Distance, Cut
    <3> HIDE DEF v
    <3>3. (ip + (v % 65536) + 1) % 65536 = (ip + v + 1) % 65536
      BY <1>1, CutOnce DEF v
    <3>4. ((ip + 1 + v) % 65536) % 65536 = (ip + v + 1) % 65536
      <4>1. ip + 1 + v = ip + v + 1 /\ ip + v + 1 \in Int
        BY <1>1 DEF v
      <4> QED
        BY <4>1, CutOnce
    <3>5. Written!Wrap(Written!Target) = (ip + v + 1) % 65536
      BY <3>1, <3>4 DEF Written!Wrap
    <3>6. Cut(ip + Distance(v) + 1) = (ip + v + 1) % 65536
      BY <3>2, <3>3 DEF Cut
    <3> QED
      BY <3>5, <3>6 DEF v
  <2> QED
    BY <1>1, <2>2, <2>3
<1> QED
  BY <1>5, <1>6

LEMMA ByteDistance ==
  ASSUME Running, NEW v \in Int, Fetched % 256 = v % 256, ui_modified \/ (-128 <= v /\ v < 128)
  PROVE  Imm8J = Distance(v)
<1>1. v % 256 \in Int /\ (v % 256) % 256 = v % 256
  OBVIOUS
<1>2. CASE ui_modified
  BY <1>1, <1>2 DEF Imm8J, ExtendedUi, Distance
<1>3. CASE ~ui_modified
  <2>1. Signed(v % 256, 8) = v
    <3>1. -128 <= v /\ v < 128
      BY <1>3
    <3> QED
      BY <3>1 DEF Signed
  <2> QED
    BY <1>3, <2>1 DEF Imm8J, ExtendedUi, Distance
<1> QED
  BY <1>2, <1>3

LEMMA LongDistance ==
  ASSUME Running, NEW v \in Int, Fetched % 2048 = v % 2048, ui_modified \/ (-1024 <= v /\ v < 1024)
  PROVE  Imm11 = Distance(v)
<1>1. (v % 2048) % 256 = v % 256
  OBVIOUS
<1>2. CASE ui_modified
  BY <1>1, <1>2 DEF Imm11, ExtendedUi, Distance
<1>3. CASE ~ui_modified
  <2>1. Signed(v % 2048, 11) = v
    <3>1. -1024 <= v /\ v < 1024
      BY <1>3
    <3> QED
      BY <3>1 DEF Signed
  <2> QED
    BY <1>3, <2>1 DEF Imm11, ExtendedUi, Distance
<1> QED
  BY <1>2, <1>3

\* Without a prefix a distance fits into its field.
LEMMA DistanceFits ==
  ASSUME Running, Here.name \in Relative, I1(Now)
  PROVE  /\ Now.ops[1].val \in Int /\ Fetched = Encoded(Now) /\ CpuOK /\ Now.name = Here.name
         /\ ui_modified \/ (/\ -Reach(Here.name) <= Now.ops[1].val
                            /\ Now.ops[1].val < Reach(Here.name))
<1>1. Len(Here.ops) = 1 /\ Now.ops[1].kind = "imm" /\ Now.ops[1].val \in Int
  BY FormatHere DEF I1, IsI
<1>2. 1 \in 1 .. Len(Here.ops)
  BY <1>1
<1>3. /\ Fits(Here.name, Here.ops[1], Now.ops[1])
      /\ Here.ops[1].kind # "label" => Now.ops[1] = Here.ops[1]
  BY <1>2, OperandsHere
<1>4. Here.ops[1].kind \in {"label", "imm"}
  BY <1>1, <1>3
<1> QED
  BY <1>1, <1>3, <1>4, FormatHere DEF Fits

LEMMA JumpRead ==
  ASSUME Running, Here.name = "j"
  PROVE  /\ \E k : Decides(k) /\ Major \in {4, 5} /\ (Fetched \div 256) % 16 = k
         /\ Cut(ip + Imm8J + 1) = Written!Wrap(Written!Target)
<1> DEFINE v == Now.ops[1].val
<1>1. PICK k : Decides(k)
  BY ConditionHere
<1>2. I1(Now) /\ Now.cond = Here.cond /\ Now.name = "j" /\ Here.name \in Relative /\ Now.cond # "none"
  BY ConditionHere, ConditionNumbers DEF Relative
<1>3. v \in Int /\ Fetched = Encoded(Now) /\ (ui_modified \/ (-128 <= v /\ v < 128))
  BY <1>2, DistanceFits DEF Reach
<1>4. k \in 0 .. 13 /\ HasNumber(Now.cond, k)
  BY <1>1, <1>2 DEF Decides
<1> DEFINE c == 32 + k
<1>5. BaseOf(Now) = 256 * c /\ c \in 0 .. 255
  <2>1. BaseOf(Now) = 8192 + 256 * k
    BY <1>2, <1>4, BaseOfCondition DEF CondBase
  <2> QED
    BY <1>4, <2>1
<1>6. c \div 8 \in {4, 5} /\ c % 16 = k
  BY <1>4
<1> HIDE DEF c
<1>7. Fetched = ByteWord(c, v)
  BY <1>2, <1>3, <1>5, WordOfByte
<1>8. ReadsByte(Fetched, c, v)
  BY <1>3, <1>5, <1>7, ByteFields
<1>9. Major = c \div 8 /\ Fetched \div 256 = c /\ Fetched % 256 = v % 256
  BY <1>8 DEF ReadsByte, Top, Major
<1>10. Imm8J = Distance(v)
  BY <1>3, <1>9, ByteDistance
<1>11. Cut(ip + Imm8J + 1) = Written!Wrap(Written!Target)
  BY <1>2, <1>10, JumpsToTarget
<1> QED
  BY <1>1, <1>6, <1>9, <1>11

LEMMA LoopRead ==
  ASSUME Running, Here.name = "lop"
  PROVE  Major = 3 /\ Rsrc = 7 /\ Cut(ip + Imm8J + 1) = Written!Wrap(Written!Target)
<1> DEFINE v == Now.ops[1].val
<1>1. Now.cond = "none" /\ I1(Now) /\ Now.name = "lop" /\ Here.name \in Relative
  <2>1. "lop" \notin Bare \union OneRegister \union RegToFirst \union RegToSecond \union SplitToFirst
                  \union SplitToSecond \union {"crd", "cwr", "mlu", "mls"}
    BY DEF RegToFirst, RegToSecond, SplitToFirst, SplitToSecond, OneRegister, Bare
  <2> QED
    BY <2>1, FormatHere DEF Returning, OfRegisters, S1, M2, Relative
<1>2. v \in Int /\ Fetched = Encoded(Now) /\ (ui_modified \/ (-128 <= v /\ v < 128))
  BY <1>1, DistanceFits DEF Reach
<1>3. BaseOf(Now) = 256 * 31
  <2>1. ImmediateOf(Now) # 0
    BY <1>1, FirstImmediate DEF I1
  <2>2. BaseOf(Now) = InstrImm["lop"]
    BY <1>1, <2>1 DEF BaseOf
  <2> QED
    BY <2>2 DEF InstrImm
<1>4. Fetched = ByteWord(31, v)
  <2>1. 31 \in 0 .. 255
    OBVIOUS
  <2> HIDE DEF v
  <2> QED
    BY <1>1, <1>2, <1>3, <2>1, WordOfByte DEF v
<1>5. ReadsByte(Fetched, 31, v)
  BY <1>2, <1>4, ByteFields
<1>6. Major = 3 /\ Rsrc = 7 /\ Fetched % 256 = v % 256
  <2>1. 31 \div 8 = 3 /\ 31 % 8 = 7
    OBVIOUS
  <2> QED
    BY <1>5, <2>1 DEF ReadsByte, Top, S, Major, Rsrc
<1>7. Imm8J = Distance(v)
  BY <1>2, <1>6, ByteDistance
<1> QED
  BY <1>1, <1>6, <1>7, JumpsToTarget

LEMMA LongRead ==
  ASSUME Running, Here.name \in {"jmp", "cal"}, ~R1(Now)
  PROVE  /\ Major = (IF Here.name = "jmp" THEN 10 ELSE 21)
         /\ Cut(ip + Imm11 + 1) = Written!Wrap(Written!Target)
<1> DEFINE v == Now.ops[1].val
           t == IF Here.name = "jmp" THEN 10 ELSE 21
<1>1. Now.cond = "none" /\ I1(Now) /\ Now.name \in {"jmp", "cal"}
      /\ Now.name = Here.name /\ Here.name \in Relative
  <2>1. Here.name \notin Bare \union RegToFirst \union RegToSecond \union SplitToFirst
                  \union SplitToSecond \union {"crd", "cwr", "mlu", "mls"}
    BY DEF RegToFirst, RegToSecond, SplitToFirst, SplitToSecond, Bare
  <2> QED
    BY <2>1, FormatHere DEF Returning, OfRegisters, S1, M2, Relative
<1>2. v \in Int /\ Fetched = Encoded(Now) /\ (ui_modified \/ (-1024 <= v /\ v < 1024))
  BY <1>1, DistanceFits DEF Reach
<1>3. t \in 0 .. 31
  OBVIOUS
<1>4. Fetched = LongWord(t, v)
  BY <1>1, <1>2, WordOfLong
<1> HIDE DEF t
<1>5. ReadsLong(Fetched, t, v)
  BY <1>2, <1>3, <1>4, LongFields
<1>6. Major = t /\ Fetched % 2048 = v % 2048
  BY <1>5 DEF ReadsLong, Top, Major
<1>7. Imm11 = Distance(v)
  BY <1>2, <1>6, LongDistance
<1>8. Cut(ip + Imm11 + 1) = Written!Wrap(Written!Target)
  BY <1>1, <1>7, JumpsToTarget
<1> QED
  BY <1>6, <1>8 DEF t

\* The instructions that have no step here, as their words have none.
LEMMA NoStep ==
  ASSUME Running, Step
  PROVE  Here.name \notin {"int", "irt", "crd", "cwr"}
<1>1. CASE Here.name = "irt"
  <2>1. Guarded(Ending("irt"), Row("irt"))
    BY <1>1, OneRead DEF Bare
  <2> QED
    BY <2>1, StepControls DEF Ending, Row
<1>2. CASE Here.name = "int"
  <2> DEFINE v == Now.ops[1].val
  <2>1. Now.cond = "none" /\ I1(Now) /\ Now.name = "int"
    <3>1. "int" \notin Bare \union OneRegister \union RegToFirst \union RegToSecond \union SplitToFirst
                    \union SplitToSecond \union {"crd", "cwr", "mlu", "mls"}
      BY DEF RegToFirst, RegToSecond, SplitToFirst, SplitToSecond, OneRegister, Bare
    <3> QED
      BY <1>2, <3>1, FormatHere DEF Returning, OfRegisters, S1, M2
  <2>2. v \in Int /\ ImmediateOf(Now) # 0
    BY <2>1, FirstImmediate DEF I1, IsI
  <2>3. BaseOf(Now) = 256 * 16
    <3>1. BaseOf(Now) = InstrImm["int"]
      BY <2>1, <2>2 DEF BaseOf
    <3> QED
      BY <3>1 DEF InstrImm
  <2>4. Fetched = ByteWord(16, v)
    <3>1. 16 \in 0 .. 255
      OBVIOUS
    <3> HIDE DEF v
    <3> QED
      BY <2>1, <2>2, <2>3, <3>1, WordOfByte, FormatHere DEF v
  <2>5. ReadsByte(Fetched, 16, v)
    BY <2>2, <2>4, ByteFields
  <2>6. Major = 2 /\ Rsrc = 0
    <3>1. 16 \div 8 = 2 /\ 16 % 8 = 0
      OBVIOUS
    <3> QED
      BY <2>5, <3>1 DEF ReadsByte, Top, S, Major, Rsrc
  <2> QED
    BY <2>6, StepBranches
<1>3. CASE Here.name \in {"crd", "cwr"}
  <2>1. /\ Now.cond = "none" /\ Now.name = Here.name /\ Fetched = Encoded(Now)
        /\ RR(Now) \/ RI(Now) \/ IR(Now)
        /\ RI(Now) => Here.name = "crd"
        /\ IR(Now) => Here.name = "cwr"
    <3>1. Here.name \notin Bare \union OneRegister \union SplitToFirst
                    \union SplitToSecond \union {"lop", "int", "jmp", "cal", "s", "m", "j", "mlu", "mls"}
      BY <1>3 DEF SplitToFirst, SplitToSecond, OneRegister, Bare
    <3>2. ~(IR(Now) /\ RI(Now)) /\ ~(RR(Now) /\ RI(Now)) /\ ~(RR(Now) /\ IR(Now))
      BY DEF RR, RI, IR, IsR, IsI
    <3> QED
      BY <1>3, <3>1, <3>2, FormatHere DEF Returning, OfRegisters, S1, M2
  <2>2. CASE RR(Now)
    <3> DEFINE b == IF Here.name = "crd" THEN 21 ELSE 22
               x == IF Here.name = "cwr" THEN Now.ops[2].val ELSE Now.ops[1].val
               y == IF Here.name = "cwr" THEN Now.ops[1].val ELSE Now.ops[2].val
    <3>1. InstrReg[Here.name] = b
      BY <1>3 DEF InstrReg
    <3>2. /\ Here.name \in RegToFirst \union RegToSecond
          /\ Here.name \in RegToSecond <=> Here.name = "cwr"
      BY <1>3 DEF RegToFirst, RegToSecond
    <3>3. Fetched = RegisterWord(0, b, x, y)
      BY <2>1, <2>2, <3>1, <3>2, WordOfRegisters
    <3>4. x \in 0 .. 7 /\ y \in 0 .. 7 /\ b \in 0 .. 31 /\ 0 \in 0 .. 31
      BY <2>2 DEF RR, IsR
    <3> HIDE DEF x, y
    <3>5. Reads(Fetched, 0, b, x, y)
      <4> HIDE DEF b
      <4> QED
        BY <3>3, <3>4, RegisterFields
    <3>6. Major = 0 /\ Minor = b
      BY <3>5, FieldsRead
    <3> QED
      BY <3>6, StepMoves DEF TakesReg
  <2>3. CASE RI(Now) \/ IR(Now)
    <3>1. PICK x \in 0 .. 7, v \in Int :
             \/ RI(Now) /\ Now.name = "crd" /\ Now.ops[1].val = x /\ Now.ops[2].val = v
             \/ IR(Now) /\ Now.name = "cwr" /\ Now.ops[2].val = x /\ Now.ops[1].val = v
      BY <2>1, <2>3 DEF RI, IR, IsR, IsI
    <3> DEFINE b == v % 32
               y == SystemRow(Now.name)
    <3>2. Fetched = RegisterWord(2, b, x, y)
      BY <2>1, <3>1, WordOfSystem
    <3>3. b \in 0 .. 31 /\ y \in {2, 3} /\ y \in 0 .. 7 /\ 2 \in 0 .. 31
      BY DEF SystemRow
    <3> HIDE DEF b, y
    <3>4. Reads(Fetched, 2, b, x, y)
      BY <3>2, <3>3, RegisterFields
    <3>5. Major = 2 /\ Rsrc = y
      BY <3>4, FieldsRead
    <3> QED
      BY <3>3, <3>5, StepBranches
  <2> QED
    BY <2>1, <2>2, <2>3
<1> QED
  BY <1>1, <1>2, <1>3

-----------------------------------------------------------------------------
(* The last result and the flags.                                            *)

\* The flags for zero and sign are those of the last result, when one is known.
ResultDecides ==
    Len(shown) # 0 => /\ fl.z <=> shown[1] = 0
                      /\ fl.s <=> Bit15(shown[1])

LEMMA SignOfCut ==
  ASSUME NEW v \in Int
  PROVE  Bit15(v) <=> Bit15(Cut(v))
<1>1. (v \div 32768) % 2 = ((v % 65536) \div 32768) % 2
  OBVIOUS
<1> QED
  BY <1>1 DEF Bit15, Cut

LEMMA OperateShowsResult ==
  ASSUME fl \in Flags, ResultDecides, NEW op, NEW b \in Word16, regs[Rd] \in Word16,
         Operate(Operations[op - 15], b), shown' = Shown(op, b)
  PROVE  ResultDecides'
<1> DEFINE n == Operations[op - 15]
           a == regs[Rd]
<1>1. fl' = FlagsAfter(n, a, b)
  BY DEF Operate
<1>2. CASE n \in {"add", "cmp", "sub"}
  <2> DEFINE d == IF n = "add" THEN a + b ELSE a - b
  <2>1. d \in Int
    <3>1. a \in Int /\ b \in Int
      BY WordIsNumber
    <3> QED
      BY <3>1
  <2>2. fl' = ArithmeticFlags(d, a, b)
    BY <1>1, <1>2 DEF FlagsAfter, Unlimited
  <2>3. shown'[1] = Cut(d)
    <3>1. shown'[1] = IF n = "add" THEN ResultOf("add", a, b) ELSE ResultOf("sub", a, b)
      BY <1>2 DEF Shown
    <3>2. ResultOf("add", a, b) = Cut(a + b) /\ ResultOf("sub", a, b) = Cut(a - b)
      BY DEF ResultOf, Unlimited
    <3> QED
      BY <1>2, <3>1, <3>2
  <2> HIDE DEF d
  <2>4. fl'.z = (Cut(d) = 0) /\ fl'.s = Bit15(d)
    BY <2>2 DEF ArithmeticFlags
  <2>5. Bit15(d) <=> Bit15(Cut(d))
    BY <2>1, SignOfCut
  <2> QED
    BY <2>3, <2>4, <2>5 DEF ResultDecides
<1>3. CASE n = "mov"
  <2>1. fl' = fl /\ shown' = shown
    BY <1>1, <1>3 DEF FlagsAfter, Shown
  <2> QED
    BY <2>1 DEF ResultDecides
<1>4. CASE n \notin {"add", "cmp", "sub", "mov"}
  <2> DEFINE v == ResultOf(n, a, b)
  <2>1. fl' = LogicFlags(v) /\ shown'[1] = v
    BY <1>1, <1>4 DEF FlagsAfter, Shown
  <2> HIDE DEF v
  <2>2. fl'.z = (v = 0) /\ fl'.s = Bit15(v)
    BY <2>1 DEF LogicFlags, Flags
  <2> QED
    BY <2>1, <2>2 DEF ResultDecides
<1> QED
  BY <1>2, <1>3, <1>4

LEMMA ResultStays ==
  ASSUME CpuOK, ResultDecides, [Next]_vars
  PROVE  ResultDecides'
<1> USE OperandsAreWords
<1>0. fl \in Flags
  BY DEF CpuOK
<1>1. CASE OperateRegister /\ shown' = Shown(Minor, regs[Rsrc])
  BY <1>0, <1>1, OperateShowsResult DEF OperateRegister
<1>2. CASE OperateImmediate /\ shown' = Shown(Major, Imm8)
  BY <1>0, <1>2, OperateShowsResult DEF OperateImmediate
<1>3. CASE OperateOne /\ shown' = <<regs'[Rd]>>
  <2> DEFINE v == IF Rsrc = 6 THEN 65535 - regs[Rd] ELSE Cut(-regs[Rd])
  <2>1. Set(Rd, v) /\ fl' = LogicFlags(v)
    BY <1>3 DEF OperateOne
  <2> HIDE DEF v
  <2>2. Rd \in DOMAIN regs
    BY FieldsOfFetched DEF CpuOK, RegsOK, Words8, Registers16
  <2>3. shown'[1] = v
    BY <1>3, <2>1, <2>2 DEF Set
  <2>4. fl'.z = (v = 0) /\ fl'.s = Bit15(v)
    BY <1>0, <2>1 DEF LogicFlags, Flags
  <2> QED
    BY <2>3, <2>4 DEF ResultDecides
<1>4. CASE FlagStep
  <2>1. Len(shown') = 0 \/ (fl' = fl /\ shown' = shown)
    BY <1>4 DEF FlagStep, WriteAuxiliary, Auxiliary, Raise
  <2> QED
    BY <2>1 DEF ResultDecides
<1>5. CASE OtherStep
  BY <1>5, OthersKeepFlags DEF ResultDecides
<1>6. CASE PortStep
  BY <1>6 DEF PortStep, PortRead, PortWrite, SameControl, ResultDecides
<1>7. CASE UNCHANGED vars
  BY <1>7 DEF vars, cpuVars, ResultDecides
<1> QED
  BY <1>1, <1>2, <1>3, <1>4, <1>5, <1>6, <1>7 DEF Next, Step, Stopped, OperateStep

-----------------------------------------------------------------------------
(* What a condition says.                                                    *)

LEMMA NumberedAs ==
  ASSUME NEW c, NEW k \in 0 .. 13, HasNumber(c, k)
  PROVE  /\ c \in {"ge", "gz"} => k = 3
         /\ c = "gg" => k = 4
         /\ c \in {"le", "lz"} => k = 5
         /\ c = "ll" => k = 6
         /\ c = "ns" => k = 9
         /\ c \in {"nz", "ne"} => k = 10
         /\ c = "ss" => k = 12
         /\ c \in {"zz", "ee"} => k = 13
<1>1. InstrCond["j"][c] = 8192 + (256 * k)
  BY DEF HasNumber, CondBase
<1>2. /\ c \in {"ge", "gz"} => InstrCond["j"][c] = 8960
      /\ c = "gg" => InstrCond["j"][c] = 9216
      /\ c \in {"le", "lz"} => InstrCond["j"][c] = 9472
      /\ c = "ll" => InstrCond["j"][c] = 9728
      /\ c = "ns" => InstrCond["j"][c] = 10496
      /\ c \in {"nz", "ne"} => InstrCond["j"][c] = 10752
      /\ c = "ss" => InstrCond["j"][c] = 11264
      /\ c \in {"zz", "ee"} => InstrCond["j"][c] = 11520
  BY DEF InstrCond
<1> QED
  BY <1>1, <1>2

LEMMA ConditionIsTruth ==
  ASSUME fl \in Flags
  PROVE  \A k : CheckCond(k) \in BOOLEAN
  BY DEF CheckCond, Flags

LEMMA TruthHere ==
  ASSUME fl \in Flags, shown \in Seq(Word16), SignedConditionsDecide, ResultDecides, NEW k, Decides(k)
  PROVE  CheckCond(k) \in Written!Truths(Here.cond)
<1> DEFINE c == Here.cond
<1>1. CheckCond(k) \in BOOLEAN /\ k \in 0 .. 13 /\ HasNumber(c, k)
  BY ConditionIsTruth DEF Decides
<1>0. \A v : Written!Signed16(v) = Signed16(v)
  BY DEF Signed16, Written!Signed16
<1>2. CASE c \in Written!SignedConditions /\ Len(shown) = 3
  <2>1. Written!Truths(c) = {Written!True(c)}
    BY <1>2 DEF Written!Truths, Written!Decided
  <2> DEFINE a == Signed16(shown[2])
             b == Signed16(shown[3])
  <2>2. CASE c \in {"ge", "gz"}
    <3>1. k = 3 /\ (Written!True(c) = (a >= b))
      BY <1>0, <1>1, <2>2, NumberedAs DEF Written!True
    <3>2. CheckCond(3) <=> a >= b
      BY <1>2 DEF SignedConditionsDecide
    <3> QED
      BY <1>1, <2>1, <3>1, <3>2
  <2>3. CASE c = "gg"
    <3>1. k = 4 /\ (Written!True(c) = (a > b))
      BY <1>0, <1>1, <2>3, NumberedAs DEF Written!True
    <3>2. CheckCond(4) <=> a > b
      BY <1>2 DEF SignedConditionsDecide
    <3> QED
      BY <1>1, <2>1, <3>1, <3>2
  <2>4. CASE c \in {"le", "lz"}
    <3>1. k = 5 /\ (Written!True(c) = (a <= b))
      BY <1>0, <1>1, <2>4, NumberedAs DEF Written!True
    <3>2. CheckCond(5) <=> a <= b
      BY <1>2 DEF SignedConditionsDecide
    <3> QED
      BY <1>1, <2>1, <3>1, <3>2
  <2>5. CASE c = "ll"
    <3>1. k = 6 /\ (Written!True(c) = (a < b))
      BY <1>0, <1>1, <2>5, NumberedAs DEF Written!True
    <3>2. CheckCond(6) <=> a < b
      BY <1>2 DEF SignedConditionsDecide
    <3> QED
      BY <1>1, <2>1, <3>1, <3>2
  <2> QED
    BY <1>2, <2>2, <2>3, <2>4, <2>5 DEF Written!SignedConditions
<1>3. CASE c \in Written!ResultConditions /\ Len(shown) # 0
  <2>1. Written!Truths(c) = {Written!True(c)}
    BY <1>3 DEF Written!Truths, Written!Decided
  <2>2. shown[1] \in Word16
    <3>1. Len(shown) \in Nat /\ 1 \in 1 .. Len(shown)
      BY <1>3
    <3> QED
      BY <3>1
  <2>3. (fl.z <=> shown[1] = 0) /\ (fl.s <=> shown[1] >= 32768)
    BY <1>3, <2>2, SignOfWord DEF ResultDecides
  <2>4. Signed16(shown[1]) < 0 <=> shown[1] >= 32768
    <3>1. shown[1] \in Int /\ shown[1] <= 65535 /\ 0 <= shown[1]
      BY <2>2, WordIsNumber
    <3> QED
      BY <3>1 DEF Signed16
  <2>5. Signed16(shown[1]) >= 0 <=> ~(shown[1] >= 32768)
    <3>1. shown[1] \in Int /\ shown[1] <= 65535 /\ 0 <= shown[1]
      BY <2>2, WordIsNumber
    <3> QED
      BY <3>1 DEF Signed16
  <2>6. CASE c \in {"zz", "ee"}
    <3>1. k = 13 /\ (Written!True(c) = (shown[1] = 0))
      BY <1>0, <1>1, <2>6, NumberedAs DEF Written!True
    <3>2. CheckCond(13) = fl.z
      BY DEF CheckCond
    <3> QED
      BY <1>1, <2>1, <2>3, <3>1, <3>2
  <2>7. CASE c \in {"nz", "ne"}
    <3>1. k = 10 /\ (Written!True(c) = (shown[1] # 0))
      BY <1>0, <1>1, <2>7, NumberedAs DEF Written!True
    <3>2. CheckCond(10) = ~fl.z
      BY DEF CheckCond
    <3> QED
      BY <1>1, <2>1, <2>3, <3>1, <3>2
  <2>8. CASE c = "ss"
    <3>1. k = 12 /\ (Written!True(c) = (Signed16(shown[1]) < 0))
      BY <1>0, <1>1, <2>8, NumberedAs DEF Written!True
    <3>2. CheckCond(12) = fl.s
      BY DEF CheckCond
    <3> QED
      BY <1>1, <2>1, <2>3, <2>4, <3>1, <3>2
  <2>9. CASE c = "ns"
    <3>1. k = 9 /\ (Written!True(c) = (Signed16(shown[1]) >= 0))
      BY <1>0, <1>1, <2>9, NumberedAs DEF Written!True
    <3>2. CheckCond(9) = ~fl.s
      BY DEF CheckCond
    <3> QED
      BY <1>1, <2>1, <2>3, <2>5, <3>1, <3>2
  <2> QED
    BY <1>3, <2>6, <2>7, <2>8, <2>9 DEF Written!ResultConditions
<1>4. CASE ~Written!Decided(c)
  BY <1>1, <1>4 DEF Written!Truths
<1> QED
  BY <1>2, <1>3, <1>4 DEF Written!Decided

-----------------------------------------------------------------------------
(* What a step is as it is written.                                          *)

\* A program goes on in a state that the invariants allow.
Goes == /\ Running /\ Step
        /\ shown \in Seq(Word16) /\ SignedConditionsDecide /\ ResultDecides

LEMMA IsHere ==
  ASSUME Running, NEW ns, Here.name \in ns
  PROVE  Written!Is(ns) /\ Written!I = Here
<1>1. Written!I = Here /\ ip < Len(program) /\ ~halt
  BY InstructionHere, FormatHere DEF Running
<1> QED
  BY <1>1 DEF Written!Is

LEMMA OtherwiseHere ==
  ASSUME SameAux, program' = program
  PROVE  Written!Otherwise
  BY DEF SameAux, PrefixUsed, Written!Otherwise, Written!Uses, Written!NoPrefix

LEMMA UsesHere ==
  ASSUME PrefixUsed, program' = program
  PROVE  Written!Uses
  BY DEF PrefixUsed, Written!Uses, Written!NoPrefix

LEMMA GoesOnHere ==
  ASSUME NextIp
  PROVE  Written!GoesOn
  BY DEF NextIp, Cut, Written!GoesOn, Written!GoesTo, Written!Wrap

LEMMA CutIsWrap ==
  ASSUME NEW v
  PROVE  Cut(v) = Written!Wrap(v)
  BY DEF Cut, Written!Wrap

LEMMA SetsHere ==
  ASSUME NEW v, Set(Rd, v), Written!I.ops[1].val = Rd
  PROVE  Written!Sets(v)
  BY DEF Set, Written!Sets, Written!Dest

LEMMA StoresHere ==
  ASSUME NEW a, NEW v, Store(a, v)
  PROVE  Written!Stores(a, v)
  BY DEF Store, Written!Stores

LEMMA WordHere ==
  ASSUME NEW a
  PROVE  At(a) = Written!Word(a)
  BY DEF At, Written!Word

LEMMA PortsHere ==
  ASSUME UNCHANGED ioVars
  PROVE  UNCHANGED Written!portVars
  BY DEF ioVars, Written!portVars

-----------------------------------------------------------------------------
(* What computes.                                                            *)

LEMMA OperatesHere ==
  ASSUME Goes, Here.name \in Written!Binaries \union {"mov"}
  PROVE  LET n == Here.name
             a == regs[Rd]
             b == Written!Value(2)
         IN  /\ Operate(n, b)
             /\ shown' = IF n \in {"cmp", "sub"} THEN <<ResultOf("sub", a, b), a, b>>
                         ELSE IF n = "mov" THEN shown ELSE <<ResultOf(n, a, b)>>
             /\ UNCHANGED <<ioVars, program>>
             /\ Here.ops[1].val = Rd /\ a \in Word16 /\ b \in Word16
<1> DEFINE n == Here.name
           b == Written!Value(2)
<1>1. Running /\ Step /\ CpuOK
  BY DEF Goes, Running
<1>2. n \in (RegToFirst \ {"crd"}) \union {"srd"}
  BY DEF RegToFirst, Written!Binaries
<1>3. Codes[n] \in Computable /\ Operations[Codes[n] - 15] = n
  <2>1. \A m \in {"add", "sub", "cmp", "mlu", "and", "tst"} :
           Codes[m] \in Computable /\ Operations[Codes[m] - 15] = m
    BY DEF Codes, Computable, Operations
  <2>2. \A m \in {"ann", "orr", "xor", "shl", "shr", "mov"} :
           Codes[m] \in Computable /\ Operations[Codes[m] - 15] = m
    BY DEF Codes, Computable, Operations
  <2> QED
    BY <2>1, <2>2 DEF Written!Binaries
<1>4. CASE TwoRegisters(n, 1, 2)
  <2>1. TakesReg(Codes[n]) /\ b = regs[Rsrc] /\ Here.ops[1].val = Rd
    BY <1>4 DEF TwoRegisters
  <2>2. Computes(OperateRegister /\ shown' = Shown(Minor, regs[Rsrc]))
    BY <1>1, <1>3, <2>1, StepOperates
  <2>3. Minor = Codes[n]
    BY <2>1 DEF TakesReg
  <2>4. Operate(n, b) /\ shown' = Shown(Codes[n], b) /\ UNCHANGED <<ioVars, program>>
    BY <1>3, <2>1, <2>2, <2>3 DEF Computes, OperateRegister
  <2> QED
    BY <1>1, <1>3, <2>1, <2>4, OperandsAreWords DEF Shown
<1>5. CASE n \in SplitToFirst /\ AndImmediate(n, 1, 2)
  <2>1. TakesImm(Codes[n]) /\ b = Imm8 /\ Here.ops[1].val = Rd
    BY <1>5 DEF AndImmediate
  <2>2. Codes[n] # 27
    <3>1. n # "ann"
      BY <1>5 DEF SplitToFirst
    <3>2. Operations[27 - 15] = "ann"
      BY DEF Operations
    <3> QED
      BY <1>3, <3>1, <3>2
  <2>3. Computes(OperateImmediate /\ shown' = Shown(Major, Imm8))
    BY <1>1, <1>3, <2>1, <2>2, StepOperates
  <2>4. Major = Codes[n]
    BY <2>1 DEF TakesImm
  <2>5. Operate(n, b) /\ shown' = Shown(Codes[n], b) /\ UNCHANGED <<ioVars, program>>
    BY <1>3, <2>1, <2>3, <2>4 DEF Computes, OperateImmediate
  <2> QED
    BY <1>1, <1>3, <2>1, <2>5, OperandsAreWords DEF Shown
<1> QED
  BY <1>1, <1>2, <1>4, <1>5, FirstRead

LEMMA ComputeStep ==
  ASSUME Goes, Here.name \in Written!Binaries
  PROVE  Written!Compute /\ UNCHANGED Written!portVars
<1> DEFINE n == Here.name
           a == regs[Rd]
           b == Written!Value(2)
           v == Written!Computed(n, a, b)
<1>1. Running /\ Step
  BY DEF Goes
<1>2. /\ Operate(n, b) /\ program' = program /\ UNCHANGED ioVars
      /\ shown' = IF n \in {"cmp", "sub"} THEN <<ResultOf("sub", a, b), a, b>>
                  ELSE IF n = "mov" THEN shown ELSE <<ResultOf(n, a, b)>>
      /\ Here.ops[1].val = Rd /\ a \in Word16 /\ b \in Word16
  BY OperatesHere
<1>3. n # "mov"
  BY DEF Written!Binaries
<1>4. ResultOf(n, a, b) = v
  BY <1>2, ComputesAsWritten
<1>5. n \in {"cmp", "sub"} => ResultOf("sub", a, b) = ResultOf(n, a, b)
  BY DEF ResultOf, Unlimited
<1>6. Written!Is(Written!Binaries) /\ Written!I = Here
  BY <1>1, IsHere
<1>7. Written!Dest = Rd
  BY <1>2, <1>6 DEF Written!Dest
<1>8. IF n \in {"cmp", "tst"} THEN UNCHANGED regs ELSE Set(Rd, v)
  BY <1>2, <1>4 DEF Operate
<1>9. IF n \in {"cmp", "tst"} THEN UNCHANGED regs ELSE Written!Sets(v)
  BY <1>7, <1>8, SetsHere DEF Written!Dest
<1>10. shown' = IF n \in {"cmp", "sub"} THEN <<v, a, b>> ELSE <<v>>
  BY <1>2, <1>3, <1>4, <1>5
<1>11. Written!GoesOn /\ Written!Otherwise /\ UNCHANGED <<sp, mem>>
  BY <1>2, GoesOnHere, OtherwiseHere DEF Operate, SameControl
<1>12. Written!Compute
  <2> HIDE DEF n, a, b, v
  <2>1. Written!Computed(Written!I.name, regs[Written!Dest], Written!Value(2)) = v
    BY <1>6, <1>7 DEF n, a, b, v
  <2>2. Written!I.name = n /\ regs[Written!Dest] = a
    BY <1>6, <1>7 DEF n, a
  <2> QED
    BY <1>6, <1>9, <1>10, <1>11, <2>1, <2>2 DEF Written!Compute, b
<1> QED
  BY <1>2, <1>12, PortsHere

LEMMA MoveStep ==
  ASSUME Goes, Here.name = "mov"
  PROVE  Written!Move /\ UNCHANGED Written!portVars
<1> DEFINE b == Written!Value(2)
<1>1. Running /\ Step
  BY DEF Goes
<1>2. /\ Operate("mov", b) /\ program' = program /\ UNCHANGED ioVars
      /\ shown' = shown /\ Here.ops[1].val = Rd
  BY OperatesHere
<1>3. Written!Is({"mov"}) /\ Written!I = Here
  BY <1>1, IsHere
<1>4. Set(Rd, b)
  BY <1>2 DEF Operate, ResultOf
<1>5. Written!Sets(b)
  BY <1>2, <1>3, <1>4, SetsHere
<1>6. Written!GoesOn /\ Written!Otherwise /\ UNCHANGED <<sp, mem>>
  BY <1>2, GoesOnHere, OtherwiseHere DEF Operate, SameControl
<1> QED
  BY <1>2, <1>3, <1>5, <1>6, PortsHere DEF Written!Move

LEMMA ComplementStep ==
  ASSUME Goes, Here.name \in {"not", "neg"}
  PROVE  Written!Complement /\ UNCHANGED Written!portVars
<1> DEFINE a == regs[Rd]
           v == IF Here.name = "not" THEN 65535 - a ELSE Cut(-a)
<1>1. Running /\ Step /\ CpuOK
  BY DEF Goes, Running
<1>2. /\ Guarded(6, IF Here.name = "not" THEN 6 ELSE 7)
      /\ Len(Here.ops) = 1 /\ Here.ops[1].kind = "reg" /\ Here.ops[1].val = Rd
  BY <1>1, OneRead DEF OneRegister, Ending, Row
<1>3. OperateOne /\ shown' = <<regs'[Rd]>> /\ UNCHANGED ioVars /\ program' = program
  BY <1>1, <1>2, StepControls DEF Computes
<1>4. Set(Rd, v) /\ NextIp /\ SameAux /\ UNCHANGED <<sp, mem>>
  <2>1. Rsrc = IF Here.name = "not" THEN 6 ELSE 7
    BY <1>2 DEF Guarded
  <2> QED
    BY <1>3, <2>1 DEF OperateOne, SameControl
<1>5. Written!Is({"not", "neg"}) /\ Written!I = Here
  BY <1>1, IsHere
<1>6. Written!Dest = Rd
  BY <1>2, <1>5 DEF Written!Dest
<1>7. v = IF Written!I.name = "not" THEN Written!Number[(0 .. 15) \ Written!Bits(regs[Written!Dest])]
          ELSE Written!Wrap(-regs[Written!Dest])
  <2>1. a \in Word16
    BY <1>1, OperandsAreWords
  <2>2. 65535 - a = Written!Number[(0 .. 15) \ Written!Bits(a)]
    BY <2>1, ComplementComputes DEF NumberOf, Places
  <2> QED
    BY <1>5, <1>6, <2>2, CutIsWrap
<1>8. shown' = <<v>>
  <2>1. Rd \in DOMAIN regs
    BY <1>1, FieldsOfFetched DEF CpuOK, RegsOK, Words8, Registers16
  <2> QED
    BY <1>3, <1>4, <2>1 DEF Set
<1>9. Written!Sets(v)
  <2> HIDE DEF v
  <2> QED
    BY <1>2, <1>4, <1>5, SetsHere
<1>10. Written!GoesOn /\ Written!Otherwise
  BY <1>3, <1>4, GoesOnHere, OtherwiseHere
<1> HIDE DEF v
<1> QED
  BY <1>3, <1>4, <1>5, <1>7, <1>8, <1>9, <1>10, PortsHere DEF Written!Complement

-----------------------------------------------------------------------------
(* Jumps, calls and what depends on a condition.                             *)

LEMMA SetStep ==
  ASSUME Goes, Here.name = "s"
  PROVE  Written!Conditional /\ UNCHANGED Written!portVars
<1>1. Running /\ Step /\ CpuOK /\ fl \in Flags
  BY DEF Goes, Running, CpuOK
<1>2. PICK k : /\ Decides(k) /\ Major = 0 /\ Minor = (IF k < 8 THEN 1 ELSE 23) /\ Rsrc = k % 8
               /\ Here.ops[1].val = Rd
  BY <1>1, SetRead
<1>3. SetCondition /\ program' = program /\ shown' = shown /\ UNCHANGED ioVars
  BY <1>1, <1>2, StepBranches DEF Leaves
<1>4. Rsrc + (IF Minor = 23 THEN 8 ELSE 0) = k
  <2>1. k \in 0 .. 13
    BY <1>2 DEF Decides
  <2>2. (k % 8) + (IF k < 8 THEN 0 ELSE 8) = k
    BY <2>1
  <2> QED
    BY <1>2, <2>2
<1>5. Set(Rd, IF CheckCond(k) THEN 1 ELSE 0) /\ NextIp /\ SameAux /\ UNCHANGED <<sp, mem>>
  BY <1>3, <1>4 DEF SetCondition
<1>6. Written!Is({"s", "m", "j"}) /\ Written!I = Here
  BY <1>1, IsHere
<1>7. CheckCond(k) \in Written!Truths(Written!I.cond)
  BY <1>1, <1>2, <1>6, TruthHere DEF Goes
<1>8. Written!Sets(IF CheckCond(k) THEN 1 ELSE 0)
  BY <1>2, <1>5, <1>6, SetsHere
<1>9. Written!GoesOn /\ Written!Otherwise
  BY <1>3, <1>5, GoesOnHere, OtherwiseHere
<1>10. Written!I.name = "s"
  BY <1>6
<1> QED
  BY <1>3, <1>5, <1>6, <1>7, <1>8, <1>9, <1>10, PortsHere DEF Written!Conditional

LEMMA MoveConditionStep ==
  ASSUME Goes, Here.name = "m"
  PROVE  Written!Conditional /\ UNCHANGED Written!portVars
<1>1. Running /\ Step /\ CpuOK /\ fl \in Flags
  BY DEF Goes, Running, CpuOK
<1>2. PICK k : /\ Decides(k) /\ Major = 22 + (k \div 8) /\ (Fetched \div 2) % 8 = k % 8
               /\ Here.ops[1].val = Rd /\ Written!Value(2) = regs[Rsrc]
  BY <1>1, MoveRead
<1>3. k \in 0 .. 13
  BY <1>2 DEF Decides
<1>4. Major \in {22, 23} /\ 8 * (Major % 2) + (k % 8) = k
  <2> DEFINE t == k \div 8
  <2>1. t \in {0, 1} /\ (8 * t) + (k % 8) = k
    BY <1>3
  <2> HIDE DEF t
  <2>2. (22 + t) % 2 = t /\ 22 + t \in {22, 23}
    BY <2>1
  <2>3. Major = 22 + t
    BY <1>2 DEF t
  <2> QED
    BY <2>1, <2>2, <2>3
<1>5. MoveCondition /\ program' = program /\ shown' = shown /\ UNCHANGED ioVars
  BY <1>1, <1>4, StepBranches DEF Leaves
<1>6. (8 * (Major % 2)) + ((Fetched \div 2) % 8) = k
  BY <1>2, <1>4
<1>7. /\ IF CheckCond(k) THEN Set(Rd, regs[Rsrc]) ELSE UNCHANGED regs
      /\ NextIp /\ SameAux /\ UNCHANGED <<sp, mem>>
  BY <1>5, <1>6 DEF MoveCondition
<1>8. Written!Is({"s", "m", "j"}) /\ Written!I = Here
  BY <1>1, IsHere
<1>9. CheckCond(k) \in Written!Truths(Written!I.cond)
  BY <1>1, <1>2, <1>8, TruthHere DEF Goes
<1>10. IF CheckCond(k) THEN Written!Sets(Written!Value(2)) ELSE UNCHANGED regs
  BY <1>2, <1>7, <1>8, SetsHere
<1>11. Written!GoesOn /\ Written!Otherwise
  BY <1>5, <1>7, GoesOnHere, OtherwiseHere
<1>12. Written!I.name = "m"
  BY <1>8
<1> QED
  BY <1>5, <1>7, <1>8, <1>9, <1>10, <1>11, <1>12, PortsHere DEF Written!Conditional

LEMMA JumpConditionStep ==
  ASSUME Goes, Here.name = "j"
  PROVE  Written!Conditional /\ UNCHANGED Written!portVars
<1>1. Running /\ Step /\ CpuOK /\ fl \in Flags
  BY DEF Goes, Running, CpuOK
<1>2. PICK k : Decides(k) /\ Major \in {4, 5} /\ (Fetched \div 256) % 16 = k
  BY <1>1, JumpRead
<1>3. Cut(ip + Imm8J + 1) = Written!Wrap(Written!Target)
  BY <1>1, JumpRead
<1>4. JumpCondition /\ program' = program /\ shown' = shown /\ UNCHANGED ioVars
  BY <1>1, <1>2, StepBranches DEF Leaves
<1>5. /\ IF CheckCond(k) THEN Goto(ip + Imm8J + 1) ELSE NextIp
      /\ SameAux /\ UNCHANGED <<regs, sp, mem>>
  BY <1>2, <1>4 DEF JumpCondition
<1>6. Written!Is({"s", "m", "j"}) /\ Written!I = Here
  BY <1>1, IsHere
<1>7. CheckCond(k) \in Written!Truths(Written!I.cond)
  BY <1>1, <1>2, <1>6, TruthHere DEF Goes
<1>8. IF CheckCond(k) THEN Written!GoesTo(Written!Target) ELSE Written!GoesOn
  BY <1>3, <1>5, GoesOnHere DEF Goto, Written!GoesTo
<1>9. Written!Otherwise
  BY <1>4, <1>5, OtherwiseHere
<1>10. Written!I.name = "j"
  BY <1>6
<1> QED
  BY <1>4, <1>5, <1>6, <1>7, <1>8, <1>9, <1>10, PortsHere DEF Written!Conditional

LEMMA JumpStep ==
  ASSUME Goes, Here.name = "jmp"
  PROVE  Written!Jump /\ UNCHANGED Written!portVars
<1>1. Running /\ Step
  BY DEF Goes
<1>2. ~R1(Now)
  <2>1. "jmp" \notin OneRegister /\ "jmp" \notin {"s"}
    BY DEF OneRegister
  <2>2. Returning(Now) \/ OfRegisters(Now)
    BY <1>1, FormatHere
  <2>3. Now.name = "jmp"
    BY <1>1, FormatHere
  <2>4. "jmp" \notin Bare \union OneRegister \union RegToFirst \union RegToSecond \union SplitToFirst
                  \union SplitToSecond \union {"crd", "cwr", "mlu", "mls"}
    BY DEF RegToFirst, RegToSecond, SplitToFirst, SplitToSecond, OneRegister, Bare
  <2>5. I1(Now)
    BY <2>2, <2>3, <2>4 DEF Returning, OfRegisters, S1, M2
  <2> QED
    BY <2>5 DEF I1, R1, IsI, IsR
<1>3. Major = 10 /\ Cut(ip + Imm11 + 1) = Written!Wrap(Written!Target)
  BY <1>1, <1>2, LongRead
<1>4. Jump /\ program' = program /\ shown' = shown /\ UNCHANGED ioVars
  BY <1>1, <1>3, StepBranches DEF Leaves
<1>5. Goto(ip + Imm11 + 1) /\ SameAux /\ UNCHANGED <<regs, sp, mem>>
  BY <1>4 DEF Jump, SameControl
<1>6. Written!Is({"jmp"})
  BY <1>1, IsHere
<1>7. Written!GoesTo(Written!Target)
  BY <1>3, <1>5 DEF Goto, Written!GoesTo
<1> QED
  BY <1>4, <1>5, <1>6, <1>7, OtherwiseHere, PortsHere DEF Written!Jump

LEMMA LoopStep ==
  ASSUME Goes, Here.name = "lop"
  PROVE  Written!Loop /\ UNCHANGED Written!portVars
<1>1. Running /\ Step /\ CpuOK
  BY DEF Goes, Running
<1>2. Major = 3 /\ Rsrc = 7 /\ Cut(ip + Imm8J + 1) = Written!Wrap(Written!Target)
  BY <1>1, LoopRead
<1>3. Loop /\ program' = program /\ shown' = shown /\ UNCHANGED ioVars
  BY <1>1, <1>2, StepBranches DEF Leaves
<1>4. /\ lc' = Cut(lc - 1)
      /\ IF lc' # 0 THEN Goto(ip + Imm8J + 1) ELSE NextIp
      /\ PrefixUsed /\ UNCHANGED <<regs, sp, ar, mem, halt>>
  BY <1>3 DEF Loop
<1>5. Cut(lc - 1) = 0 <=> lc = 1
  <2>1. lc \in Int /\ 0 <= lc /\ lc <= 65535
    BY <1>1, WordIsNumber DEF CpuOK, AuxOK
  <2> QED
    BY <2>1 DEF Cut
<1>6. Written!Is({"lop"})
  BY <1>1, IsHere
<1>7. IF lc = 1 THEN Written!GoesOn ELSE Written!GoesTo(Written!Target)
  BY <1>2, <1>4, <1>5, GoesOnHere DEF Goto, Written!GoesTo
<1>8. lc' = Written!Wrap(lc - 1)
  BY <1>4, CutIsWrap
<1> QED
  BY <1>3, <1>4, <1>6, <1>7, <1>8, UsesHere, PortsHere DEF Written!Loop

LEMMA CallStep ==
  ASSUME Goes, Here.name = "cal"
  PROVE  Written!Call /\ UNCHANGED Written!portVars
<1>1. Running /\ Step
  BY DEF Goes
<1>2. Written!Is({"cal"}) /\ Written!I = Here
  BY <1>1, IsHere
<1>3. \E a : /\ CallTo(a) /\ Cut(a) = Written!Wrap(Written!Target)
             /\ program' = program /\ shown' = shown /\ UNCHANGED ioVars
  <2>1. CASE R1(Now)
    <3>1. /\ Guarded(6, 4)
          /\ Len(Here.ops) = 1 /\ Here.ops[1].kind = "reg" /\ Here.ops[1].val = Rd
      BY <1>1, <2>1, OneRead DEF OneRegister, Ending, Row
    <3>2. CallRegister /\ program' = program /\ shown' = shown /\ UNCHANGED ioVars
      BY <1>1, <3>1, StepControls DEF Leaves
    <3>3. Written!Target = regs[Rd]
      BY <1>2, <3>1 DEF Written!Target
    <3> QED
      BY <3>2, <3>3, CutIsWrap DEF CallRegister
  <2>2. CASE ~R1(Now)
    <3>1. Major = 21 /\ Cut(ip + Imm11 + 1) = Written!Wrap(Written!Target)
      BY <1>1, <2>2, LongRead
    <3>2. Call /\ program' = program /\ shown' = shown /\ UNCHANGED ioVars
      BY <1>1, <3>1, StepBranches DEF Leaves
    <3> QED
      BY <3>1, <3>2 DEF Call
  <2> QED
    BY <2>1, <2>2
<1>4. PICK a : /\ CallTo(a) /\ Cut(a) = Written!Wrap(Written!Target)
               /\ program' = program /\ shown' = shown /\ UNCHANGED ioVars
  BY <1>3
<1>5. /\ sp' = Cut(sp - 1) /\ Store(sp', Cut(ip + 1)) /\ Goto(a)
      /\ SameAux /\ UNCHANGED regs
  BY <1>4 DEF CallTo
<1>6. sp' = Written!Wrap(sp - 1) /\ Written!Stores(sp', Written!Wrap(ip + 1))
  BY <1>5, CutIsWrap, StoresHere
<1>7. Written!GoesTo(Written!Target)
  BY <1>4, <1>5 DEF Goto, Written!GoesTo
<1> QED
  BY <1>2, <1>4, <1>5, <1>6, <1>7, OtherwiseHere, PortsHere DEF Written!Call

LEMMA ReturnStep ==
  ASSUME Goes, Here.name = "ret"
  PROVE  Written!Return /\ UNCHANGED Written!portVars
<1>1. Running /\ Step
  BY DEF Goes
<1>2. Guarded(6, 5)
  BY <1>1, OneRead DEF Bare, Ending, Row
<1>3. Return /\ program' = program /\ shown' = shown /\ UNCHANGED ioVars
  BY <1>1, <1>2, StepControls DEF Leaves
<1>4. Goto(At(sp)) /\ sp' = Cut(sp + 1) /\ SameAux /\ UNCHANGED <<regs, mem>>
  BY <1>3 DEF Return
<1>5. Written!Is({"ret"})
  BY <1>1, IsHere
<1>6. Written!GoesTo(Written!Word(sp)) /\ sp' = Written!Wrap(sp + 1)
  BY <1>4, CutIsWrap, WordHere DEF Goto, Written!GoesTo
<1> QED
  BY <1>3, <1>4, <1>5, <1>6, OtherwiseHere, PortsHere DEF Written!Return

LEMMA PushStep ==
  ASSUME Goes, Here.name = "psh"
  PROVE  Written!Push /\ UNCHANGED Written!portVars
<1>1. Running /\ Step
  BY DEF Goes
<1>2. Guarded(6, 2) /\ Here.ops[1].val = Rd
  BY <1>1, OneRead DEF OneRegister, Ending, Row
<1>3. Push /\ program' = program /\ shown' = shown /\ UNCHANGED ioVars
  BY <1>1, <1>2, StepControls DEF Leaves
<1>4. sp' = Cut(sp - 1) /\ Store(sp', regs[Rd]) /\ NextIp /\ SameAux /\ UNCHANGED regs
  BY <1>3 DEF Push
<1>5. Written!Is({"psh"}) /\ Written!I = Here
  BY <1>1, IsHere
<1>6. sp' = Written!Wrap(sp - 1) /\ Written!Stores(sp', regs[Written!Dest])
  BY <1>2, <1>4, <1>5, CutIsWrap, StoresHere DEF Written!Dest
<1>7. Written!GoesOn /\ Written!Otherwise
  BY <1>3, <1>4, GoesOnHere, OtherwiseHere
<1> QED
  BY <1>3, <1>4, <1>5, <1>6, <1>7, PortsHere DEF Written!Push

LEMMA PopStep ==
  ASSUME Goes, Here.name = "pop"
  PROVE  Written!Pop /\ UNCHANGED Written!portVars
<1>1. Running /\ Step
  BY DEF Goes
<1>2. Guarded(6, 3) /\ Here.ops[1].val = Rd
  BY <1>1, OneRead DEF OneRegister, Ending, Row
<1>3. Pop /\ program' = program /\ shown' = shown /\ UNCHANGED ioVars
  BY <1>1, <1>2, StepControls DEF Leaves
<1>4. Set(Rd, At(sp)) /\ sp' = Cut(sp + 1) /\ NextIp /\ SameAux /\ UNCHANGED mem
  BY <1>3 DEF Pop
<1>5. Written!Is({"pop"}) /\ Written!I = Here
  BY <1>1, IsHere
<1>6. Written!Sets(Written!Word(sp)) /\ sp' = Written!Wrap(sp + 1)
  BY <1>2, <1>4, <1>5, CutIsWrap, SetsHere, WordHere
<1>7. Written!GoesOn /\ Written!Otherwise
  BY <1>3, <1>4, GoesOnHere, OtherwiseHere
<1> QED
  BY <1>3, <1>4, <1>5, <1>6, <1>7, PortsHere DEF Written!Pop

-----------------------------------------------------------------------------
(* Memory.                                                                   *)

LEMMA LoadStep ==
  ASSUME Goes, Here.name \in {"mrd", "srd"}
  PROVE  Written!Load /\ UNCHANGED Written!portVars
<1> DEFINE a == IF Here.name = "srd" THEN Cut(sp + Written!Value(2)) ELSE Written!Value(2)
<1>1. Running /\ Step
  BY DEF Goes
<1>2. Here.name \in (RegToFirst \ {"crd"}) \union {"srd"}
  BY DEF RegToFirst
<1>3. Here.ops[1].val = Rd /\ Set(Rd, At(a)) /\ Leaves(Load)
  <2>1. CASE Here.name = "mrd" /\ TwoRegisters("mrd", 1, 2)
    <3>1. TakesReg(12) /\ Written!Value(2) = regs[Rsrc] /\ Here.ops[1].val = Rd
      BY <2>1 DEF TwoRegisters, Codes
    <3>2. Leaves(Load) /\ Major = 0
      BY <1>1, <3>1, StepMoves DEF TakesReg
    <3> QED
      BY <2>1, <3>1, <3>2 DEF Leaves, Load
  <2>2. CASE Here.name = "mrd" /\ AndImmediate("mrd", 1, 2)
    <3>1. TakesImm(12) /\ Written!Value(2) = Imm8 /\ Here.ops[1].val = Rd
      BY <2>2 DEF AndImmediate, Codes
    <3>2. Leaves(Load) /\ Major = 12
      BY <1>1, <3>1, StepMoves DEF TakesImm
    <3> QED
      BY <2>2, <3>1, <3>2 DEF Leaves, Load
  <2>3. CASE Here.name = "srd" /\ AndImmediate("srd", 1, 2)
    <3>1. TakesImm(14) /\ Written!Value(2) = Imm8 /\ Here.ops[1].val = Rd
      BY <2>3 DEF AndImmediate, Codes
    <3>2. Leaves(Load) /\ Major = 14
      BY <1>1, <3>1, StepMoves DEF TakesImm
    <3> QED
      BY <2>3, <3>1, <3>2 DEF Leaves, Load
  <2> QED
    BY <1>1, <1>2, <2>1, <2>2, <2>3, FirstRead
<1>4. NextIp /\ SameAux /\ UNCHANGED <<sp, mem>> /\ program' = program /\ shown' = shown /\ UNCHANGED ioVars
  BY <1>3 DEF Leaves, Load, SameControl
<1>5. Written!Is({"mrd", "srd"}) /\ Written!I = Here
  BY <1>1, IsHere
<1>6. Written!Sets(Written!Word(a))
  <2> HIDE DEF a
  <2> QED
    BY <1>3, <1>5, SetsHere, WordHere
<1>7. Written!GoesOn /\ Written!Otherwise
  BY <1>4, GoesOnHere, OtherwiseHere
<1>8. a = IF Written!I.name = "srd" THEN Written!Wrap(sp + Written!Value(2)) ELSE Written!Value(2)
  BY <1>5, CutIsWrap
<1> HIDE DEF a
<1> QED
  BY <1>4, <1>5, <1>6, <1>7, <1>8, PortsHere DEF Written!Load

LEMMA StoreStep ==
  ASSUME Goes, Here.name \in {"mwr", "swr"}
  PROVE  Written!Store /\ UNCHANGED Written!portVars
<1> DEFINE a == IF Here.name = "swr" THEN Cut(sp + Written!Value(1)) ELSE Written!Value(1)
<1>1. Running /\ Step
  BY DEF Goes
<1>2. Here.name \in SplitToSecond
  BY DEF SplitToSecond
<1>3. Here.ops[2].val = Rd /\ Store(a, regs[Rd]) /\ Leaves(Write)
  <2>1. CASE Here.name = "mwr" /\ TwoRegisters("mwr", 2, 1)
    <3>1. TakesReg(13) /\ Written!Value(1) = regs[Rsrc] /\ Here.ops[2].val = Rd
      BY <2>1 DEF TwoRegisters, Codes
    <3>2. Leaves(Write) /\ Major = 0
      BY <1>1, <3>1, StepMoves DEF TakesReg
    <3> QED
      BY <2>1, <3>1, <3>2 DEF Leaves, Write
  <2>2. CASE Here.name = "mwr" /\ AndImmediate("mwr", 2, 1)
    <3>1. TakesImm(13) /\ Written!Value(1) = Imm8 /\ Here.ops[2].val = Rd
      BY <2>2 DEF AndImmediate, Codes
    <3>2. Leaves(Write) /\ Major = 13
      BY <1>1, <3>1, StepMoves DEF TakesImm
    <3> QED
      BY <2>2, <3>1, <3>2 DEF Leaves, Write
  <2>3. CASE Here.name = "swr" /\ AndImmediate("swr", 2, 1)
    <3>1. TakesImm(15) /\ Written!Value(1) = Imm8 /\ Here.ops[2].val = Rd
      BY <2>3 DEF AndImmediate, Codes
    <3>2. Leaves(Write) /\ Major = 15
      BY <1>1, <3>1, StepMoves DEF TakesImm
    <3> QED
      BY <2>3, <3>1, <3>2 DEF Leaves, Write
  <2> QED
    BY <1>1, <1>2, <2>1, <2>2, <2>3, SecondRead
<1>4. NextIp /\ SameAux /\ UNCHANGED <<regs, sp>> /\ program' = program /\ shown' = shown /\ UNCHANGED ioVars
  BY <1>3 DEF Leaves, Write, SameControl
<1>5. Written!Is({"mwr", "swr"}) /\ Written!I = Here
  BY <1>1, IsHere
<1>6. Written!Stores(a, regs[Written!I.ops[2].val])
  <2> HIDE DEF a
  <2> QED
    BY <1>3, <1>5, StoresHere
<1>7. Written!GoesOn /\ Written!Otherwise
  BY <1>4, GoesOnHere, OtherwiseHere
<1>8. a = IF Written!I.name = "swr" THEN Written!Wrap(sp + Written!Value(1)) ELSE Written!Value(1)
  BY <1>5, CutIsWrap
<1> HIDE DEF a
<1> QED
  BY <1>4, <1>5, <1>6, <1>7, <1>8, PortsHere DEF Written!Store

-----------------------------------------------------------------------------
(* Auxiliary registers, and what does nothing.                               *)

LEMMA FlagsReadAre ==
  ASSUME fl \in Flags
  PROVE  FlagsRead \in 0 .. 31
<1>1. /\ FlagBit(fl.d, 4) \in {0, 16} /\ FlagBit(fl.s, 3) \in {0, 8} /\ FlagBit(fl.o, 2) \in {0, 4}
      /\ FlagBit(fl.c, 1) \in {0, 2} /\ FlagBit(fl.z, 0) \in {0, 1}
  BY DEF FlagBit
<1> QED
  BY <1>1 DEF FlagsRead

LEMMA ReadAuxiliaryStep ==
  ASSUME Goes, Here.name = "xrd"
  PROVE  Written!ReadAuxiliary /\ UNCHANGED Written!portVars
<1>1. Running /\ Step /\ CpuOK /\ fl \in Flags /\ RegsOK
  BY DEF Goes, Running, CpuOK
<1>2. TakesReg(10) /\ Here.ops[1].val = Rd /\ Here.ops[2].val = Rsrc
  <2>1. "xrd" \in (RegToFirst \ {"crd"}) \union {"srd"} /\ "xrd" \notin SplitToFirst
    BY DEF RegToFirst, SplitToFirst
  <2>2. TwoRegisters("xrd", 1, 2)
    BY <1>1, <2>1, FirstRead
  <2> QED
    BY <2>2 DEF TwoRegisters, Codes
<1>3. ReadAuxiliary /\ program' = program /\ shown' = shown /\ UNCHANGED ioVars
  BY <1>1, <1>2, StepMoves DEF Leaves
<1>4. NextIp /\ SameAux /\ UNCHANGED <<sp, mem>>
  BY <1>3 DEF ReadAuxiliary, Raise, SameControl
<1>5. Written!Is({"xrd"}) /\ Written!I = Here
  BY <1>1, IsHere
<1>6. Written!Dest = Rd
  BY <1>2, <1>5 DEF Written!Dest
<1> DEFINE x == Here.ops[2].val
           known == CASE x = 0 -> {Written!Wrap(ip + 1)} [] x = 1 -> {lc} [] x = 3 -> {sp}
                      [] x = 4 -> 0 .. 31 [] x = 5 -> {ar}
                      [] OTHER -> {regs[Written!Dest]}
<1>7. \E v \in known : Set(Rd, v)
  <2>1. CASE x \in {0, 1, 3, 4, 5}
    <3> DEFINE v == CASE Rsrc = 0 -> Cut(ip + 1) [] Rsrc = 1 -> lc [] Rsrc = 3 -> sp
                      [] Rsrc = 4 -> FlagsRead [] Rsrc = 5 -> ar
    <3>1. Set(Rd, v)
      BY <1>2, <1>3, <2>1 DEF ReadAuxiliary
    <3>2. v \in known
      BY <1>1, <1>2, <2>1, FlagsReadAre, CutIsWrap
    <3> QED
      BY <3>1, <3>2
  <2>2. CASE x \notin {0, 1, 3, 4, 5}
    <3>1. regs' = regs
      BY <1>2, <1>3, <2>2 DEF ReadAuxiliary, Raise
    <3>2. Set(Rd, regs[Rd])
      BY <1>1, <3>1, FieldsOfFetched DEF Set, RegsOK, Words8, Registers16
    <3>3. regs[Rd] \in known
      BY <1>6, <2>2
    <3> QED
      BY <3>2, <3>3
  <2> QED
    BY <2>1, <2>2
<1>8. PICK v \in known : Set(Rd, v)
  BY <1>7
<1>9. Written!Sets(v)
  BY <1>2, <1>5, <1>8, SetsHere
<1>10. Written!GoesOn /\ Written!Otherwise
  BY <1>3, <1>4, GoesOnHere, OtherwiseHere
<1>11. Written!I.ops[2].val = x
  BY <1>5
<1> HIDE DEF x
<1> QED
  BY <1>3, <1>4, <1>5, <1>8, <1>9, <1>10, <1>11, PortsHere DEF Written!ReadAuxiliary

LEMMA WriteAuxiliaryStep ==
  ASSUME Goes, Here.name = "xwr"
  PROVE  Written!WriteAuxiliary /\ UNCHANGED Written!portVars
<1> DEFINE v == Written!Value(2)
<1>1. Running /\ Step /\ CpuOK
  BY DEF Goes, Running
<1>2. /\ Here.ops[1].val = Rd /\ Auxiliary(v) /\ shown' = (IF Rd = 4 THEN <<>> ELSE shown)
      /\ program' = program /\ UNCHANGED ioVars
  <2>1. "xwr" \in (RegToFirst \ {"crd"}) \union {"srd"}
    BY DEF RegToFirst
  <2>2. CASE TwoRegisters("xwr", 1, 2)
    <3>1. TakesReg(11) /\ v = regs[Rsrc] /\ Here.ops[1].val = Rd
      BY <2>2 DEF TwoRegisters, Codes
    <3>2. Computes(FlagStep) /\ Major = 0
      BY <1>1, <3>1, StepMoves DEF TakesReg
    <3> QED
      BY <3>1, <3>2 DEF Computes, FlagStep, WriteAuxiliary
  <2>3. CASE AndImmediate("xwr", 1, 2)
    <3>1. TakesImm(11) /\ v = Imm8 /\ Here.ops[1].val = Rd
      BY <2>3 DEF AndImmediate, Codes
    <3>2. Computes(FlagStep) /\ Major = 11
      BY <1>1, <3>1, StepMoves DEF TakesImm
    <3> QED
      BY <3>1, <3>2 DEF Computes, FlagStep, WriteAuxiliary
  <2> QED
    BY <1>1, <2>1, <2>2, <2>3, FirstRead
<1>3. Written!Is({"xwr"}) /\ Written!I = Here
  BY <1>1, IsHere
<1>4. Written!Dest = Rd
  BY <1>2, <1>3 DEF Written!Dest
<1>5. Rd \in 0 .. 7
  BY <1>1, FieldsOfFetched
<1> HIDE DEF v
<1>6. /\ ip' = Cut(IF Rd = 0 THEN v ELSE ip + 1)
      /\ lc' = (IF Rd = 1 THEN v ELSE lc) /\ sp' = (IF Rd = 3 THEN v ELSE sp) /\ ar' = (IF Rd = 5 THEN v ELSE ar)
      /\ (IF ui_modified' THEN ui' ELSE -1) = (IF Rd = 2 THEN v ELSE -1)
      /\ UNCHANGED <<regs, mem, halt>>
  <2>1. CASE Rd > 5
    <3>1. Raise("ina")
      BY <1>2, <2>1 DEF Auxiliary
    <3>2. Rd \notin {0, 1, 2, 3, 5}
      BY <1>5, <2>1
    <3> QED
      BY <3>1, <3>2 DEF Raise, NextIp, SameAux, PrefixUsed
  <2>2. CASE ~(Rd > 5)
    <3>1. /\ IF Rd = 0 THEN Goto(v) ELSE NextIp
          /\ lc' = (IF Rd = 1 THEN v ELSE lc)
          /\ IF Rd = 2 THEN ui' = v /\ ui_modified' = TRUE ELSE PrefixUsed
          /\ sp' = (IF Rd = 3 THEN v ELSE sp)
          /\ ar' = (IF Rd = 5 THEN v ELSE ar)
          /\ UNCHANGED <<regs, mem, halt>>
      BY <1>2, <2>2 DEF Auxiliary
    <3>2. ip' = Cut(IF Rd = 0 THEN v ELSE ip + 1)
      BY <3>1 DEF Goto, NextIp
    <3>3. (IF ui_modified' THEN ui' ELSE -1) = (IF Rd = 2 THEN v ELSE -1)
      BY <3>1 DEF PrefixUsed
    <3> QED
      BY <3>1, <3>2, <3>3
  <2> QED
    BY <2>1, <2>2
<1>7. ip' = Written!Wrap(IF Rd = 0 THEN v ELSE ip + 1)
  BY <1>6, CutIsWrap
<1>8. Written!Value(2) = v
  BY DEF v
<1> QED
  BY <1>2, <1>3, <1>4, <1>6, <1>7, <1>8, PortsHere DEF Written!WriteAuxiliary, Written!GoesTo, Written!NoPrefix

LEMMA RandomStep ==
  ASSUME Goes, Here.name = "rng"
  PROVE  Written!RandomNumber /\ UNCHANGED Written!portVars
<1>1. Running /\ Step
  BY DEF Goes
<1>2. Guarded(6, 1) /\ Here.ops[1].val = Rd
  BY <1>1, OneRead DEF OneRegister, Ending, Row
<1>3. RandomNumber /\ program' = program /\ shown' = shown /\ UNCHANGED ioVars
  BY <1>1, <1>2, StepControls DEF Leaves
<1>4. /\ \E r \in Random : Set(Rd, r)
      /\ NextIp /\ SameAux /\ UNCHANGED <<sp, mem>>
  BY <1>3 DEF RandomNumber, SameControl
<1>5. Written!Is({"rng"}) /\ Written!I = Here
  BY <1>1, IsHere
<1>6. \E r \in Random : Written!Sets(r)
  BY <1>2, <1>4, <1>5, SetsHere
<1>7. Written!GoesOn /\ Written!Otherwise
  BY <1>3, <1>4, GoesOnHere, OtherwiseHere
<1> QED
  BY <1>3, <1>4, <1>5, <1>6, <1>7, PortsHere DEF Written!RandomNumber

LEMMA NothingStep ==
  ASSUME Goes, Here.name \in {"nop", "prf", "dvu", "dvs", "mls"}
  PROVE  Written!Nothing /\ UNCHANGED Written!portVars
<1>1. Running /\ Step
  BY DEF Goes
<1>2. Leaves(DoNothing) \/ Leaves(Invalid)
  <2>1. CASE Here.name = "nop"
    <3>1. Guarded(6, 0)
      BY <1>1, <2>1, OneRead DEF Bare, Ending, Row
    <3> QED
      BY <1>1, <3>1, StepControls
  <2>2. CASE Here.name = "prf"
    <3>1. Guarded(7, 0)
      BY <1>1, <2>2, OneRead DEF OneRegister, Ending, Row
    <3> QED
      BY <1>1, <3>1, StepControls
  <2>3. CASE Here.name \in {"dvu", "dvs", "mls"}
    <3>1. Here.name \in (RegToFirst \ {"crd"}) \union {"srd"}
      BY <2>3 DEF RegToFirst
    <3>2. \/ TakesReg(Codes[Here.name])
          \/ Here.name \in SplitToFirst /\ TakesImm(Codes[Here.name])
      BY <1>1, <3>1, FirstRead DEF TwoRegisters, AndImmediate
    <3>3. Here.name \in SplitToFirst => Here.name = "mls"
      BY <2>3 DEF SplitToFirst
    <3>4. Codes["dvu"] = 2 /\ Codes["dvs"] = 3 /\ Codes["mls"] = 19
      BY DEF Codes
    <3>5. TakesReg(2) \/ TakesReg(3) \/ TakesReg(19) \/ TakesImm(19)
      BY <2>3, <3>2, <3>3, <3>4
    <3> QED
      BY <1>1, <3>5, StepMoves
  <2> QED
    BY <2>1, <2>2, <2>3
<1>3. /\ NextIp /\ SameAux /\ UNCHANGED <<regs, sp, mem>>
      /\ program' = program /\ shown' = shown /\ UNCHANGED ioVars
  BY <1>2 DEF Leaves, DoNothing, Invalid, Raise, SameControl
<1>4. Written!Is({"nop", "prf", "dvu", "dvs", "mls", "ddw"})
  BY <1>1, IsHere
<1> QED
  BY <1>3, <1>4, GoesOnHere, OtherwiseHere, PortsHere DEF Written!Nothing

LEMMA StopStep ==
  ASSUME Goes, Here.name = "hlt"
  PROVE  Written!Stop /\ UNCHANGED Written!portVars
<1>1. Running /\ Step
  BY DEF Goes
<1>2. Guarded(4, 1)
  BY <1>1, OneRead DEF Bare, Ending, Row
<1>3. Halt /\ program' = program /\ shown' = shown /\ UNCHANGED ioVars
  BY <1>1, <1>2, StepControls DEF Leaves
<1>4. Written!Is({"hlt"})
  BY <1>1, IsHere
<1> QED
  BY <1>3, <1>4, UsesHere, PortsHere DEF Halt, Written!Stop

-----------------------------------------------------------------------------
(* Ports.                                                                    *)

LEMMA PortIs ==
  ASSUME NEW p \in Word16
  PROVE  PortOf(p) = CASE p = 0  -> "cmd"
                       [] p = 14 -> "drive_addr"
                       [] p = 15 -> "drive_data"
                       [] OTHER  -> "none"
<1>1. p \in Int /\ 0 <= p /\ p <= 65535
  BY WordIsNumber
<1>2. CASE p < 1024
  <2>1. p \div 1024 = 0 /\ p % 1024 = p
    BY <1>1, <1>2
  <2> QED
    BY <2>1 DEF PortOf
<1>3. CASE ~(p < 1024)
  <2>1. p \div 1024 # 0 /\ p \notin {0, 14, 15}
    BY <1>1, <1>3
  <2> QED
    BY <2>1 DEF PortOf
<1> QED
  BY <1>2, <1>3

\* The disk is the file of the program.
DiskIsImage == disk = Image(program)

LEMMA DiskHere ==
  ASSUME ProgramOK, DiskIsImage, DiskOK, disk_addr \in Word16
  PROVE  DriveRead(disk_addr) \in Written!Disk(disk_addr)
<1> DEFINE a == disk_addr
<1>1. a \in Int /\ 0 <= a /\ Len(program) \in Nat /\ 0 \in Word16 /\ NotHex \notin Word16
  <2>1. a \in Int /\ 0 <= a
    BY WordIsNumber
  <2>2. Len(program) \in Nat
    BY JobsAssumption DEF ProgramOK
  <2>3. NotHex \notin Word16
    BY DEF NotHex, Word16
  <2> QED
    BY <2>1, <2>2, <2>3, BitIsWord
<1>0. Written!Word16 = Word16
  BY DEF Word16, Written!Word16
<1>2. DOMAIN disk = 0 .. Len(program) - 1
  BY DEF DiskIsImage, Image
<1>3. CASE a >= Len(program)
  <2>1. a \notin DOMAIN disk
    BY <1>1, <1>2, <1>3
  <2>2. DriveRead(a) = 0
    BY <2>1 DEF DriveRead
  <2>3. ~(a < Len(program))
    BY <1>1, <1>3
  <2> QED
    BY <1>3, <2>2, <2>3 DEF Written!Disk
<1>4. CASE a < Len(program) /\ program[a + 1].name = "ddw"
  <2> DEFINE i == program[a + 1]
             w == i.ops[1].val
  <2>1. /\ a \in 0 .. Len(program) - 1 /\ a + 1 \in 1 .. Len(program) /\ (a + 1) - 1 = a
        /\ ~(a >= Len(program))
    BY <1>1, <1>4
  <2>2. disk[a] = WordOf(Placed(i, a))
    BY <2>1 DEF DiskIsImage, Image
  <2>3. Len(i.ops) \in Nat /\ Assembles(Placed(i, a))
    <3>1. \A k \in 1 .. Len(program) :
             Len(program[k].ops) \in Nat /\ Assembles(Placed(program[k], k - 1))
      BY JobsAssumption DEF ProgramOK
    <3> QED
      BY <2>1, <3>1
  <2>4. Placed(i, a).name = "ddw" /\ Placed(i, a).ops =
           [k \in 1 .. Len(i.ops) |-> IF i.ops[k].kind = "label" THEN Imm(RelativeTo(-1, i.ops[k].val)) ELSE i.ops[k]]
    <3>1. "ddw" \notin Relative
      BY DEF Relative
    <3> QED
      BY <1>4, <3>1 DEF Placed, Ins
  <2>5. Len(i.ops) = 1
    <3>1. Len(Placed(i, a).ops) = Len(i.ops)
      BY <2>3, <2>4
    <3> QED
      BY <2>3, <2>4, <3>1 DEF Assembles
  <2>6. Placed(i, a).ops[1].val = w
    <3>1. 1 \in 1 .. Len(i.ops)
      BY <2>5
    <3>2. Placed(i, a).ops[1] = IF i.ops[1].kind = "label" THEN Imm(RelativeTo(-1, i.ops[1].val)) ELSE i.ops[1]
      BY <2>4, <3>1
    <3>3. RelativeTo(-1, i.ops[1].val) = i.ops[1].val
      BY DEF RelativeTo
    <3> QED
      BY <3>2, <3>3 DEF Imm
  <2>7. w \in Word16 \union {NotHex} /\ disk[a] = w
    BY <2>2, <2>3, <2>4, <2>6 DEF Assembles, WordOf
  <2> HIDE DEF w
  <2>8. DriveRead(a) = IF w \in Word16 THEN w ELSE 0
    BY <1>1, <1>2, <2>1, <2>7 DEF DriveRead
  <2>9. Written!Disk(a) = {IF w \in Word16 THEN w ELSE 0}
    BY <1>0, <1>4, <2>1 DEF Written!Disk, w
  <2> QED
    BY <2>8, <2>9
<1>5. CASE a < Len(program) /\ program[a + 1].name # "ddw"
  <2>1. DriveRead(a) \in Word16
    BY <1>1 DEF DriveRead, DiskOK
  <2>2. ~(a >= Len(program))
    BY <1>1, <1>5
  <2> QED
    BY <1>0, <1>5, <2>1, <2>2 DEF Written!Disk
<1> QED
  BY <1>1, <1>3, <1>4, <1>5

LEMMA ReadPortStep ==
  ASSUME Goes, ProgramOK, DiskIsImage, IoOK, Here.name = "prd"
  PROVE  Written!ReadPort
<1> DEFINE p == Written!Value(2)
<1>1. Running /\ Step /\ CpuOK
  BY DEF Goes, Running
<1>2. Here.ops[1].val = Rd /\ p \in Word16 /\ Set(Rd, IoRead(p))
      /\ PortRead /\ shown' = shown /\ program' = program
  <2>1. "prd" \in (RegToFirst \ {"crd"}) \union {"srd"}
    BY DEF RegToFirst
  <2>2. CASE TwoRegisters("prd", 1, 2)
    <3>1. TakesReg(8) /\ p = regs[Rsrc] /\ Here.ops[1].val = Rd
      BY <2>2 DEF TwoRegisters, Codes
    <3>2. PortRead /\ shown' = shown /\ program' = program /\ Major = 0
      BY <1>1, <3>1, StepMoves DEF TakesReg
    <3> QED
      BY <1>1, <3>1, <3>2, OperandsAreWords DEF PortRead
  <2>3. CASE AndImmediate("prd", 1, 2)
    <3>1. TakesImm(8) /\ p = Imm8 /\ Here.ops[1].val = Rd
      BY <2>3 DEF AndImmediate, Codes
    <3>2. PortRead /\ shown' = shown /\ program' = program /\ Major = 8
      BY <1>1, <3>1, StepMoves DEF TakesImm
    <3> QED
      BY <1>1, <3>1, <3>2, OperandsAreWords DEF PortRead
  <2> QED
    BY <1>1, <2>1, <2>2, <2>3, FirstRead
<1>3. NextIp /\ SameAux /\ UNCHANGED <<sp, mem, ioVars>>
  BY <1>2 DEF PortRead, SameControl
<1>4. Written!Is({"prd"}) /\ Written!I = Here
  BY <1>1, IsHere
<1>5. IoRead(p) \in Written!Answers(p)
  <2>1. DriveRead(disk_addr) \in Written!Disk(disk_addr)
    BY DiskHere DEF IoOK, PortsOK
  <2>2. PortOf(p) = CASE p = 0  -> "cmd"
                      [] p = 14 -> "drive_addr"
                      [] p = 15 -> "drive_data"
                      [] OTHER  -> "none"
    BY <1>2, PortIs
  <2> HIDE DEF p
  <2>3. IoRead(p) = CASE p = 0  -> catalyst_info_return
                      [] p = 14 -> disk_addr
                      [] p = 15 -> DriveRead(disk_addr)
                      [] OTHER  -> 0
    BY <2>2 DEF IoRead
  <2> QED
    BY <2>1, <2>3 DEF Written!Answers
<1> HIDE DEF p
<1>6. Written!Sets(IoRead(p))
  BY <1>2, <1>4, SetsHere
<1>7. Written!GoesOn /\ Written!Otherwise
  BY <1>2, <1>3, GoesOnHere, OtherwiseHere
<1> QED
  BY <1>2, <1>3, <1>4, <1>5, <1>6, <1>7, PortsHere DEF Written!ReadPort, p

LEMMA WritePortStep ==
  ASSUME Goes, Here.name = "pwr"
  PROVE  Written!WritePort
<1> DEFINE p == Written!Value(1)
<1>1. Running /\ Step /\ CpuOK
  BY DEF Goes, Running
<1>2. Here.ops[2].val = Rd /\ p \in Word16 /\ IoWrite(p, regs[Rd])
      /\ PortWrite /\ shown' = shown /\ program' = program
  <2>1. "pwr" \in SplitToSecond
    BY DEF SplitToSecond
  <2>2. CASE TwoRegisters("pwr", 2, 1)
    <3>1. TakesReg(9) /\ p = regs[Rsrc] /\ Here.ops[2].val = Rd
      BY <2>2 DEF TwoRegisters, Codes
    <3>2. PortWrite /\ shown' = shown /\ program' = program /\ Major = 0
      BY <1>1, <3>1, StepMoves DEF TakesReg
    <3> QED
      BY <1>1, <3>1, <3>2, OperandsAreWords DEF PortWrite
  <2>3. CASE AndImmediate("pwr", 2, 1)
    <3>1. TakesImm(9) /\ p = Imm8 /\ Here.ops[2].val = Rd
      BY <2>3 DEF AndImmediate, Codes
    <3>2. PortWrite /\ shown' = shown /\ program' = program /\ Major = 9
      BY <1>1, <3>1, StepMoves DEF TakesImm
    <3> QED
      BY <1>1, <3>1, <3>2, OperandsAreWords DEF PortWrite
  <2> QED
    BY <1>1, <2>1, <2>2, <2>3, SecondRead
<1>3. NextIp /\ SameAux /\ UNCHANGED <<regs, sp, mem>>
  BY <1>2 DEF PortWrite, SameControl
<1>4. Written!Is({"pwr"}) /\ Written!I = Here
  BY <1>1, IsHere
<1> DEFINE v == regs[Rd]
<1>5. /\ disk_addr' = (IF p \in {14, 15} THEN v ELSE disk_addr)
      /\ catalyst_info_return' = (CASE p = 0 /\ v = 257 -> 257
                                    [] p = 0 /\ v = 258 -> 32
                                    [] OTHER            -> catalyst_info_return)
  <2>1. PortOf(p) = CASE p = 0  -> "cmd"
                      [] p = 14 -> "drive_addr"
                      [] p = 15 -> "drive_data"
                      [] OTHER  -> "none"
    BY <1>2, PortIs
  <2>2. /\ catalyst_info_return' = IF PortOf(p) = "cmd" THEN InfoAfter(v) ELSE catalyst_info_return
        /\ disk_addr' = IF PortOf(p) \in {"drive_addr", "drive_data"} THEN v ELSE disk_addr
    BY <1>2 DEF IoWrite
  <2>3. InfoAfter(v) = CASE v = 257 -> 257 [] v = 258 -> 32 [] OTHER -> catalyst_info_return
    BY DEF InfoAfter
  <2> HIDE DEF p, v
  <2>4. p \in {14, 15} <=> PortOf(p) \in {"drive_addr", "drive_data"}
    BY <2>1
  <2>5. p = 0 <=> PortOf(p) = "cmd"
    BY <2>1
  <2> QED
    BY <2>2, <2>3, <2>4, <2>5
<1>6. Written!I.ops[2].val = Rd
  BY <1>2, <1>4
<1>7. Written!GoesOn /\ Written!Otherwise
  BY <1>2, <1>3, GoesOnHere, OtherwiseHere
<1> HIDE DEF p
<1>8. Written!Value(1) = p
  BY DEF p
<1> QED
  BY <1>2, <1>3, <1>4, <1>5, <1>6, <1>7, <1>8 DEF Written!WritePort

-----------------------------------------------------------------------------
(* All steps.                                                                *)

LEMMA ReadyToStep == Step => ~halt
<1>1. OperateStep => ~halt
  BY DEF OperateStep, OperateRegister, OperateImmediate, OperateOne, Ready
<1>2. FlagStep => ~halt
  BY DEF FlagStep, WriteAuxiliary, Ready
<1>3. PortStep => ~halt
  BY DEF PortStep, PortRead, PortWrite, Ready
<1>4. SetCondition \/ MoveCondition \/ JumpCondition \/ Jump \/ Loop => ~halt
  BY DEF SetCondition, MoveCondition, JumpCondition, Jump, Loop, Ready
<1>5. CallRegister \/ Call \/ Return \/ Push \/ Pop => ~halt
  BY DEF CallRegister, Call, Return, Push, Pop, Ready
<1>6. Load \/ Write \/ ReadAuxiliary \/ RandomNumber \/ DoNothing \/ Halt \/ Invalid => ~halt
  BY DEF Load, Write, ReadAuxiliary, RandomNumber, DoNothing, Halt, Invalid, Ready
<1>7. OtherStep => ~halt
  BY <1>4, <1>5, <1>6 DEF OtherStep
<1> QED
  BY <1>1, <1>2, <1>3, <1>7 DEF Step

Kinds == Written!Binaries \union {"mov", "not", "neg", "s", "m", "j", "jmp", "lop", "cal", "ret", "psh",
             "pop", "mrd", "srd", "mwr", "swr", "xrd", "xwr", "rng", "nop", "prf", "dvu", "dvs", "mls",
             "hlt", "prd", "pwr"}

LEMMA NamesAre ==
  ASSUME NEW n \in InstrStrings
  PROVE  n \in Kinds \union {"int", "irt", "crd", "cwr"}
  BY DEF InstrStrings, Kinds, Written!Binaries, Bare, Singles, Pairs, ToFirst, ToSecond, Relative

LEMMA StepIsWritten ==
  ASSUME Goes, ProgramOK, DiskIsImage, IoOK
  PROVE  Written!Steps
<1>1. Here.name \in Kinds
  <2>1. WellFormed(Now) /\ Now.name = Here.name
    BY InstructionHere, OperandsHere DEF Goes
  <2>2. Here.name \notin {"int", "irt", "crd", "cwr"}
    BY NoStep DEF Goes
  <2> QED
    BY <2>1, <2>2, NamesAre DEF WellFormed
<1>2. CASE Here.name \in Written!Binaries \union {"mov", "not", "neg"}
  BY <1>2, ComputeStep, MoveStep, ComplementStep DEF Written!Steps
<1>3. CASE Here.name \in {"s", "m", "j", "jmp", "lop"}
  BY <1>3, SetStep, MoveConditionStep, JumpConditionStep, JumpStep, LoopStep DEF Written!Steps
<1>4. CASE Here.name \in {"cal", "ret", "psh", "pop"}
  BY <1>4, CallStep, ReturnStep, PushStep, PopStep DEF Written!Steps
<1>5. CASE Here.name \in {"mrd", "srd", "mwr", "swr", "xrd", "xwr"}
  BY <1>5, LoadStep, StoreStep, ReadAuxiliaryStep, WriteAuxiliaryStep DEF Written!Steps
<1>6. CASE Here.name \in {"rng", "nop", "prf", "dvu", "dvs", "mls", "hlt"}
  BY <1>6, RandomStep, NothingStep, StopStep DEF Written!Steps
<1>7. CASE Here.name \in {"prd", "pwr"}
  BY <1>7, ReadPortStep, WritePortStep DEF Written!Steps
<1> QED
  BY <1>1, <1>2, <1>3, <1>4, <1>5, <1>6, <1>7 DEF Kinds

LEMMA NextIsWritten ==
  ASSUME IsaInv, ProgramOK, DiskIsImage, SignedConditionsDecide, ResultDecides, Orderly, [Next]_vars
  PROVE  [Written!Steps]_(Written!writtenVars)
<1>1. CASE Step
  <2>1. Goes
    BY <1>1, ReadyToStep DEF Goes, Running, IsaInv
  <2> QED
    BY <2>1, StepIsWritten DEF IsaInv
<1>2. CASE UNCHANGED vars
  <2>1. UNCHANGED Written!writtenVars
    BY <1>2 DEF vars, cpuVars, ioVars, Written!writtenVars, Written!portVars
  <2> QED
    BY <2>1
<1> QED
  BY <1>1, <1>2 DEF Next, Stopped

LEMMA BeginIsWritten == Init => Written!Begin
  BY DEF Init, Written!Begin, Written!NoPrefix

LEMMA DiskStays == Spec => []DiskIsImage
<1>1. Init => DiskIsImage
  BY DEF Init, Start, DiskIsImage
<1>2. DiskIsImage /\ [Next]_vars => DiskIsImage'
  <2> SUFFICES ASSUME DiskIsImage, [Next]_vars
               PROVE  DiskIsImage'
    OBVIOUS
  <2>1. disk' = disk /\ program' = program
    BY DEF Next, Step, Stopped, vars, ioVars, PortStep, PortRead, PortWrite, IoWrite
  <2> QED
    BY <2>1 DEF DiskIsImage, Image
<1> QED
  BY <1>1, <1>2, PTL DEF Spec

LEMMA ResultsDecide == Spec => []ResultDecides
<1>1. Init => ResultDecides
  BY DEF Init, ResultDecides
<1>2. ResultDecides /\ IsaInv /\ [Next]_vars => ResultDecides'
  BY ResultStays DEF IsaInv
<1>3. Init => IsaInv
  BY IsaInvInit
<1>4. IsaInv /\ [Next]_vars => IsaInv'
  BY IsaInvNext
<1> QED
  BY <1>1, <1>2, <1>3, <1>4, PTL DEF Spec

\* Every program that the verifier lets through does what is written, whatever
\* the registers hold when it starts: each step of cosi (instruction_execute()) on
\* the words of sasm (code_gen()) is the step of the instruction that is written
\* there, as long as its operands fit and ip is at an instruction nothing wrote over.
THEOREM ExecutesAsWritten == Spec /\ []Orderly => ImplementsWritten
<1>1. Init => Written!Begin
  BY BeginIsWritten
<1>2. /\ IsaInv /\ ProgramOK /\ DiskIsImage /\ SignedConditionsDecide /\ ResultDecides /\ Orderly
      /\ [Next]_vars
      => [Written!Steps]_(Written!writtenVars)
  BY NextIsWritten
<1>3. Init => IsaInv
  BY IsaInvInit
<1>4. IsaInv /\ [Next]_vars => IsaInv'
  BY IsaInvNext
<1>5. Spec => [](ProgramOK /\ DiskIsImage /\ SignedConditionsDecide /\ ResultDecides)
  BY ProgramStays, DiskStays, ConditionsDecide, ResultsDecide, PTL
<1> QED
  BY <1>1, <1>2, <1>3, <1>4, <1>5, PTL DEF Spec, ImplementsWritten, Written!Spec
=============================================================================
