------------------------- MODULE VoleExchangeProofs -------------------------
(***************************************************************************)
(* Theorems about the last challenge, vole_commit and vole_reconstruct for *)
(* every parameter set and every challenge: how the bits of the challenge  *)
(* are shared between the vectors, that the bytewise test of the grinding  *)
(* bits is exact, that both hold where the indices are used, and that the  *)
(* verifier's columns are the signer's plus the challenge bits times u.    *)
(***************************************************************************)
EXTENDS VoleExchange, FiniteSets, FiniteSetTheorems, FunctionTheorems, NaturalsInduction,
        WellFoundedInduction, TLAPS

(* Facts about products and division that Z3 needs to be told.             *)
LEMMA Distribute ==
  ASSUME NEW a \in Int, NEW b \in Int, NEW fac \in Int
  PROVE  /\ a * fac \in Int
         /\ (a + b) * fac = a * fac + b * fac
         /\ (a - b) * fac = a * fac - b * fac
         /\ (a + 1) * fac = a * fac + fac
OBVIOUS

LEMMA Monotone ==
  ASSUME NEW a \in Int, NEW b \in Int, NEW fac \in Nat, a <= b
  PROVE  a * fac <= b * fac
OBVIOUS

LEMMA DivMod ==
  ASSUME NEW a \in Nat, NEW b \in Nat \ {0}
  PROVE  /\ a \div b \in Nat /\ a % b \in 0 .. b - 1
         /\ a = (a \div b) * b + (a % b)
OBVIOUS

LEMMA Quotient ==
  ASSUME NEW a \in Nat, NEW b \in Nat \ {0}
  PROVE  \E quo \in Nat : quo * b <= a /\ a < (quo + 1) * b
<1>1. PICK quo \in Nat, rem \in 0 .. b - 1 : a = quo * b + rem
  BY DivMod
<1>2. (quo + 1) * b = quo * b + b /\ quo * b \in Int
  BY Distribute
<1> QED
  BY <1>1, <1>2

(* Multiples of b are ordered as their factors.                            *)
LEMMA FactorsOrdered ==
  ASSUME NEW a \in Int, NEW fac \in Int, NEW b \in Nat \ {0}, a * b < fac * b + b
  PROVE  a <= fac
<1> SUFFICES ASSUME fac + 1 <= a PROVE FALSE
  OBVIOUS
<1>1. (fac + 1) * b <= a * b
  BY Monotone
<1> QED
  BY <1>1, Distribute

(* Quotient and remainder are unique.                                      *)
LEMMA QuotientIs ==
  ASSUME NEW a \in Nat, NEW b \in Nat \ {0}, NEW h \in Nat, NEW t \in 0 .. b - 1,
         a = h * b + t
  PROVE  a \div b = h /\ a % b = t
<1>1. PICK d \in Nat : d = a \div b
  BY DivMod
<1>2. PICK m \in 0 .. b - 1 : m = a % b
  BY DivMod
<1>3. a = d * b + m
  BY <1>1, <1>2, DivMod
<1>4. d * b \in Int /\ h * b \in Int
  BY Distribute
<1>5. d <= h
  <2>1. d * b < h * b + b
    BY <1>3, <1>4
  <2> QED
    BY <2>1, FactorsOrdered
<1>6. h <= d
  <2>1. h * b < d * b + b
    BY <1>3, <1>4
  <2> QED
    BY <2>1, FactorsOrdered
<1>7. d = h
  BY <1>5, <1>6
<1> QED
  BY <1>1, <1>2, <1>3, <1>4, <1>7

-----------------------------------------------------------------------------
(* Every nonempty set of natural numbers has a least element ...           *)
LEMMA LeastNumber ==
  ASSUME NEW T \in SUBSET Nat, T # {}
  PROVE  \E x \in T : \A y \in T : x <= y
<1> DEFINE R == OpToRel(<, Nat)
<1>1. IsWellFoundedOn(R, Nat)
  BY NatLessThanWellFounded
<1>2. \A x, y \in Nat : y < x => <<y, x>> \in R
  BY DEF OpToRel
<1> HIDE DEF R
<1>3. PICK x \in T : \A y \in T : ~ (<<y, x>> \in R)
  BY <1>1, WFMin
<1>4. ASSUME NEW y \in T PROVE x <= y
  <2>1. x \in Nat /\ y \in Nat /\ ~ (y < x)
    BY <1>2, <1>3
  <2> QED
    BY <2>1
<1> QED
  BY <1>4

(* ... so that a set with 0 and with every successor has them all.         *)
LEMMA Induction ==
  ASSUME NEW S, 0 \in S, \A n \in Nat : n \in S => n + 1 \in S
  PROVE  \A n \in Nat : n \in S
<1> SUFFICES ASSUME Nat \ S # {} PROVE FALSE
  OBVIOUS
<1>1. PICK x \in Nat \ S : \A y \in Nat \ S : x <= y
  BY LeastNumber
<1>2. x # 0 /\ x \in Nat
  BY <1>1
<1>3. PICK y \in Nat : x = y + 1
  <2>1. x - 1 \in Nat /\ x = x - 1 + 1
    BY <1>2
  <2> QED
    BY <2>1
<1>4. y \in S
  BY <1>1, <1>3
<1> QED
  BY <1>1, <1>3, <1>4

-----------------------------------------------------------------------------
(* Powers of two, counted as sets.                                         *)
LEMMA PowerIsSubsets ==
  ASSUME NEW n \in Nat
  PROVE  /\ IsFiniteSet(SUBSET (1 .. n))
         /\ 2 ^ n = Cardinality(SUBSET (1 .. n))
<1>1. IsFiniteSet(1 .. n) /\ Cardinality(1 .. n) = n
  <2>1. /\ IsFiniteSet(1 .. n)
        /\ Cardinality(1 .. n) = IF 1 > n THEN 0 ELSE n - 1 + 1
    BY FS_Interval
  <2> QED
    BY <2>1
<1> QED
  BY <1>1, FS_SUBSET

LEMMA PowerNat == \A n \in Nat : 2 ^ n \in Nat \ {0}
<1> SUFFICES ASSUME NEW n \in Nat PROVE 2 ^ n \in Nat \ {0}
  OBVIOUS
<1>1. 2 ^ n \in Nat
  BY PowerIsSubsets, FS_CardinalityType
<1>2. 2 ^ n # 0
  <2>1. {} \in SUBSET (1 .. n)
    OBVIOUS
  <2>2. Cardinality(SUBSET (1 .. n)) # 0
    BY <2>1, PowerIsSubsets, FS_EmptySet
  <2> QED
    BY <2>2, PowerIsSubsets
<1> QED
  BY <1>1, <1>2

LEMMA PowerStep == \A n \in Nat : 2 ^ (n + 1) = 2 * 2 ^ n
<1> SUFFICES ASSUME NEW n \in Nat PROVE 2 ^ (n + 1) = 2 * 2 ^ n
  OBVIOUS
<1> DEFINE A == SUBSET (1 .. n)
           B == {X \union {n + 1} : X \in A}
           f == [X \in A |-> X \union {n + 1}]
<1>1. \A X \in A : n + 1 \notin X
  OBVIOUS
<1>2. f \in Bijection(A, B)
  <2>1. f \in [A -> B]
    OBVIOUS
  <2>2. ASSUME NEW X \in A, NEW Y \in A, f[X] = f[Y] PROVE X = Y
    BY <1>1, <2>2
  <2>3. \A Y \in B : \E X \in A : f[X] = Y
    OBVIOUS
  <2> HIDE DEF f, A, B
  <2> QED
    BY <2>1, <2>2, <2>3, Fun_IsBij
<1>3. IsFiniteSet(A) /\ 2 ^ n = Cardinality(A)
  BY PowerIsSubsets
<1>4. IsFiniteSet(B) /\ Cardinality(B) = Cardinality(A)
  <2> HIDE DEF f, A, B
  <2>1. ExistsBijection(A, B)
    BY <1>2 DEF ExistsBijection
  <2> QED
    BY <1>3, <2>1, FS_Bijection
<1>5. SUBSET (1 .. n + 1) = A \union B
  <2>1. A \union B \subseteq SUBSET (1 .. n + 1)
    <3>1. ASSUME NEW X \in A, NEW z \in X \union {n + 1} PROVE z \in 1 .. n + 1
      OBVIOUS
    <3> QED
      BY <3>1
  <2>2. ASSUME NEW X \in SUBSET (1 .. n + 1), X \notin A PROVE X \in B
    <3>1. X \ {n + 1} \in A
      OBVIOUS
    <3>2. n + 1 \in X
      BY <2>2
    <3>3. (X \ {n + 1}) \union {n + 1} = X
      BY <3>2
    <3> QED
      BY <3>1, <3>3
  <2> QED
    BY <2>1, <2>2
<1>6. A \cap B = {}
  BY <1>1
<1>7. Cardinality(A \union B) = Cardinality(A) + Cardinality(B) - Cardinality({})
  <2> HIDE DEF A, B
  <2> QED
    BY <1>3, <1>4, <1>6, FS_Union
<1>8. 2 ^ (n + 1) = Cardinality(A \union B)
  <2>1. n + 1 \in Nat
    OBVIOUS
  <2>2. 2 ^ (n + 1) = Cardinality(SUBSET (1 .. n + 1))
    BY <2>1, PowerIsSubsets
  <2> QED
    BY <1>5, <2>2
<1>9. Cardinality({}) = 0 /\ 2 ^ n \in Nat
  BY FS_EmptySet, PowerNat
<1> QED
  BY <1>3, <1>4, <1>7, <1>8, <1>9

-----------------------------------------------------------------------------
(* A power of two is an even multiple of every smaller one.                *)
LEMMA PowerMultiple ==
  \A x \in Nat : \A d \in 0 .. x - 1 : \E m \in Nat : 2 ^ x = (2 * m) * 2 ^ d
<1> DEFINE S == {x \in Nat : \A d \in 0 .. x - 1 : \E m \in Nat : 2 ^ x = (2 * m) * 2 ^ d}
<1>1. 0 \in S
  OBVIOUS
<1>2. ASSUME NEW x \in Nat, x \in S PROVE x + 1 \in S
  <2> SUFFICES ASSUME NEW d \in 0 .. x PROVE \E m \in Nat : 2 ^ (x + 1) = (2 * m) * 2 ^ d
    OBVIOUS
  <2>1. CASE d = x
    <3>1. 2 ^ (x + 1) = (2 * 1) * 2 ^ d
      BY <2>1, PowerStep
    <3> QED
      BY <3>1
  <2>2. CASE d # x
    <3>1. d \in 0 .. x - 1 /\ d \in Nat
      BY <2>2
    <3>2. PICK m \in Nat : 2 ^ x = (2 * m) * 2 ^ d
      BY <1>2, <3>1
    <3>3. PICK e \in Nat : e = 2 ^ d
      BY <3>1, PowerNat
    <3>4. 2 * ((2 * m) * e) = (2 * (2 * m)) * e
      OBVIOUS
    <3>5. PICK k \in Nat : k = 2 * m
      OBVIOUS
    <3>6. 2 ^ (x + 1) = (2 * k) * 2 ^ d
      BY <3>2, <3>3, <3>4, <3>5, PowerStep
    <3> QED
      BY <3>6
  <2> QED
    BY <2>1, <2>2
<1> HIDE DEF S
<1>3. \A x \in Nat : x \in S
  BY <1>1, <1>2, Induction
<1> QED
  BY <1>3 DEF S

(* Adding bit x to a number of x bits leaves the others alone.             *)
LEMMA BitAdded ==
  ASSUME NEW x \in Nat, NEW s \in 0 .. 2 ^ x - 1, NEW b \in Bit
  PROVE  /\ s + b * 2 ^ x \in 0 .. 2 ^ (x + 1) - 1
         /\ BitOf(s + b * 2 ^ x, x) = b
         /\ \A d \in 0 .. x - 1 : BitOf(s + b * 2 ^ x, d) = BitOf(s, d)
<1>1. PICK p \in Nat \ {0} : p = 2 ^ x
  BY PowerNat
<1>2. s \in Nat /\ s \in 0 .. p - 1
  BY <1>1
<1>3. b \in {0, 1}
  BY DEF Bit
<1>4. s + b * p \in Nat /\ s + b * p < 2 * p /\ s + b * p = b * p + s
  BY <1>2, <1>3
<1>5. (s + b * p) \div p = b
  BY <1>2, <1>3, <1>4, QuotientIs
<1>6. BitOf(s + b * 2 ^ x, x) = b
  BY <1>1, <1>3, <1>5 DEF BitOf
<1>7. ASSUME NEW d \in 0 .. x - 1 PROVE BitOf(s + b * 2 ^ x, d) = BitOf(s, d)
  <2>1. d \in Nat
    OBVIOUS
  <2>2. PICK e \in Nat \ {0} : e = 2 ^ d
    BY <2>1, PowerNat
  <2>3. PICK m \in Nat : p = (2 * m) * e
    BY <1>1, <2>2, PowerMultiple
  <2>4. PICK h \in Nat, t \in 0 .. e - 1 : s = h * e + t /\ h = s \div e
    BY <1>2, DivMod
  <2>5. CASE b = 0
    <3>1. s + b * p = s
      BY <1>2, <2>5
    <3> QED
      BY <1>1, <3>1
  <2>6. CASE b = 1
    <3>1. s + b * p = h * e + t + (2 * m) * e
      BY <1>2, <2>3, <2>4, <2>6
    <3>2. h * e \in Int /\ (2 * m) * e \in Int /\ (h + 2 * m) * e = h * e + (2 * m) * e
      BY Distribute
    <3>3. s + b * p = (h + 2 * m) * e + t
      BY <3>1, <3>2
    <3>4. (s + b * p) \div e = h + 2 * m
      BY <1>4, <3>3, QuotientIs
    <3>5. (h + 2 * m) % 2 = h % 2
      OBVIOUS
    <3> QED
      BY <1>1, <2>2, <2>4, <3>4, <3>5 DEF BitOf
  <2> QED
    BY <1>3, <2>5, <2>6
<1> QED
  BY <1>1, <1>4, <1>6, <1>7, PowerStep

(* Halving the quotient by a power of two takes off the next bit.          *)
LEMMA Halved ==
  ASSUME NEW a \in Nat, NEW d \in Nat
  PROVE  /\ a \div 2 ^ d \in Nat /\ a \div 2 ^ (d + 1) \in Nat /\ BitOf(a, d) \in Bit
         /\ a \div 2 ^ d = 2 * (a \div 2 ^ (d + 1)) + BitOf(a, d)
<1>1. PICK e \in Nat \ {0} : e = 2 ^ d
  BY PowerNat
<1>2. 2 ^ (d + 1) = 2 * e
  BY <1>1, PowerStep
<1>3. PICK h \in Nat, t \in 0 .. e - 1 : a = h * e + t /\ h = a \div e
  BY DivMod
<1>4. PICK g \in Nat, b \in 0 .. 1 : h = g * 2 + b /\ b = h % 2
  BY DivMod
<1>5. a = g * (2 * e) + (b * e + t)
  <2>1. h * e = (g * 2) * e + b * e
    BY <1>4, Distribute
  <2>2. (g * 2) * e = g * (2 * e) /\ (g * 2) * e \in Int /\ b * e \in Int
    OBVIOUS
  <2> QED
    BY <1>3, <2>1, <2>2
<1>6. b * e + t \in 0 .. 2 * e - 1
  BY <1>3
<1>7. a \div (2 * e) = g
  <2>1. PICK f \in Nat \ {0} : f = 2 * e
    OBVIOUS
  <2> QED
    BY <1>5, <1>6, <2>1, QuotientIs
<1> QED
  BY <1>1, <1>2, <1>3, <1>4, <1>7 DEF BitOf, Bit

(* Numbers of n bits that agree in every bit are equal.                    *)
LEMMA BitsDetermine ==
  \A n \in Nat : \A a, b \in 0 .. 2 ^ n - 1 :
    (\A d \in 0 .. n - 1 : BitOf(a, d) = BitOf(b, d)) => a = b
<1> DEFINE P(n) == \A a, b \in 0 .. 2 ^ n - 1 :
                     (\A d \in 0 .. n - 1 : BitOf(a, d) = BitOf(b, d)) => a = b
           S == {n \in Nat : P(n)}
<1>1. 0 \in S
  OBVIOUS
<1>2. ASSUME NEW n \in Nat, n \in S PROVE n + 1 \in S
  <2>1. PICK p \in Nat \ {0} : p = 2 ^ n /\ 2 ^ (n + 1) = 2 * p
    BY PowerNat, PowerStep
  <2>2. \A a \in 0 .. 2 ^ (n + 1) - 1 :
          /\ a \in Nat /\ a % p \in 0 .. 2 ^ n - 1
          /\ a = (a % p) + BitOf(a, n) * p
          /\ \A d \in 0 .. n - 1 : BitOf(a, d) = BitOf(a % p, d)
    <3> SUFFICES ASSUME NEW a \in 0 .. 2 * p - 1
                 PROVE  /\ a \in Nat /\ a % p \in 0 .. 2 ^ n - 1
                        /\ a = (a % p) + BitOf(a, n) * p
                        /\ \A d \in 0 .. n - 1 : BitOf(a, d) = BitOf(a % p, d)
      BY <2>1
    <3>1. PICK h \in Nat, t \in 0 .. p - 1 : a = h * p + t /\ h = a \div p /\ t = a % p
      BY DivMod
    <3>2. h \in {0, 1}
      <4>1. h * p < 1 * p + p
        BY <3>1
      <4>2. h <= 1
        BY <4>1, FactorsOrdered
      <4> QED
        BY <4>2
    <3>3. BitOf(a, n) = h
      <4>1. h % 2 = h
        BY <3>2
      <4> QED
        BY <2>1, <3>1, <4>1 DEF BitOf
    <3>4. \A d \in 0 .. n - 1 : BitOf(t + h * 2 ^ n, d) = BitOf(t, d)
      BY <2>1, <3>1, <3>2, BitAdded DEF Bit
    <3>5. t + h * 2 ^ n = a
      BY <2>1, <3>1, <3>2
    <3> QED
      BY <2>1, <3>1, <3>2, <3>3, <3>4, <3>5
  <2>3. ASSUME NEW a \in 0 .. 2 ^ (n + 1) - 1, NEW b \in 0 .. 2 ^ (n + 1) - 1,
               \A d \in 0 .. n : BitOf(a, d) = BitOf(b, d)
        PROVE  a = b
    <3>1. BitOf(a, n) = BitOf(b, n)
      BY <2>3
    <3>2. a % p = b % p
      <4>1. \A d \in 0 .. n - 1 : BitOf(a % p, d) = BitOf(b % p, d)
        BY <2>2, <2>3
      <4>2. P(n)
        BY <1>2
      <4>3. a % p \in 0 .. 2 ^ n - 1 /\ b % p \in 0 .. 2 ^ n - 1
        BY <2>2
      <4> QED
        BY <4>1, <4>2, <4>3
    <3> QED
      BY <2>2, <3>1, <3>2
  <2> QED
    BY <2>3
<1> HIDE DEF S
<1>3. \A n \in Nat : n \in S
  BY <1>1, <1>2, Induction
<1> QED
  BY <1>3 DEF S

-----------------------------------------------------------------------------
(* The sum of num_rec_2 exists: each partial sum extends the one before.   *)
LEMMA SumExists ==
  ASSUME NEW len \in Nat, NEW bits \in [0 .. len - 1 -> Bit]
  PROVE  \E f : f = [x \in 0 .. len |-> IF x = 0 THEN 0
                                        ELSE f[x - 1] + bits[x - 1] * 2 ^ (x - 1)]
<1> DEFINE P(n) == \E f : f = [x \in 0 .. n |-> IF x = 0 THEN 0
                                                ELSE f[x - 1] + bits[x - 1] * 2 ^ (x - 1)]
           S == {n \in Nat : P(n)}
<1>1. 0 \in S
  <2>1. [x \in 0 .. 0 |-> 0] =
          [x \in 0 .. 0 |-> IF x = 0 THEN 0
             ELSE [y \in 0 .. 0 |-> 0][x - 1] + bits[x - 1] * 2 ^ (x - 1)]
    OBVIOUS
  <2> QED
    BY <2>1
<1>2. ASSUME NEW n \in Nat, n \in S PROVE n + 1 \in S
  <2>1. PICK f : f = [x \in 0 .. n |-> IF x = 0 THEN 0
                                       ELSE f[x - 1] + bits[x - 1] * 2 ^ (x - 1)]
    BY <1>2
  <2> DEFINE g == [x \in 0 .. n + 1 |->
                     IF x = n + 1 THEN f[n] + bits[n] * 2 ^ n ELSE f[x]]
  <2>2. ASSUME NEW x \in 0 .. n + 1
        PROVE  g[x] = IF x = 0 THEN 0 ELSE g[x - 1] + bits[x - 1] * 2 ^ (x - 1)
    <3>1. CASE x = n + 1
      <4>1. x - 1 = n /\ g[n] = f[n] /\ g[x] = f[n] + bits[n] * 2 ^ n /\ x # 0
        BY <3>1
      <4> HIDE DEF g
      <4> QED
        BY <4>1
    <3>2. CASE x # n + 1
      <4>1. x \in 0 .. n /\ g[x] = f[x]
        BY <3>2
      <4>2. x # 0 => g[x - 1] = f[x - 1]
        BY <4>1
      <4>3. f[x] = IF x = 0 THEN 0 ELSE f[x - 1] + bits[x - 1] * 2 ^ (x - 1)
        BY <2>1, <4>1
      <4> HIDE DEF g
      <4> QED
        BY <4>1, <4>2, <4>3
    <3> QED
      BY <3>1, <3>2
  <2>3. g = [x \in 0 .. n + 1 |-> g[x]]
    OBVIOUS
  <2>4. g = [x \in 0 .. n + 1 |-> IF x = 0 THEN 0
                                  ELSE g[x - 1] + bits[x - 1] * 2 ^ (x - 1)]
    <3> HIDE DEF g
    <3> QED
      BY <2>2, <2>3
  <2>5. P(n + 1)
    <3> HIDE DEF g
    <3> QED
      BY <2>4
  <2> QED
    BY <2>5
<1> HIDE DEF S
<1>3. \A n \in Nat : n \in S
  BY <1>1, <1>2, Induction
<1> QED
  BY <1>3 DEF S

(* num_rec_2 makes the number that has the given bits; if those from n on  *)
(* are clear it is below 2^n.                                              *)
LEMMA NumRecFacts ==
  ASSUME NEW len \in Nat, NEW bits \in [0 .. len - 1 -> Bit], NEW n \in 0 .. len,
         \A d \in n .. len - 1 : bits[d] = 0
  PROVE  /\ NumRec(bits, len) \in 0 .. 2 ^ n - 1
         /\ \A d \in 0 .. len - 1 : BitOf(NumRec(bits, len), d) = bits[d]
<1> DEFINE F(f) == [x \in 0 .. len |-> IF x = 0 THEN 0
                                       ELSE f[x - 1] + bits[x - 1] * 2 ^ (x - 1)]
           sum == CHOOSE f : f = F(f)
<1>1. sum = F(sum)
  <2>1. \E f : f = F(f)
    BY SumExists
  <2> HIDE DEF F
  <2> QED
    BY <2>1
<1>2. NumRec(bits, len) = sum[len]
  BY DEF NumRec
<1> HIDE DEF sum
<1>3. sum[0] = 0
  BY <1>1
<1>4. \A x \in 0 .. len - 1 : sum[x + 1] = sum[x] + bits[x] * 2 ^ x
  <2> SUFFICES ASSUME NEW x \in 0 .. len - 1
               PROVE  sum[x + 1] = sum[x] + bits[x] * 2 ^ x
    OBVIOUS
  <2>1. x + 1 \in 0 .. len /\ x + 1 # 0 /\ x + 1 - 1 = x
    OBVIOUS
  <2>2. PICK w : w = x + 1
    OBVIOUS
  <2>3. sum[w] = sum[w - 1] + bits[w - 1] * 2 ^ (w - 1)
    BY <1>1, <2>1, <2>2
  <2> QED
    BY <2>1, <2>2, <2>3
<1> DEFINE P(x) == /\ sum[x] \in 0 .. 2 ^ x - 1
                   /\ x >= n => sum[x] \in 0 .. 2 ^ n - 1
                   /\ \A d \in 0 .. x - 1 : BitOf(sum[x], d) = bits[d]
           S == {x \in Nat : x <= len => P(x)}
<1>5. 0 \in S
  <2>1. 2 ^ 0 = 1
    OBVIOUS
  <2>2. 0 >= n => n = 0
    OBVIOUS
  <2>3. 0 >= n => sum[0] \in 0 .. 2 ^ n - 1
    BY <1>3, <2>1, <2>2
  <2>4. sum[0] \in 0 .. 2 ^ 0 - 1
    BY <1>3, <2>1
  <2>5. \A d \in 0 .. 0 - 1 : BitOf(sum[0], d) = bits[d]
    OBVIOUS
  <2> QED
    BY <2>3, <2>4, <2>5
<1>6. ASSUME NEW x \in Nat, x \in S PROVE x + 1 \in S
  <2> SUFFICES ASSUME x + 1 <= len PROVE P(x + 1)
    OBVIOUS
  <2>1. P(x) /\ x \in 0 .. len - 1
    BY <1>6
  <2>2. PICK s \in 0 .. 2 ^ x - 1 : s = sum[x]
    BY <2>1
  <2>3. PICK b \in Bit : b = bits[x]
    BY <2>1
  <2>4. sum[x + 1] = s + b * 2 ^ x
    BY <1>4, <2>1, <2>2, <2>3
  <2>5. /\ s + b * 2 ^ x \in 0 .. 2 ^ (x + 1) - 1
        /\ BitOf(s + b * 2 ^ x, x) = b
        /\ \A d \in 0 .. x - 1 : BitOf(s + b * 2 ^ x, d) = BitOf(s, d)
    BY BitAdded
  <2>6. x + 1 >= n => sum[x + 1] \in 0 .. 2 ^ n - 1
    <3>1. CASE x >= n
      <4>1. b = 0 /\ s \in 0 .. 2 ^ n - 1
        BY <2>1, <2>2, <2>3, <3>1
      <4>2. 2 ^ x \in Int /\ 2 ^ n \in Int
        OBVIOUS
      <4>3. b * 2 ^ x = 0
        BY <4>1, <4>2
      <4> QED
        BY <2>4, <4>1, <4>2, <4>3
    <3>2. CASE x + 1 = n
      BY <2>4, <2>5, <3>2
    <3> QED
      BY <3>1, <3>2
  <2>7. ASSUME NEW d \in 0 .. x PROVE BitOf(sum[x + 1], d) = bits[d]
    BY <2>1, <2>2, <2>3, <2>4, <2>5
  <2> QED
    BY <2>4, <2>5, <2>6, <2>7
<1> HIDE DEF S
<1>7. len \in S
  BY <1>5, <1>6, Induction
<1>8. P(len)
  BY <1>7 DEF S
<1> QED
  BY <1>2, <1>8

-----------------------------------------------------------------------------
(* The bounds of decode_chall_3.                                           *)
LEMMA StartIs == Start = Tau1 * K + (Tau - Tau1) * (K - 1) /\ Start \in Nat
<1>1. Tau * (K - 1) = Tau1 * (K - 1) + (Tau - Tau1) * (K - 1)
  BY ChallengeAssumption, Distribute
<1>2. Tau1 * (K - 1) = Tau1 * K - Tau1
  BY ChallengeAssumption
<1>3. 0 * (K - 1) <= Tau * (K - 1)
  BY ChallengeAssumption, Monotone
<1> QED
  BY <1>1, <1>2, <1>3, ChallengeAssumption, Distribute DEF Start

LEMMA BoundsTyped ==
  ASSUME NEW vec \in Vectors
  PROVE  Lo(vec) \in Int /\ Hi(vec) \in Int /\ Depth(vec) \in Nat
BY ChallengeAssumption DEF Lo, Hi, Depth, Vectors

(* decode_chall_3 gives vector v depth(v) bits, starting where vector v-1  *)
(* ended: none is used twice and none between them is left out.            *)
LEMMA Adjacent ==
  ASSUME NEW vec \in Vectors
  PROVE  /\ Hi(vec) = Lo(vec) + Depth(vec)
         /\ vec + 1 \in Vectors => Lo(vec + 1) = Hi(vec)
<1> USE ChallengeAssumption DEF Vectors
<1>1. Hi(vec) = Lo(vec) + Depth(vec)
  <2>1. CASE vec < Tau1
    BY <2>1, Distribute DEF Lo, Hi, Depth
  <2>2. CASE ~ vec < Tau1
    <3>1. (vec - Tau1 + 1) * (K - 1) = (vec - Tau1) * (K - 1) + (K - 1)
      BY Distribute
    <3> QED
      BY <2>2, <3>1, Distribute DEF Lo, Hi, Depth
  <2> QED
    BY <2>1, <2>2
<1>2. ASSUME vec + 1 \in Vectors PROVE Lo(vec + 1) = Hi(vec)
  <2>1. CASE vec + 1 < Tau1
    BY <2>1 DEF Lo, Hi
  <2>2. CASE vec + 1 = Tau1
    <3>1. Lo(vec + 1) = Tau1 * K + 0 * (K - 1) /\ Hi(vec) = Tau1 * K
      BY <2>2 DEF Lo, Hi
    <3> QED
      BY <3>1
  <2>3. CASE vec + 1 > Tau1
    <3>1. vec + 1 - Tau1 = vec - Tau1 + 1
      OBVIOUS
    <3> QED
      BY <2>3, <3>1 DEF Lo, Hi
  <2> QED
    BY <2>1, <2>2, <2>3
<1> QED
  BY <1>1, <1>2

(* The bits of vector v lie below the grinding bits.                       *)
LEMMA BoundsInside ==
  ASSUME NEW vec \in Vectors
  PROVE  0 <= Lo(vec) /\ Lo(vec) <= Hi(vec) /\ Hi(vec) <= Start
<1> USE ChallengeAssumption DEF Vectors
<1>1. 0 * K <= vec * K /\ 0 * K <= Tau1 * K /\ 0 * (K - 1) <= (Tau - Tau1) * (K - 1)
  BY Monotone
<1>2. vec < Tau1 => (vec + 1) * K <= Tau1 * K
  BY Monotone
<1>3. vec >= Tau1 => /\ 0 * (K - 1) <= (vec - Tau1) * (K - 1)
                     /\ (vec - Tau1 + 1) * (K - 1) <= (Tau - Tau1) * (K - 1)
  BY Monotone
<1>4. 0 <= Lo(vec)
  BY <1>1, <1>3, Distribute DEF Lo
<1>5. Hi(vec) <= Start
  <2>1. CASE vec < Tau1
    BY <2>1, <1>1, <1>2, StartIs, Distribute DEF Hi
  <2>2. CASE vec >= Tau1
    BY <2>2, <1>3, StartIs, Distribute DEF Hi
  <2> QED
    BY <2>1, <2>2
<1>6. Lo(vec) <= Hi(vec)
  BY Adjacent, BoundsTyped
<1> QED
  BY <1>4, <1>5, <1>6

(* A vector's bits end before those of every later one begin.              *)
LEMMA Ordered ==
  ASSUME NEW vec \in Vectors, NEW w \in Vectors, vec < w
  PROVE  Hi(vec) <= Lo(w)
<1> USE ChallengeAssumption DEF Vectors
<1>1. CASE w < Tau1
  <2>1. (vec + 1) * K <= w * K
    BY Monotone
  <2> QED
    BY <1>1, <2>1 DEF Lo, Hi
<1>2. CASE vec < Tau1 /\ w >= Tau1
  <2>1. (vec + 1) * K <= Tau1 * K /\ 0 * (K - 1) <= (w - Tau1) * (K - 1)
    BY <1>2, Monotone
  <2> QED
    BY <1>2, <2>1, Distribute DEF Lo, Hi
<1>3. CASE vec >= Tau1
  <2>1. (vec - Tau1 + 1) * (K - 1) <= (w - Tau1) * (K - 1)
    BY <1>3, Monotone
  <2> QED
    BY <1>3, <2>1, Distribute DEF Lo, Hi
<1> QED
  BY <1>1, <1>2, <1>3

(* Every bit of chall_3 below the grinding bits belongs to the leaf index  *)
(* of exactly one vector (decode_chall_3, called for every vector).        *)
THEOREM EveryBitUsedOnce ==
  ASSUME NEW fac \in 0 .. Start - 1
  PROVE  \E vec \in Vectors :
           /\ fac \in Lo(vec) .. Hi(vec) - 1
           /\ \A w \in Vectors \ {vec} : fac \notin Lo(w) .. Hi(w) - 1
<1> USE ChallengeAssumption
<1>0. fac \in Nat /\ Start \in Nat
  BY StartIs
<1>1. \E vec \in Vectors : fac \in Lo(vec) .. Hi(vec) - 1
  <2>1. CASE fac < Tau1 * K
    <3>1. PICK vec \in Nat : vec * K <= fac /\ fac < (vec + 1) * K
      BY <1>0, Quotient
    <3>2. vec < Tau1
      <4> SUFFICES ASSUME Tau1 <= vec PROVE FALSE
        BY <3>1
      <4>1. Tau1 * K <= vec * K
        BY <3>1, Monotone
      <4> QED
        BY <2>1, <3>1, <4>1, <1>0, Distribute
    <3>3. vec \in Vectors /\ fac \in Lo(vec) .. Hi(vec) - 1
      BY <3>1, <3>2, <1>0, Distribute DEF Vectors, Lo, Hi
    <3> QED
      BY <3>3
  <2>2. CASE fac >= Tau1 * K
    <3> DEFINE rest == fac - Tau1 * K
    <3>1. rest \in Nat /\ rest < (Tau - Tau1) * (K - 1)
      BY <2>2, <1>0, StartIs, Distribute
    <3>2. K - 1 \in Nat \ {0}
      <4>1. K = 1 => (Tau - Tau1) * (K - 1) = 0
        OBVIOUS
      <4> QED
        BY <3>1, <4>1
    <3>3. PICK quo \in Nat : quo * (K - 1) <= rest /\ rest < (quo + 1) * (K - 1)
      BY <3>1, <3>2, Quotient
    <3> DEFINE vec == Tau1 + quo
    <3>4. quo < Tau - Tau1
      <4> SUFFICES ASSUME Tau - Tau1 <= quo PROVE FALSE
        BY <3>3
      <4>1. (Tau - Tau1) * (K - 1) <= quo * (K - 1)
        BY <3>2, <3>3, Monotone
      <4> QED
        BY <3>1, <3>2, <3>3, <4>1, Distribute
    <3>5. vec \in Vectors /\ vec >= Tau1 /\ vec - Tau1 = quo
      BY <3>3, <3>4 DEF Vectors
    <3>6. /\ Lo(vec) = Tau1 * K + quo * (K - 1)
          /\ Hi(vec) = Tau1 * K + (quo + 1) * (K - 1)
      <4>1. ~ (vec < Tau1)
        BY <3>5
      <4> QED
        BY <4>1, <3>5 DEF Lo, Hi
    <3>7. fac \in Lo(vec) .. Hi(vec) - 1
      BY <3>1, <3>2, <3>3, <3>6, <1>0, Distribute
    <3> QED
      BY <3>5, <3>7
  <2> QED
    BY <2>1, <2>2, <1>0, Distribute
<1>2. PICK vec \in Vectors : fac \in Lo(vec) .. Hi(vec) - 1
  BY <1>1
<1>3. ASSUME NEW w \in Vectors \ {vec} PROVE fac \notin Lo(w) .. Hi(w) - 1
  <2>1. vec < w \/ w < vec
    BY DEF Vectors
  <2>2. Hi(vec) <= Lo(w) \/ Hi(w) <= Lo(vec)
    BY <2>1, Ordered
  <2> QED
    BY <1>2, <2>2, BoundsTyped
<1> QED
  BY <1>2, <1>3
-----------------------------------------------------------------------------
(***************************************************************************)
(* The inductive invariant of the check and the decoding.                  *)
(***************************************************************************)
Indices == {NumRec(t, 2 * ByteBits) : t \in [0 .. 2 * ByteBits - 1 -> Bit]}

Places ==
  /\ pc \in {"start", "check", "vector", "bit", "decoded", "rejected"}
  /\ bytes \in 0 .. Lambda \div ByteBits
  /\ pc = "check" => Start <= bytes * ByteBits
  /\ i \in 0 .. Tau
  /\ pc = "bit" => i < Tau /\ j \in Lo(i) .. Hi(i)
  /\ j \in 0 .. Start

Values ==
  /\ chall \in [0 .. Lambda - 1 -> Bit]
  /\ res \in BOOLEAN
  /\ tmp \in [0 .. 2 * ByteBits - 1 -> Bit]
  /\ decoded \in Seq(Indices) /\ Len(decoded) = i

(* A bit from lo on, below hi, is set.                                     *)
SomeSet(lo, hi) == \E x \in lo .. hi - 1 : chall[x] = 1

(* The loop has found a bit if and only if one is set so far.              *)
Found ==
  /\ pc = "check" => (res <=> SomeSet(Start, bytes * ByteBits))
  /\ pc = "rejected" => SomeSet(Start, Lambda)
  /\ pc \in {"vector", "bit", "decoded"} => ~ SomeSet(Start, Lambda)

IInv == Places /\ Values /\ Found

(* The bits of byte b from position shift on.                              *)
LEMMA ByteIsRange ==
  ASSUME NEW b \in Nat, NEW shift \in 0 .. ByteBits - 1
  PROVE  ByteSet(b, shift) <=> SomeSet(b * ByteBits + shift, (b + 1) * ByteBits)
<1> USE ByteAssumption
<1> DEFINE base == b * ByteBits
<1>1. base \in Nat /\ (b + 1) * ByteBits = base + ByteBits
  <2>1. 0 * ByteBits <= b * ByteBits
    BY Monotone
  <2> QED
    BY <2>1, Distribute
<1> HIDE DEF base
<1>2. ByteSet(b, shift) <=> \E x \in shift .. ByteBits - 1 : chall[base + x] = 1
  BY DEF ByteSet, base
<1>3. ASSUME NEW x \in shift .. ByteBits - 1, chall[base + x] = 1
      PROVE  SomeSet(base + shift, base + ByteBits)
  BY <1>1, <1>3 DEF SomeSet
<1>4. ASSUME NEW y \in base + shift .. base + ByteBits - 1, chall[y] = 1
      PROVE  \E x \in shift .. ByteBits - 1 : chall[base + x] = 1
  <2>1. y - base \in shift .. ByteBits - 1 /\ base + (y - base) = y
    BY <1>1
  <2> QED
    BY <1>4, <2>1
<1> QED
  BY <1>1, <1>2, <1>3, <1>4 DEF SomeSet, base

LEMMA WholeBytes == Lambda = (Lambda \div ByteBits) * ByteBits /\ Lambda \div ByteBits \in Nat
                    /\ Lambda \in Nat /\ Start <= Lambda
<1>1. Lambda \in Nat /\ Start <= Lambda
  BY StartIs, ChallengeAssumption DEF Start
<1>2. /\ Lambda = (Lambda \div ByteBits) * ByteBits + (Lambda % ByteBits)
      /\ Lambda \div ByteBits \in Nat
  BY <1>1, DivMod, ByteAssumption
<1>3. (Lambda \div ByteBits) * ByteBits \in Int
  BY <1>2, ByteAssumption, Distribute
<1> QED
  BY <1>1, <1>2, <1>3, ByteAssumption

(* Where the byte loop starts.                                             *)
LEMMA FirstByte ==
  LET s == Start \div ByteBits
  IN  /\ s \in Nat /\ Start % ByteBits \in 0 .. ByteBits - 1
      /\ Start = s * ByteBits + (Start % ByteBits)
      /\ FirstWholeByte = IF Start % ByteBits = 0 THEN s ELSE s + 1
<1> USE ByteAssumption
<1> DEFINE s == Start \div ByteBits
           rem == Start % ByteBits
           e == Start + ByteBits - 1
           f == e \div ByteBits
<1>1. s \in Nat /\ rem \in 0 .. ByteBits - 1 /\ Start = s * ByteBits + rem /\ Start \in Nat
  BY StartIs, DivMod
<1>10. e \in Nat
  BY <1>1
<1>2. f \in Nat /\ (e % ByteBits) \in 0 .. ByteBits - 1
      /\ e = f * ByteBits + (e % ByteBits)
  <2> HIDE DEF e
  <2> QED
    BY <1>10, DivMod
<1> DEFINE g == IF rem = 0 THEN s ELSE s + 1
<1>3. FirstWholeByte = f
  BY DEF FirstWholeByte
<1> HIDE DEF s, rem, f
<1>4. (s + 1) * ByteBits = s * ByteBits + ByteBits /\ s * ByteBits \in Int /\ f * ByteBits \in Int
  BY <1>1, <1>2, Distribute
<1>5. /\ g \in Int
      /\ g * ByteBits < f * ByteBits + ByteBits
      /\ f * ByteBits < g * ByteBits + ByteBits
  BY <1>1, <1>2, <1>4
<1> HIDE DEF g
<1>6. f <= g /\ g <= f
  BY <1>2, <1>5, FactorsOrdered
<1>11. f \in Int /\ g \in Int
  BY <1>2, <1>5
<1>7. f = g
  BY <1>11, <1>6
<1> QED
  BY <1>1, <1>3, <1>7 DEF s, rem, g

LEMMA StartCheckIInv == IInv /\ StartCheck => IInv'
<1> SUFFICES ASSUME IInv, StartCheck PROVE IInv'
  OBVIOUS
<1> USE ByteAssumption
<1> DEFINE s == Start \div ByteBits
           rem == Start % ByteBits
           n == Lambda \div ByteBits
<1>1. /\ s \in Nat /\ rem \in 0 .. ByteBits - 1 /\ Start = s * ByteBits + rem
      /\ FirstWholeByte = IF rem = 0 THEN s ELSE s + 1
  BY FirstByte
<1>2. Lambda = n * ByteBits /\ n \in Nat /\ Start <= Lambda /\ Start \in Nat
  BY WholeBytes, StartIs
<1>3. res' = (rem # 0 /\ ByteSet(s, rem)) /\ bytes' = FirstWholeByte /\ pc' = "check"
      /\ UNCHANGED <<chall, i, j, tmp, decoded>>
  BY DEF StartCheck
<1>4. ByteSet(s, rem) <=> SomeSet(s * ByteBits + rem, (s + 1) * ByteBits)
  BY <1>1, ByteIsRange
<1> HIDE DEF s, rem, n
<1>5. (s + 1) * ByteBits = s * ByteBits + ByteBits /\ s * ByteBits \in Int
  BY <1>1, Distribute
<1>6. FirstWholeByte \in Nat /\ Start <= FirstWholeByte * ByteBits
  BY <1>1, <1>5
<1>7. FirstWholeByte <= n
  <2>1. FirstWholeByte * ByteBits < n * ByteBits + ByteBits
    BY <1>1, <1>2, <1>5
  <2> QED
    BY <2>1, <1>2, <1>6, FactorsOrdered
<1>8. Places'
  BY <1>2, <1>3, <1>6, <1>7 DEF IInv, Places, n
<1>9. Values'
  BY <1>3 DEF IInv, Values, StartCheck
<1>10. (rem # 0 /\ ByteSet(s, rem)) <=> SomeSet(Start, FirstWholeByte * ByteBits)
  <2>1. CASE rem = 0
    BY <2>1, <1>1, <1>5 DEF SomeSet
  <2>2. CASE rem # 0
    BY <2>2, <1>1, <1>4
  <2> QED
    BY <2>1, <2>2
<1>11. Found'
  BY <1>3, <1>10 DEF Found, SomeSet
<1> QED
  BY <1>8, <1>9, <1>11 DEF IInv

LEMMA CheckByteIInv == IInv /\ CheckByte => IInv'
<1> SUFFICES ASSUME IInv, CheckByte PROVE IInv'
  OBVIOUS
<1> USE ByteAssumption
<1>1. /\ pc = "check" /\ pc' = "check" /\ bytes' = bytes + 1
      /\ res' = (res \/ ByteSet(bytes, 0))
      /\ UNCHANGED <<chall, i, j, tmp, decoded>>
  BY DEF CheckByte
<1>2. bytes \in Nat /\ bytes < Lambda \div ByteBits /\ Lambda \div ByteBits \in Nat
  BY WholeBytes DEF IInv, Places, CheckByte
<1>3. /\ ByteSet(bytes, 0) <=> SomeSet(bytes * ByteBits + 0, (bytes + 1) * ByteBits)
      /\ (bytes + 1) * ByteBits = bytes * ByteBits + ByteBits
      /\ bytes * ByteBits \in Int
  BY <1>2, ByteIsRange, Distribute
<1>4. Start <= bytes * ByteBits /\ Start \in Nat
  BY <1>1, StartIs DEF IInv, Places
<1>5. Places'
  BY <1>1, <1>2, <1>3, <1>4 DEF IInv, Places
<1>6. Values'
  BY <1>1 DEF IInv, Values
<1>7. SomeSet(Start, (bytes + 1) * ByteBits) <=>
        SomeSet(Start, bytes * ByteBits) \/ ByteSet(bytes, 0)
  BY <1>3, <1>4 DEF SomeSet
<1>8. Found'
  BY <1>1, <1>7 DEF IInv, Found, SomeSet
<1> QED
  BY <1>5, <1>6, <1>8 DEF IInv

LEMMA EndCheckIInv == IInv /\ EndCheck => IInv'
<1> SUFFICES ASSUME IInv, EndCheck PROVE IInv'
  OBVIOUS
<1>1. bytes * ByteBits = Lambda
  BY WholeBytes DEF EndCheck
<1>2. Places' /\ Values'
  BY DEF EndCheck, IInv, Places, Values
<1>3. Found'
  BY <1>1 DEF EndCheck, IInv, Found, SomeSet
<1> QED
  BY <1>2, <1>3 DEF IInv

LEMMA StartVectorIInv == IInv /\ StartVector => IInv'
<1> SUFFICES ASSUME IInv, StartVector PROVE IInv'
  OBVIOUS
<1>1. i \in Vectors /\ Start \in Nat
  BY StartIs, ChallengeAssumption DEF IInv, Places, StartVector, Vectors
<1>2. 0 <= Lo(i) /\ Lo(i) <= Hi(i) /\ Hi(i) <= Start /\ Lo(i) \in Int /\ Hi(i) \in Int
  BY <1>1, BoundsInside, BoundsTyped
<1>3. Lo(i)' = Lo(i) /\ Hi(i)' = Hi(i)
  BY DEF StartVector, Lo, Hi
<1>4. Places'
  <2>1. j' = Lo(i) /\ i' = i /\ bytes' = bytes /\ pc' = "bit"
    BY DEF StartVector
  <2>2. (j \in Lo(i) .. Hi(i))'
    BY <2>1, <1>2, <1>3
  <2>3. j' \in 0 .. Start /\ i' < Tau
    BY <2>1, <1>1, <1>2, ChallengeAssumption DEF Vectors
  <2> QED
    BY <2>1, <2>2, <2>3 DEF IInv, Places
<1>5. Values'
  BY DEF IInv, Values, StartVector, Bit
<1>6. Found'
  BY DEF IInv, Found, SomeSet, StartVector
<1> QED
  BY <1>4, <1>5, <1>6 DEF IInv

LEMMA DecodeBitIInv == IInv /\ DecodeBit => IInv'
<1> SUFFICES ASSUME IInv, DecodeBit PROVE IInv'
  OBVIOUS
<1>1. i \in Vectors /\ j \in Lo(i) .. Hi(i) /\ j < Hi(i) /\ Start \in Nat
  BY StartIs, ChallengeAssumption DEF IInv, Places, DecodeBit, Vectors
<1>2. 0 <= Lo(i) /\ Hi(i) <= Start /\ Lo(i) \in Int /\ Hi(i) \in Int
  BY <1>1, BoundsInside, BoundsTyped
<1>3. Lo(i)' = Lo(i) /\ Hi(i)' = Hi(i)
  BY DEF DecodeBit, Lo, Hi
<1>4. Places'
  BY <1>1, <1>2, <1>3 DEF IInv, Places, DecodeBit, Vectors
<1>5. j \in 0 .. Lambda - 1
  BY <1>1, <1>2, WholeBytes
<1>6. Values'
  BY <1>5 DEF IInv, Values, DecodeBit
<1>7. Found'
  BY DEF IInv, Found, SomeSet, DecodeBit
<1> QED
  BY <1>4, <1>6, <1>7 DEF IInv

LEMMA EndVectorIInv == IInv /\ EndVector => IInv'
<1> SUFFICES ASSUME IInv, EndVector PROVE IInv'
  OBVIOUS
<1>1. NumRec(tmp, 2 * ByteBits) \in Indices
  BY DEF IInv, Values, Indices
<1>2. i \in Nat /\ i < Tau
  BY ChallengeAssumption DEF IInv, Places, EndVector
<1>3. Values'
  BY <1>1, <1>2 DEF IInv, Values, EndVector
<1>4. Places'
  BY <1>2, ChallengeAssumption DEF IInv, Places, EndVector
<1>5. Found'
  BY DEF IInv, Found, SomeSet, EndVector
<1> QED
  BY <1>3, <1>4, <1>5 DEF IInv

LEMMA EndDecodingIInv == IInv /\ EndDecoding => IInv'
BY DEF IInv, Places, Values, Found, SomeSet, EndDecoding

LEMMA StutterIInv == IInv /\ UNCHANGED vars => IInv'
<1> SUFFICES ASSUME IInv, UNCHANGED vars PROVE IInv'
  OBVIOUS
<1>1. Lo(i)' = Lo(i) /\ Hi(i)' = Hi(i)
  BY DEF vars, Lo, Hi
<1> QED
  BY <1>1 DEF IInv, Places, Values, Found, SomeSet, vars

LEMMA InitIInv == Init => IInv
<1> SUFFICES ASSUME Init PROVE IInv
  OBVIOUS
<1>1. Places
  <2>1. 0 \in 0 .. Lambda \div ByteBits /\ 0 \in 0 .. Start
    BY WholeBytes, StartIs
  <2>2. 0 \in 0 .. Tau
    BY ChallengeAssumption
  <2> QED
    BY <2>1, <2>2 DEF Init, Places
<1>2. Values
  <2>1. tmp \in [0 .. 2 * ByteBits - 1 -> Bit]
    BY DEF Init, Bit
  <2>2. decoded \in Seq(Indices) /\ Len(decoded) = i
    BY DEF Init
  <2> QED
    BY <2>1, <2>2 DEF Init, Values
<1> QED
  BY <1>1, <1>2 DEF Init, IInv, Found

LEMMA Invariance == Spec => []IInv
<1>1. IInv /\ [Next]_vars => IInv'
  BY StartCheckIInv, CheckByteIInv, EndCheckIInv, StartVectorIInv, DecodeBitIInv, EndVectorIInv,
     EndDecodingIInv, StutterIInv
     DEF Next
<1> QED
  BY <1>1, InitIInv, PTL DEF Spec

(* The loops over bytes, vectors and bits never leave chall_3, and one     *)
(* index is stored per vector (TypeOK).                                    *)
THEOREM ChallengeTyped == Spec => []TypeOK
<1>1. IInv => TypeOK
  BY DEF IInv, Places, Values, TypeOK
<1> QED
  BY <1>1, Invariance, PTL

(* check_challenge_3 rejects a candidate if and only if one of its upper   *)
(* w_grind bits is set, for every width of a byte (GrindExact).            *)
THEOREM CheckIsExact == Spec => []GrindExact
<1>1. IInv => GrindExact
  <2> SUFFICES ASSUME IInv PROVE GrindExact
    OBVIOUS
  <2>1. \A x \in Start .. Lambda - 1 : chall[x] \in {0, 1}
    BY StartIs, WholeBytes DEF IInv, Values, Bit
  <2> QED
    BY <2>1 DEF IInv, Found, SomeSet, GrindExact
<1> QED
  BY <1>1, Invariance, PTL

-----------------------------------------------------------------------------
(* The first bits of the vectors, and the end of the last.                 *)
LEMMA LoSteps ==
  /\ Lo(0) = 0 /\ Lo(Tau) = Start
  /\ \A x \in 0 .. Tau - 1 : Lo(x + 1) = Lo(x) + Depth(x)
<1> USE ChallengeAssumption
<1>1. Lo(0) = 0
  <2>1. 0 * K = 0 /\ (Tau1 = 0 => Tau1 * K + (0 - Tau1) * (K - 1) = 0)
    BY Distribute
  <2> QED
    BY <2>1 DEF Lo
<1>2. Lo(Tau) = Start
  BY StartIs DEF Lo
<1>3. \A x \in 0 .. Tau - 1 : Lo(x + 1) = Lo(x) + Depth(x)
  <2> SUFFICES ASSUME NEW x \in 0 .. Tau - 1 PROVE Lo(x + 1) = Lo(x) + Depth(x)
    OBVIOUS
  <2>1. x \in Vectors /\ Hi(x) = Lo(x) + Depth(x)
    BY Adjacent DEF Vectors
  <2>2. CASE x + 1 \in Vectors
    BY <2>1, <2>2, Adjacent
  <2>3. CASE x + 1 \notin Vectors
    <3>1. x + 1 = Tau /\ x = Tau - 1
      BY <2>3 DEF Vectors
    <3>2. Tau - 1 - Tau1 + 1 = Tau - Tau1 /\ ~ (Tau - 1 < Tau1)
      OBVIOUS
    <3>3. Hi(x) = Start
      BY <3>1, <3>2, StartIs DEF Hi
    <3> QED
      BY <1>2, <2>1, <3>1, <3>3
  <2> QED
    BY <2>2, <2>3
<1> QED
  BY <1>1, <1>2, <1>3

(* vole_commit and vole_reconstruct count their columns as decode_chall_3  *)
(* counts the bits: vector v's first column is its first bit.              *)
LEMMA FirstColumnIs ==
  /\ FirstColumn(Tau) = Start
  /\ \A vec \in Vectors : FirstColumn(vec) = Lo(vec)
<1> USE ChallengeAssumption
<1> DEFINE F(f) == [x \in 0 .. Tau |-> IF x = 0 THEN 0 ELSE f[x - 1] + Depth(x - 1)]
           g == [x \in 0 .. Tau |-> Lo(x)]
           column == CHOOSE f : f = F(f)
<1>1. Lo(0) = 0
  BY LoSteps
<1>2. Lo(Tau) = Start
  BY LoSteps
<1>3. \A x \in 0 .. Tau - 1 : Lo(x + 1) = Lo(x) + Depth(x)
  BY LoSteps
<1>4. g = F(g)
  <2>1. ASSUME NEW x \in 0 .. Tau
        PROVE  g[x] = IF x = 0 THEN 0 ELSE g[x - 1] + Depth(x - 1)
    <3>1. CASE x = 0
      BY <1>1, <3>1
    <3>2. CASE x # 0
      <4>1. PICK y \in 0 .. Tau - 1 : y = x - 1 /\ x = y + 1
        BY <3>2
      <4>2. g[x] = Lo(y + 1) /\ g[y] = Lo(y)
        BY <4>1
      <4> HIDE DEF g
      <4> QED
        BY <1>3, <3>2, <4>1, <4>2
    <3> QED
      BY <3>1, <3>2
  <2>2. g = [x \in 0 .. Tau |-> g[x]]
    OBVIOUS
  <2> HIDE DEF g
  <2> QED
    BY <2>1, <2>2
<1>5. column = F(column)
  <2>1. \E f : f = F(f)
    <3> HIDE DEF F, g
    <3> QED
      BY <1>4
  <2> HIDE DEF F
  <2> QED
    BY <2>1
<1>6. \A x : FirstColumn(x) = column[x]
  BY DEF FirstColumn
<1> HIDE DEF column, g
<1> DEFINE S == {x \in Nat : x <= Tau => column[x] = Lo(x)}
<1>7. 0 \in S
  BY <1>1, <1>5
<1>8. ASSUME NEW x \in Nat, x \in S PROVE x + 1 \in S
  <2> SUFFICES ASSUME x + 1 <= Tau PROVE column[x + 1] = Lo(x + 1)
    OBVIOUS
  <2>1. column[x] = Lo(x) /\ x \in 0 .. Tau - 1
    BY <1>8
  <2>2. PICK w \in 0 .. Tau : w = x + 1 /\ w - 1 = x /\ w # 0
    OBVIOUS
  <2>3. column[w] = column[w - 1] + Depth(w - 1)
    BY <1>5, <2>2
  <2> QED
    BY <1>3, <2>1, <2>2, <2>3
<1> HIDE DEF S
<1>9. \A x \in Nat : x \in S
  BY <1>7, <1>8, Induction
<1>10. \A x \in 0 .. Tau : column[x] = Lo(x)
  BY <1>9 DEF S
<1> QED
  BY <1>2, <1>6, <1>10 DEF Vectors

(* What decode_all_chall_3 has made of the bits so far.                    *)
Collected ==
  pc = "bit" =>
    \A d \in 0 .. 2 * ByteBits - 1 :
      tmp[d] = IF d < j - Lo(i) THEN chall[Lo(i) + d] ELSE 0
Indexed ==
  \A vec \in 0 .. i - 1 :
    /\ decoded[vec + 1] \in 0 .. Leaves(vec) - 1
    /\ \A d \in 0 .. Depth(vec) - 1 : BitOf(decoded[vec + 1], d) = chall[Lo(vec) + d]
DecodeInv ==
  /\ Collected /\ Indexed
  /\ pc = "decoded" => i = Tau

LEMMA DecodeBitCollects == IInv /\ DecodeInv /\ DecodeBit => Collected'
<1> SUFFICES ASSUME IInv, DecodeInv, DecodeBit, NEW d \in 0 .. 2 * ByteBits - 1
             PROVE  tmp'[d] = IF d < j' - Lo(i) THEN chall[Lo(i) + d] ELSE 0
  BY DEF Collected, DecodeBit, Lo
<1>1. i \in Vectors /\ j \in Lo(i) .. Hi(i) /\ j < Hi(i)
  BY ChallengeAssumption DEF IInv, Places, DecodeBit, Vectors
<1>2. Lo(i) \in Int /\ Hi(i) \in Int
  BY <1>1, BoundsTyped
<1>3. tmp' = [tmp EXCEPT ![j - Lo(i)] = chall[j]] /\ j' = j + 1
  BY DEF DecodeBit
<1>4. tmp[d] = IF d < j - Lo(i) THEN chall[Lo(i) + d] ELSE 0
  BY DEF DecodeInv, Collected, DecodeBit
<1>5. DOMAIN tmp = 0 .. 2 * ByteBits - 1
  BY DEF IInv, Values
<1>6. CASE d = j - Lo(i)
  <2>1. tmp'[d] = chall[j] /\ j = Lo(i) + d
    BY <1>1, <1>2, <1>3, <1>5, <1>6
  <2> QED
    BY <1>1, <1>2, <1>3, <1>6, <2>1
<1>7. CASE d # j - Lo(i)
  <2>1. tmp'[d] = tmp[d]
    BY <1>3, <1>5, <1>7
  <2>2. d < j' - Lo(i) <=> d < j - Lo(i)
    BY <1>1, <1>2, <1>3, <1>7
  <2> QED
    BY <1>4, <2>1, <2>2
<1> QED
  BY <1>6, <1>7

(* The index of a vector is below the number of its leaves and has the     *)
(* vector's bits of chall_3.                                               *)
LEMMA EndVectorIndexes == IInv /\ DecodeInv /\ EndVector => Indexed'
<1> SUFFICES ASSUME IInv, DecodeInv, EndVector PROVE Indexed'
  OBVIOUS
<1> USE ByteAssumption
<1> DEFINE n == NumRec(tmp, 2 * ByteBits)
<1>1. i \in Vectors /\ i \in Nat /\ j = Hi(i)
  <2>1. i \in Vectors /\ j \in Lo(i) .. Hi(i) /\ j >= Hi(i) /\ i \in Nat
    BY ChallengeAssumption DEF IInv, Places, EndVector, Vectors
  <2> QED
    BY <2>1, BoundsTyped
<1>2. Hi(i) = Lo(i) + Depth(i) /\ Lo(i) \in Int /\ Hi(i) \in Int /\ Depth(i) \in Nat
  BY <1>1, BoundsTyped, Adjacent
<1>3. Depth(i) \in 0 .. 2 * ByteBits
  BY <1>2, ChallengeAssumption DEF Depth
<1>4. /\ tmp \in [0 .. 2 * ByteBits - 1 -> Bit] /\ 2 * ByteBits \in Nat
      /\ decoded \in Seq(Indices) /\ Len(decoded) = i
  BY DEF IInv, Values
<1>5. \A d \in 0 .. 2 * ByteBits - 1 : tmp[d] = IF d < Depth(i) THEN chall[Lo(i) + d] ELSE 0
  <2>1. j - Lo(i) = Depth(i)
    BY <1>1, <1>2
  <2> QED
    BY <2>1 DEF DecodeInv, Collected, EndVector
<1>6. /\ n \in 0 .. Leaves(i) - 1
      /\ \A d \in 0 .. 2 * ByteBits - 1 : BitOf(n, d) = tmp[d]
  <2>1. \A d \in Depth(i) .. 2 * ByteBits - 1 : tmp[d] = 0
    BY <1>2, <1>5
  <2> QED
    BY <1>3, <1>4, <2>1, NumRecFacts DEF Leaves
<1>7. \A d \in 0 .. Depth(i) - 1 : BitOf(n, d) = chall[Lo(i) + d]
  BY <1>3, <1>5, <1>6
<1>8. /\ decoded' = Append(decoded, n) /\ i' = i + 1 /\ chall' = chall
  BY DEF EndVector
<1> HIDE DEF n
<1>9. ASSUME NEW vec \in 0 .. i
      PROVE  /\ decoded'[vec + 1] \in 0 .. Leaves(vec) - 1
             /\ \A d \in 0 .. Depth(vec) - 1 : BitOf(decoded'[vec + 1], d) = chall[Lo(vec) + d]
  <2>1. CASE vec = i
    <3>1. decoded'[i + 1] = n
      BY <1>1, <1>4, <1>8
    <3> QED
      BY <1>6, <1>7, <2>1, <3>1
  <2>2. CASE vec # i
    <3>1. vec \in 0 .. i - 1 /\ vec + 1 \in 1 .. Len(decoded)
      BY <1>1, <1>4, <2>2
    <3>2. decoded'[vec + 1] = decoded[vec + 1]
      BY <1>4, <1>8, <3>1
    <3> QED
      BY <3>1, <3>2 DEF DecodeInv, Indexed
  <2> QED
    BY <2>1, <2>2
<1>10. i' - 1 = i
  BY <1>1, <1>8
<1>11. \A vec \in 0 .. i' - 1 :
         /\ decoded'[vec + 1] \in 0 .. Leaves(vec) - 1
         /\ \A d \in 0 .. Depth(vec) - 1 : BitOf(decoded'[vec + 1], d) = chall'[Lo(vec) + d]
  BY <1>8, <1>9, <1>10
<1> QED
  BY <1>11 DEF Indexed

LEMMA StartVectorCollects == IInv /\ StartVector => Collected'
<1> SUFFICES ASSUME IInv, StartVector, NEW d \in 0 .. 2 * ByteBits - 1
             PROVE  tmp'[d] = IF d < j' - Lo(i) THEN chall[Lo(i) + d] ELSE 0
  BY DEF Collected, StartVector, Lo
<1>1. i \in Vectors
  BY ChallengeAssumption DEF IInv, Places, StartVector, Vectors
<1>2. Lo(i) \in Int
  BY <1>1, BoundsTyped
<1>3. tmp'[d] = 0 /\ j' = Lo(i)
  BY DEF StartVector
<1> QED
  BY <1>2, <1>3

LEMMA DecodeInvariant == Spec => [](IInv /\ DecodeInv)
<1>1. Init => DecodeInv
  BY DEF Init, DecodeInv, Collected, Indexed
<1>2. IInv /\ DecodeInv /\ [Next]_vars => DecodeInv'
  <2> SUFFICES ASSUME IInv, DecodeInv, [Next]_vars PROVE DecodeInv'
    OBVIOUS
  <2>1. CASE StartCheck \/ CheckByte \/ EndCheck
    BY <2>1 DEF DecodeInv, Collected, Indexed, Leaves, Depth, Lo, StartCheck, CheckByte,
                EndCheck
  <2>2. CASE StartVector
    <3>1. Indexed' /\ pc' = "bit"
      BY <2>2 DEF DecodeInv, Indexed, Leaves, Depth, Lo, StartVector
    <3> QED
      BY <2>2, <3>1, StartVectorCollects DEF DecodeInv
  <2>3. CASE DecodeBit
    <3>1. Indexed' /\ pc' = "bit"
      BY <2>3 DEF DecodeInv, Indexed, Leaves, Depth, Lo, DecodeBit
    <3> QED
      BY <2>3, <3>1, DecodeBitCollects DEF DecodeInv
  <2>4. CASE EndVector
    <3>1. Collected' /\ pc' = "vector"
      BY <2>4 DEF Collected, EndVector
    <3> QED
      BY <2>4, <3>1, EndVectorIndexes DEF DecodeInv
  <2>5. CASE EndDecoding
    BY <2>5 DEF DecodeInv, Collected, Indexed, Leaves, Depth, Lo, EndDecoding
  <2>6. CASE UNCHANGED vars
    BY <2>6 DEF DecodeInv, Collected, Indexed, Leaves, Depth, Lo, vars
  <2> QED
    BY <2>1, <2>2, <2>3, <2>4, <2>5, <2>6 DEF Next
<1> QED
  BY <1>1, <1>2, Invariance, PTL DEF Spec

(* The bits with which faest_verify corrects the columns of a vector are   *)
(* those of the index vole_reconstruct permutes its seeds with, and every  *)
(* index is that of a leaf (utils.c:50-60, vole.c:80-100,                  *)
(* faest_impl.c:495-505).                                                  *)
THEOREM BitsAgree == Spec => []ColumnBitsAgree
<1>1. IInv /\ DecodeInv => ColumnBitsAgree
  <2> SUFFICES ASSUME IInv, DecodeInv, pc = "decoded" PROVE ColumnBitsAgree
    BY DEF ColumnBitsAgree
  <2>1. i = Tau
    BY DEF DecodeInv
  <2>2. \A vec \in Vectors :
          /\ decoded[vec + 1] \in 0 .. Leaves(vec) - 1
          /\ \A d \in 0 .. Depth(vec) - 1 : BitOf(decoded[vec + 1], d) = chall[Lo(vec) + d]
    BY <2>1 DEF DecodeInv, Indexed, Vectors
  <2> QED
    BY <2>2, FirstColumnIs DEF ColumnBitsAgree
<1> QED
  BY <1>1, DecodeInvariant, PTL

-----------------------------------------------------------------------------
(* How many seeds the vectors before vector x have.                        *)
SeedsBefore(x) ==
  IF x <= Tau1 THEN x * 2 ^ K ELSE Tau1 * 2 ^ K + (x - Tau1) * 2 ^ (K - 1)

(* The places of the buffer that hold a seed, and the leaf whose seed the  *)
(* place y holds.                                                          *)
Live == IF side = "commit" THEN V!Leaf(vi) ELSE V!Leaf(vi) \ {0}
Held(y) == IF side = "commit" THEN y ELSE V!XorIndex(y, V!Delta(vi))

(* The sum of the expansions, for vector n, of the seeds buf has in the    *)
(* places P.                                                               *)
Part(buf, n, P) == {<<buf[y], n>> : y \in P}

(* The places summed up in entry y of row x of the triangle, in column d   *)
(* of the output, and in that column when row x + 1 has m entries.         *)
Cell(P, x, y) == {z \in P : z \div 2 ^ x = y}
WithBit(P, d) == {z \in P : BitOf(z, d) = 1}
OutSoFar(P, x, m, d) == {z \in WithBit(P, d) : d < x \/ (d = x /\ z \div 2 ^ (d + 1) < m)}

VoleTyped ==
  /\ side \in {"commit", "reconstruct"}
  /\ vpc \in {"load", "failed", "expand", "fold", "return", "pad", "done"}
  /\ IF vpc \in {"pad", "done"} THEN vi = Tau ELSE vi \in Vectors
  /\ vpc = "done" => side = "reconstruct"
  /\ DOMAIN sd = 0 .. 2 ^ K - 1
  /\ DOMAIN r = 0 .. 1 /\ \A x \in 0 .. 1 : DOMAIN r[x] = 0 .. 2 ^ K - 1
  /\ DOMAIN out = 0 .. K - 1
  /\ DOMAIN ui = Vectors

(* The loop indices of convert_to_vole.                                    *)
LoopIndices ==
  vpc = "fold" =>
    /\ vj \in 0 .. Depth(vi)
    /\ idx \in Nat
    /\ vj < Depth(vi) => idx <= Leaves(vi) \div 2 ^ (vj + 1)

(* Where the seeds of vector vi and its columns begin.                     *)
Positions ==
  /\ col = Lo(vi)
  /\ src = IF side = "commit" THEN SeedsBefore(vi) ELSE SeedsBefore(vi) - vi

Loaded ==
  vpc \in {"expand", "fold", "return"} => \A y \in Live : sd[y] = <<vi, Held(y)>>

(* Row vj is whole, row vj + 1 has idx entries, and column d has the sum   *)
(* of what was added to it.                                                *)
Triangle ==
  vpc = "fold" =>
    /\ \A y \in 0 .. Leaves(vi) \div 2 ^ vj - 1 : r[vj % 2][y] = Part(sd, vi, Cell(Live, vj, y))
    /\ \A y \in 0 .. idx - 1 : r[(vj + 1) % 2][y] = Part(sd, vi, Cell(Live, vj + 1, y))
    /\ \A d \in 0 .. Depth(vi) - 1 : out[d] = Part(sd, vi, OutSoFar(Live, vj, idx, d))

Converted ==
  vpc = "return" =>
    /\ \A d \in 0 .. Depth(vi) - 1 : out[d] = Part(sd, vi, WithBit(Live, d))
    /\ side = "commit" => ui[vi] = Part(sd, vi, Live)

(* The signer's matrix, as far as it is made and when it is finished.      *)
SignerColumns(n) ==
  \A x \in 0 .. n - 1, d \in 0 .. K - 1 : d < Depth(x) => v[Lo(x) + d] = ColumnSum(x, d)
Committing ==
  side = "commit" =>
    /\ SignerColumns(vi)
    /\ \A x \in 0 .. vi - 1 : ui[x] = Rows(x, V!Leaf(x))
Committed ==
  side = "reconstruct" =>
    /\ SignerColumns(Tau)
    /\ \A x \in Start .. Lambda - 1 : v[x] = {}
    /\ u = Rows(0, V!Leaf(0))
    /\ \A x \in Vectors \ {0} : c[x] = V!Xor(u, Rows(x, V!Leaf(x)))

(* The verifier's: V plus the bit of chall_3 in the column times u.        *)
Related(x) == q[x] = IF chall[x] = 1 THEN V!Xor(v[x], u) ELSE v[x]
Reconstructing ==
  side = "reconstruct" =>
    /\ vi # 0 \/ vpc # "load" => pc = "decoded"
    /\ \A x \in 0 .. vi - 1, d \in 0 .. K - 1 : d < Depth(x) => Related(Lo(x) + d)
    /\ vpc = "done" => \A x \in Start .. Lambda - 1 : q[x] = {}

VoleInv ==
  /\ VoleTyped /\ LoopIndices /\ Positions /\ Loaded /\ Triangle /\ Converted
  /\ Committing /\ Committed /\ Reconstructing

-----------------------------------------------------------------------------
(* Every step of the exchange is one of the challenge or leaves it alone.  *)
LEMMA ExchangeStep == [ExchangeNext]_all => [Next]_vars
<1> SUFFICES ASSUME [ExchangeNext]_all PROVE [Next]_vars
  OBVIOUS
<1>1. CASE CommitStep
  BY <1>1 DEF CommitStep
<1>2. CASE ChallengeStep
  BY <1>2 DEF ChallengeStep
<1>3. CASE ReconstructStep
  BY <1>3 DEF ReconstructStep
<1>4. CASE UNCHANGED all
  BY <1>4 DEF all
<1> QED
  BY <1>1, <1>2, <1>3, <1>4 DEF ExchangeNext

(* Commitment and reconstruction are stuttering steps of the challenge     *)
(* (faest_impl.c:414-428, 444-484).                                        *)
THEOREM ExchangeChecks == ExchangeSpec => Spec
<1>1. ExchangeInit => Init
  BY DEF ExchangeInit
<1> QED
  BY <1>1, ExchangeStep, PTL DEF ExchangeSpec, Spec

(* The indices vole_reconstruct is called with stem from a challenge whose *)
(* grinding bits are all clear (faest_impl.c:271-296).                     *)
THEOREM ExchangeGrindExact == ExchangeSpec => []GrindExact
BY ExchangeChecks, CheckIsExact, PTL

(* ... and each bit of an index is the bit of chall_3 that faest_verify    *)
(* uses for the same column (utils.c:50-60, faest_impl.c:495-505).         *)
THEOREM ExchangeBitsAgree == ExchangeSpec => []ColumnBitsAgree
BY ExchangeChecks, BitsAgree, PTL

-----------------------------------------------------------------------------
(* The operators of ChallengeBits as Vole sees them.                       *)
LEMMA SameBits ==
  /\ \A x : V!Depth(x) = Depth(x) /\ V!Leaves(x) = Leaves(x)
  /\ \A a, d : V!BitOf(a, d) = BitOf(a, d)
  /\ \A b, n : V!NumRec(b, n) = NumRec(b, n)
  /\ V!Vectors = Vectors
BY DEF V!Depth, Depth, V!Leaves, Leaves, V!BitOf, BitOf, V!NumRec, NumRec, V!Vectors, Vectors

LEMMA DepthTyped ==
  ASSUME NEW x \in Vectors
  PROVE  /\ Depth(x) \in 0 .. K /\ Depth(x) \in Nat
         /\ Leaves(x) \in Nat \ {0}
         /\ V!Leaf(x) = 0 .. Leaves(x) - 1
<1>1. Depth(x) \in 0 .. K /\ Depth(x) \in Nat
  BY ChallengeAssumption DEF Depth
<1> QED
  BY <1>1, PowerNat, SameBits DEF Leaves, V!Leaf

-----------------------------------------------------------------------------
(* A bit above the highest of a number is clear.                           *)
LEMMA HighBits ==
  ASSUME NEW n \in Nat, NEW a \in 0 .. 2 ^ n - 1, NEW d \in Nat, d >= n
  PROVE  BitOf(a, d) = 0 /\ a \div 2 ^ d = 0
<1>1. PICK p \in Nat \ {0} : p = 2 ^ d
  BY PowerNat
<1>2. 2 ^ n <= p
  <2>1. CASE d = n
    BY <1>1, <2>1
  <2>2. CASE d # n
    <3>1. n \in 0 .. d - 1
      BY <2>2
    <3>2. PICK m \in Nat, e \in Nat \ {0} : e = 2 ^ n /\ p = (2 * m) * e
      BY <1>1, <3>1, PowerMultiple, PowerNat
    <3>3. m # 0
      BY <3>2
    <3>4. 1 * e <= (2 * m) * e
      BY <3>3, Monotone
    <3> QED
      BY <3>2, <3>4
  <2> QED
    BY <2>1, <2>2
<1>3. 2 ^ n \in Int /\ a \in Nat
  OBVIOUS
<1>4. a \in 0 .. p - 1 /\ a = 0 * p + a
  BY <1>1, <1>2, <1>3
<1>5. a \div p = 0
  BY <1>3, <1>4, QuotientIs
<1> QED
  BY <1>1, <1>5 DEF BitOf

LEMMA BitTyped ==
  ASSUME NEW a \in Nat, NEW d \in Nat
  PROVE  BitOf(a, d) \in {0, 1}
BY Halved DEF Bit

LEMMA BitsOfZero == \A d \in Nat : BitOf(0, d) = 0
<1> SUFFICES ASSUME NEW d \in Nat PROVE BitOf(0, d) = 0
  OBVIOUS
<1>1. PICK p \in Nat \ {0} : p = 2 ^ d
  BY PowerNat
<1>2. 0 = 0 * p + 0 /\ 0 \in 0 .. p - 1
  OBVIOUS
<1>3. 0 \div p = 0
  BY <1>2, QuotientIs
<1> QED
  BY <1>1, <1>3 DEF BitOf

(* vole_reconstruct's exclusive or of two leaf indices is that of a leaf.  *)
LEMMA XorIndexFacts ==
  ASSUME NEW n \in 0 .. K, NEW a \in 0 .. 2 ^ n - 1, NEW b \in 0 .. 2 ^ n - 1
  PROVE  /\ V!XorIndex(a, b) \in 0 .. 2 ^ n - 1
         /\ \A d \in 0 .. n - 1 : BitOf(V!XorIndex(a, b), d) = (BitOf(a, d) + BitOf(b, d)) % 2
<1> DEFINE bits == [d \in 0 .. K - 1 |-> (BitOf(a, d) + BitOf(b, d)) % 2]
<1>0. K \in Nat /\ n \in Nat
  BY ChallengeAssumption
<1>1. a \in Nat /\ b \in Nat
  OBVIOUS
<1>2. \A d \in 0 .. K - 1 : BitOf(a, d) \in {0, 1} /\ BitOf(b, d) \in {0, 1}
  BY <1>0, <1>1, BitTyped
<1>3. bits \in [0 .. K - 1 -> Bit]
  BY <1>2 DEF Bit
<1>4. \A d \in n .. K - 1 : bits[d] = 0
  <2> SUFFICES ASSUME NEW d \in n .. K - 1 PROVE bits[d] = 0
    OBVIOUS
  <2>1. d \in Nat /\ d >= n
    BY <1>0
  <2>2. BitOf(a, d) = 0 /\ BitOf(b, d) = 0
    BY <1>0, <2>1, HighBits
  <2> QED
    BY <1>0, <2>2
<1>5. V!XorIndex(a, b) = NumRec(bits, K)
  BY SameBits DEF V!XorIndex
<1> HIDE DEF bits
<1>6. /\ NumRec(bits, K) \in 0 .. 2 ^ n - 1
      /\ \A d \in 0 .. K - 1 : BitOf(NumRec(bits, K), d) = bits[d]
  BY <1>0, <1>3, <1>4, NumRecFacts
<1> QED
  BY <1>0, <1>5, <1>6 DEF bits

(* It is its own inverse, and moves only the hidden leaf to 0.             *)
LEMMA XorIndexInverse ==
  ASSUME NEW n \in 0 .. K, NEW a \in 0 .. 2 ^ n - 1, NEW b \in 0 .. 2 ^ n - 1
  PROVE  /\ V!XorIndex(V!XorIndex(a, b), b) = a
         /\ V!XorIndex(a, b) = b <=> a = 0
         /\ V!XorIndex(a, b) = 0 <=> a = b
<1>0. n \in Nat /\ a \in Nat /\ b \in Nat
  BY ChallengeAssumption
<1>1. PICK x \in 0 .. 2 ^ n - 1 : x = V!XorIndex(a, b)
  BY XorIndexFacts
<1>2. PICK y \in 0 .. 2 ^ n - 1 : y = V!XorIndex(x, b)
  BY XorIndexFacts
<1>3. ASSUME NEW d \in 0 .. n - 1
      PROVE  /\ BitOf(x, d) = (BitOf(a, d) + BitOf(b, d)) % 2
             /\ BitOf(y, d) = (BitOf(x, d) + BitOf(b, d)) % 2
             /\ BitOf(a, d) \in {0, 1} /\ BitOf(b, d) \in {0, 1}
             /\ BitOf(0, d) = 0
  <2>1. d \in Nat
    BY <1>0
  <2>2. BitOf(a, d) \in {0, 1} /\ BitOf(b, d) \in {0, 1} /\ BitOf(0, d) = 0
    BY <1>0, <2>1, BitTyped, BitsOfZero
  <2>3. BitOf(x, d) = (BitOf(a, d) + BitOf(b, d)) % 2
    BY <1>1, XorIndexFacts
  <2>4. BitOf(y, d) = (BitOf(x, d) + BitOf(b, d)) % 2
    BY <1>2, XorIndexFacts
  <2> QED
    BY <2>2, <2>3, <2>4
<1>4. 0 \in 0 .. 2 ^ n - 1
  BY <1>0, PowerNat
<1>5. y = a
  <2>1. \A d \in 0 .. n - 1 : BitOf(y, d) = BitOf(a, d)
    BY <1>3
  <2> QED
    BY <1>0, <2>1, BitsDetermine
<1>6. x = b <=> a = 0
  <2>1. ASSUME x = b PROVE a = 0
    <3>1. \A d \in 0 .. n - 1 : BitOf(a, d) = BitOf(0, d)
      BY <1>3, <2>1
    <3> QED
      BY <1>0, <1>4, <3>1, BitsDetermine
  <2>2. ASSUME a = 0 PROVE x = b
    <3>1. \A d \in 0 .. n - 1 : BitOf(x, d) = BitOf(b, d)
      BY <1>3, <2>2
    <3> QED
      BY <1>0, <3>1, BitsDetermine
  <2> QED
    BY <2>1, <2>2
<1>7. x = 0 <=> a = b
  <2>1. ASSUME x = 0 PROVE a = b
    <3>1. \A d \in 0 .. n - 1 : BitOf(a, d) = BitOf(b, d)
      BY <1>3, <2>1
    <3> QED
      BY <1>0, <3>1, BitsDetermine
  <2>2. ASSUME a = b PROVE x = 0
    <3>1. \A d \in 0 .. n - 1 : BitOf(x, d) = BitOf(0, d)
      BY <1>3, <2>2
    <3> QED
      BY <1>0, <1>4, <3>1, BitsDetermine
  <2> QED
    BY <2>1, <2>2
<1> QED
  BY <1>1, <1>2, <1>5, <1>6, <1>7

-----------------------------------------------------------------------------
(* FlattenSeq's recursion has a solution ...                               *)
LEMMA FlattenExists ==
  ASSUME NEW n \in Nat, NEW s
  PROVE  \E f : f = [x \in 1 .. n |-> IF x = 1 THEN s[x] ELSE f[x - 1] \o s[x]]
<1> DEFINE P(m) == \E f : f = [x \in 1 .. m |-> IF x = 1 THEN s[x] ELSE f[x - 1] \o s[x]]
           S == {m \in Nat : P(m)}
<1>1. 0 \in S
  <2> DEFINE e == [x \in 1 .. 0 |-> 0]
  <2>1. e = [x \in 1 .. 0 |-> IF x = 1 THEN s[x] ELSE e[x - 1] \o s[x]]
    OBVIOUS
  <2> HIDE DEF e
  <2> QED
    BY <2>1
<1>2. ASSUME NEW m \in Nat, m \in S PROVE m + 1 \in S
  <2>1. PICK f : f = [x \in 1 .. m |-> IF x = 1 THEN s[x] ELSE f[x - 1] \o s[x]]
    BY <1>2
  <2> DEFINE last == IF m = 0 THEN s[1] ELSE f[m] \o s[m + 1]
             g == [x \in 1 .. m + 1 |-> IF x = m + 1 THEN last ELSE f[x]]
  <2>2. ASSUME NEW x \in 1 .. m + 1
        PROVE  g[x] = IF x = 1 THEN s[x] ELSE g[x - 1] \o s[x]
    <3>1. CASE x = m + 1
      <4>1. g[x] = last /\ (x # 1 => g[x - 1] = f[m] /\ m # 0) /\ (x = 1 => m = 0)
        BY <3>1
      <4> HIDE DEF g
      <4> QED
        BY <3>1, <4>1
    <3>2. CASE x # m + 1
      <4>1. x \in 1 .. m /\ g[x] = f[x]
        BY <3>2
      <4>2. x # 1 => g[x - 1] = f[x - 1]
        BY <4>1
      <4>3. f[x] = IF x = 1 THEN s[x] ELSE f[x - 1] \o s[x]
        BY <2>1, <4>1
      <4> HIDE DEF g
      <4> QED
        BY <4>1, <4>2, <4>3
    <3> QED
      BY <3>1, <3>2
  <2>3. g = [x \in 1 .. m + 1 |-> g[x]]
    OBVIOUS
  <2> HIDE DEF g
  <2>4. g = [x \in 1 .. m + 1 |-> IF x = 1 THEN s[x] ELSE g[x - 1] \o s[x]]
    BY <2>2, <2>3
  <2>5. P(m + 1)
    BY <2>4
  <2> HIDE DEF P
  <2> QED
    BY <2>5
<1> HIDE DEF S
<1>3. \A m \in Nat : m \in S
  BY <1>1, <1>2, Induction
<1> QED
  BY <1>3 DEF S

LEMMA Concatenated ==
  ASSUME NEW E, NEW t \in Seq(E), NEW a \in Seq(E)
  PROVE  /\ t \o a \in Seq(E) /\ Len(t \o a) = Len(t) + Len(a)
         /\ \A m \in 1 .. Len(t) : (t \o a)[m] = t[m]
         /\ \A m \in 1 .. Len(a) : (t \o a)[Len(t) + m] = a[m]
OBVIOUS

(* ... and puts part x + 1 behind the b[x] elements of the parts before.   *)
Offsets(b, s, n) ==
  /\ b \in [0 .. n -> Int] /\ b[0] = 0
  /\ \A x \in 0 .. n - 1 : b[x + 1] = b[x] + Len(s[x + 1])

LEMMA FlattenPlaces ==
  ASSUME NEW E, NEW n \in Nat \ {0}, NEW s \in Seq(Seq(E)), Len(s) = n,
         NEW b, Offsets(b, s, n)
  PROVE  \A x \in 0 .. n - 1 : \A y \in 1 .. Len(s[x + 1]) :
           V!FlattenSeq(s)[b[x] + y] = s[x + 1][y]
<1> DEFINE F(f) == [x \in 1 .. n |-> IF x = 1 THEN s[x] ELSE f[x - 1] \o s[x]]
           flat == CHOOSE f : f = F(f)
<1>1. flat = F(flat)
  <2>1. \E f : f = F(f)
    BY FlattenExists
  <2> HIDE DEF F
  <2> QED
    BY <2>1
<1>2. V!FlattenSeq(s) = flat[n]
  BY DEF V!FlattenSeq
<1> HIDE DEF flat
<1>3. \A x \in 1 .. n : s[x] \in Seq(E) /\ Len(s[x]) \in Nat
  OBVIOUS
<1>4. \A x \in 1 .. n - 1 : flat[x + 1] = flat[x] \o s[x + 1]
  <2> SUFFICES ASSUME NEW x \in 1 .. n - 1 PROVE flat[x + 1] = flat[x] \o s[x + 1]
    OBVIOUS
  <2>1. PICK w \in 1 .. n : w = x + 1 /\ w - 1 = x /\ w # 1
    OBVIOUS
  <2>2. flat[w] = flat[w - 1] \o s[w]
    BY <1>1, <2>1
  <2> QED
    BY <2>1, <2>2
<1> DEFINE P(x) == /\ flat[x] \in Seq(E) /\ Len(flat[x]) = b[x]
                   /\ \A w \in 0 .. x - 1 : \A y \in 1 .. Len(s[w + 1]) :
                        b[w] + y \in 1 .. b[x] /\ flat[x][b[w] + y] = s[w + 1][y]
           S == {x \in Nat : x + 1 <= n => P(x + 1)}
<1>5. 0 \in S
  <2>1. flat[1] = s[1] /\ b[1] = Len(s[1]) /\ b[0] = 0
    <3>1. 1 \in 1 .. n /\ 0 \in 0 .. n - 1 /\ 0 + 1 = 1
      OBVIOUS
    <3>2. b[1] = b[0] + Len(s[1]) /\ b[0] = 0
      BY <3>1 DEF Offsets
    <3> QED
      BY <1>1, <1>3, <3>1, <3>2
  <2>2. P(1)
    <3>1. \A w \in 0 .. 1 - 1 : w = 0 /\ w + 1 = 1
      OBVIOUS
    <3>2. s[1] \in Seq(E) /\ Len(s[1]) \in Nat
      BY <1>3
    <3>3. \A y \in 1 .. Len(s[1]) : b[0] + y = y
      BY <2>1, <3>2
    <3> QED
      BY <2>1, <3>1, <3>2, <3>3
  <2> QED
    BY <2>2
<1>6. ASSUME NEW z \in Nat, z \in S PROVE z + 1 \in S
  <2>1. PICK x \in Nat : x = z + 1
    OBVIOUS
  <2> SUFFICES ASSUME x + 1 <= n PROVE P(x + 1)
    BY <2>1
  <2>2. P(x) /\ x \in 1 .. n - 1
    BY <1>6, <2>1
  <2>3. flat[x] \in Seq(E) /\ Len(flat[x]) = b[x]
    BY <2>2
  <2>4. \A w \in 0 .. x - 1 : \A y \in 1 .. Len(s[w + 1]) :
          b[w] + y \in 1 .. b[x] /\ flat[x][b[w] + y] = s[w + 1][y]
    BY <2>2
  <2>5. flat[x + 1] = flat[x] \o s[x + 1]
    <3> HIDE DEF P, S
    <3> QED
      BY <1>4, <2>2
  <2>6. b[x + 1] = b[x] + Len(s[x + 1])
    <3> HIDE DEF P, S
    <3> QED
      BY <2>2 DEF Offsets
  <2>7. s[x + 1] \in Seq(E)
    <3> HIDE DEF P, S
    <3> QED
      BY <1>3, <2>2
  <2>8. PICK t \in Seq(E) : t = flat[x]
    BY <2>3
  <2>9. PICK a \in Seq(E) : a = s[x + 1]
    BY <2>7
  <2> DEFINE ta == t \o a
  <2>10. /\ ta \in Seq(E) /\ Len(ta) = Len(t) + Len(a)
         /\ \A m \in 1 .. Len(t) : ta[m] = t[m]
         /\ \A m \in 1 .. Len(a) : ta[Len(t) + m] = a[m]
    BY Concatenated
  <2>11. flat[x + 1] = ta
    BY <2>5, <2>8, <2>9
  <2> HIDE DEF ta, P, S
  <2>12. Len(t) = b[x] /\ Len(t) \in Nat /\ Len(a) \in Nat /\ b[x + 1] = Len(t) + Len(a)
    <3>1. Len(t) \in Nat /\ Len(a) \in Nat
      BY <2>8, <2>9
    <3> QED
      BY <2>3, <2>6, <2>8, <2>9, <3>1
  <2>13. ASSUME NEW w \in 0 .. x, NEW y \in 1 .. Len(s[w + 1])
         PROVE  b[w] + y \in 1 .. b[x + 1] /\ ta[b[w] + y] = s[w + 1][y]
    <3>1. CASE w = x
      <4>1. y \in 1 .. Len(a) /\ b[w] + y = Len(t) + y
        BY <2>9, <2>12, <3>1
      <4>2. ta[Len(t) + y] = a[y]
        BY <2>10, <4>1
      <4>3. a[y] = s[w + 1][y]
        BY <2>9, <3>1
      <4>4. Len(t) + y \in 1 .. b[x + 1]
        BY <2>12, <4>1
      <4> QED
        BY <4>1, <4>2, <4>3, <4>4
    <3>2. CASE w # x
      <4>1. w \in 0 .. x - 1
        BY <3>2
      <4>2. b[w] + y \in 1 .. Len(t) /\ t[b[w] + y] = s[w + 1][y]
        BY <2>4, <2>8, <2>12, <4>1
      <4>3. ta[b[w] + y] = t[b[w] + y]
        BY <2>10, <4>2
      <4> QED
        BY <2>12, <4>2, <4>3
    <3> QED
      BY <3>1, <3>2
  <2>14. x + 1 - 1 = x
    OBVIOUS
  <2>15. /\ ta \in Seq(E) /\ Len(ta) = b[x + 1]
         /\ \A w \in 0 .. x + 1 - 1 : \A y \in 1 .. Len(s[w + 1]) :
              b[w] + y \in 1 .. b[x + 1] /\ ta[b[w] + y] = s[w + 1][y]
    BY <2>10, <2>12, <2>13, <2>14
  <2> QED
    BY <2>11, <2>15 DEF P
<1> HIDE DEF S
<1>7. \A x \in Nat : x \in S
  BY <1>5, <1>6, Induction
<1>8. P(n)
  <2>1. PICK m \in Nat : n = m + 1
    <3>1. n - 1 \in Nat /\ n = n - 1 + 1
      OBVIOUS
    <3> QED
      BY <3>1
  <2>2. m \in S
    BY <1>7
  <2> QED
    BY <2>1, <2>2 DEF S
<1> QED
  BY <1>2, <1>8

-----------------------------------------------------------------------------
LEMMA SeedsBeforeFacts ==
  /\ SeedsBefore(0) = 0
  /\ \A x \in 0 .. Tau : SeedsBefore(x) \in Int
  /\ \A x \in Vectors : SeedsBefore(x + 1) = SeedsBefore(x) + Leaves(x)
<1> USE ChallengeAssumption
<1>1. PICK p \in Nat, h \in Nat : p = 2 ^ K /\ h = 2 ^ (K - 1)
  <2>1. K - 1 \in Nat
    OBVIOUS
  <2> QED
    BY <2>1, PowerNat
<1>2. \A x : SeedsBefore(x) = IF x <= Tau1 THEN x * p ELSE Tau1 * p + (x - Tau1) * h
  BY <1>1 DEF SeedsBefore
<1>3. \A x \in Vectors : Leaves(x) = IF x < Tau1 THEN p ELSE h
  BY <1>1 DEF Leaves, Depth
<1>4. SeedsBefore(0) = 0
  BY <1>2
<1>5. \A x \in 0 .. Tau : SeedsBefore(x) \in Int
  BY <1>2
<1>6. ASSUME NEW x \in Vectors PROVE SeedsBefore(x + 1) = SeedsBefore(x) + Leaves(x)
  <2>1. x \in Nat
    BY DEF Vectors
  <2>2. CASE x < Tau1
    <3>1. (x + 1) * p = x * p + p
      BY <2>1, Distribute
    <3> QED
      BY <1>2, <1>3, <2>1, <2>2, <3>1
  <2>3. CASE x >= Tau1
    <3>1. (x - Tau1 + 1) * h = (x - Tau1) * h + h /\ x + 1 - Tau1 = x - Tau1 + 1
      BY <2>1, Distribute
    <3>2. SeedsBefore(x + 1) = Tau1 * p + (x - Tau1 + 1) * h
      BY <1>2, <2>1, <2>3, <3>1
    <3>3. SeedsBefore(x) = Tau1 * p + (x - Tau1) * h
      <4>1. CASE x = Tau1
        BY <1>2, <4>1
      <4>2. CASE x # Tau1
        BY <1>2, <2>1, <2>3, <4>2
      <4> QED
        BY <4>1, <4>2
    <3>4. Tau1 * p \in Int /\ (x - Tau1) * h \in Int
      BY <2>1
    <3> QED
      BY <1>3, <2>1, <2>3, <3>1, <3>2, <3>3, <3>4
  <2> QED
    BY <2>1, <2>2, <2>3
<1> QED
  BY <1>4, <1>5, <1>6

(* The signer's seed of leaf l of vector x.                                *)
LEMMA CommitSeedPlaces ==
  ASSUME NEW x \in Vectors, NEW l \in V!Leaf(x)
  PROVE  V!CommitSeeds[SeedsBefore(x) + l + 1] = <<x, l>>
<1> USE ChallengeAssumption
<1> DEFINE s == [w \in 1 .. Tau |-> [y \in 1 .. V!Leaves(w - 1) |-> <<w - 1, y - 1>>]]
           b == [w \in 0 .. Tau |-> SeedsBefore(w)]
<1>1. \A w \in Vectors : /\ s[w + 1] \in Seq(Nat \X Nat) /\ Len(s[w + 1]) = Leaves(w)
                         /\ \A y \in 1 .. Leaves(w) : s[w + 1][y] = <<w, y - 1>>
  <2> SUFFICES ASSUME NEW w \in Vectors
               PROVE  /\ s[w + 1] \in Seq(Nat \X Nat) /\ Len(s[w + 1]) = Leaves(w)
                      /\ \A y \in 1 .. Leaves(w) : s[w + 1][y] = <<w, y - 1>>
    OBVIOUS
  <2>1. w + 1 \in 1 .. Tau /\ w + 1 - 1 = w /\ w \in Nat
    BY DEF Vectors
  <2>2. s[w + 1] = [y \in 1 .. Leaves(w) |-> <<w, y - 1>>]
    BY <2>1, SameBits
  <2>3. Leaves(w) \in Nat
    BY DepthTyped
  <2>4. \A y \in 1 .. Leaves(w) : <<w, y - 1>> \in Nat \X Nat
    BY <2>1, <2>3
  <2> HIDE DEF s
  <2> QED
    BY <2>2, <2>3, <2>4
<1>2. s \in Seq(Seq(Nat \X Nat)) /\ Len(s) = Tau
  <2>1. \A w \in 1 .. Tau : s[w] \in Seq(Nat \X Nat)
    <3> SUFFICES ASSUME NEW w \in 1 .. Tau PROVE s[w] \in Seq(Nat \X Nat)
      OBVIOUS
    <3>1. w - 1 \in Vectors /\ w - 1 + 1 = w
      BY DEF Vectors
    <3> HIDE DEF s
    <3> QED
      BY <1>1, <3>1
  <2>2. s = [w \in 1 .. Tau |-> s[w]]
    OBVIOUS
  <2> HIDE DEF s
  <2>3. s \in [1 .. Tau -> Seq(Nat \X Nat)]
    BY <2>1, <2>2
  <2> QED
    BY <2>3
<1>3. b \in [0 .. Tau -> Int] /\ b[0] = 0
  BY SeedsBeforeFacts
<1>4. \A w \in 0 .. Tau - 1 : b[w + 1] = b[w] + Len(s[w + 1])
  <2> SUFFICES ASSUME NEW w \in 0 .. Tau - 1 PROVE b[w + 1] = b[w] + Len(s[w + 1])
    OBVIOUS
  <2>1. w \in Vectors /\ b[w + 1] = SeedsBefore(w + 1) /\ b[w] = SeedsBefore(w)
    BY DEF Vectors
  <2> HIDE DEF s, b
  <2> QED
    BY <1>1, <2>1, SeedsBeforeFacts
<1>5. V!CommitSeeds = V!FlattenSeq(s)
  BY DEF V!CommitSeeds
<1>6. \A w \in 0 .. Tau - 1 : \A y \in 1 .. Len(s[w + 1]) :
        V!FlattenSeq(s)[b[w] + y] = s[w + 1][y]
  <2> DEFINE E == Nat \X Nat
  <2>1. s \in Seq(Seq(E))
    BY <1>2
  <2> HIDE DEF s, b, E
  <2>2. Offsets(b, s, Tau)
    BY <1>3, <1>4 DEF Offsets
  <2>3. Len(s) = Tau /\ Tau \in Nat \ {0}
    BY <1>2
  <2> QED
    BY <2>1, <2>2, <2>3, FlattenPlaces
<1>7. x \in 0 .. Tau - 1 /\ b[x] = SeedsBefore(x) /\ b[x] \in Int
  BY SeedsBeforeFacts DEF Vectors
<1>8. PICK y \in 1 .. Leaves(x) : y = l + 1 /\ y - 1 = l
  BY DepthTyped
<1>9. b[x] + y = SeedsBefore(x) + l + 1
  BY <1>7, <1>8, DepthTyped
<1> HIDE DEF s, b
<1>10. V!FlattenSeq(s)[b[x] + y] = <<x, l>>
  BY <1>1, <1>6, <1>7, <1>8
<1> QED
  BY <1>5, <1>9, <1>10

(* The verifier's seed of any other leaf than the hidden one.              *)
LEMMA ReconstructSeedPlaces ==
  ASSUME NEW x \in Vectors, NEW l \in V!Leaf(x),
         \A w \in Vectors : V!Delta(w) \in V!Leaf(w),
         l # V!Delta(x)
  PROVE  V!ReconstructSeeds[SeedsBefore(x) - x
                            + (IF l < V!Delta(x) THEN l ELSE l - 1) + 1] = <<x, l>>
<1> USE ChallengeAssumption
<1> DEFINE s == [w \in 1 .. Tau |-> [y \in 1 .. V!Leaves(w - 1) - 1 |->
                   <<w - 1, IF y - 1 < V!Delta(w - 1) THEN y - 1 ELSE y>>]]
           b == [w \in 0 .. Tau |-> SeedsBefore(w) - w]
<1>0. \A w \in Vectors : /\ V!Delta(w) \in Int /\ V!Delta(w) < Leaves(w) /\ V!Delta(w) >= 0
                         /\ Leaves(w) \in Nat /\ Leaves(w) - 1 \in Nat
  BY DepthTyped
<1>1. \A w \in Vectors :
        /\ s[w + 1] \in Seq(Nat \X Nat) /\ Len(s[w + 1]) = Leaves(w) - 1
        /\ \A y \in 1 .. Leaves(w) - 1 :
             s[w + 1][y] = <<w, IF y - 1 < V!Delta(w) THEN y - 1 ELSE y>>
  <2> SUFFICES ASSUME NEW w \in Vectors
               PROVE  /\ s[w + 1] \in Seq(Nat \X Nat) /\ Len(s[w + 1]) = Leaves(w) - 1
                      /\ \A y \in 1 .. Leaves(w) - 1 :
                           s[w + 1][y] = <<w, IF y - 1 < V!Delta(w) THEN y - 1 ELSE y>>
    OBVIOUS
  <2>1. w + 1 \in 1 .. Tau /\ w + 1 - 1 = w /\ w \in Nat
    BY DEF Vectors
  <2> DEFINE e(y) == <<w, IF y - 1 < V!Delta(w) THEN y - 1 ELSE y>>
             N == Leaves(w) - 1
  <2>2. PICK k \in 1 .. Tau : k = w + 1 /\ k - 1 = w
    BY <2>1
  <2>3. V!Leaves(w) - 1 = N
    BY SameBits
  <2>4. s[w + 1] = [y \in 1 .. N |-> e(y)]
    BY <2>2, <2>3
  <2>5. \A y \in 1 .. N : e(y) \in Nat \X Nat
    BY <1>0, <2>1
  <2>6. N \in Nat
    BY <1>0
  <2>7. /\ s[w + 1] \in Seq(Nat \X Nat) /\ Len(s[w + 1]) = N
        /\ \A y \in 1 .. N : s[w + 1][y] = e(y)
    <3> HIDE DEF s, e, N
    <3> QED
      BY <2>4, <2>5, <2>6
  <2> QED
    BY <2>7
<1>2. s \in Seq(Seq(Nat \X Nat)) /\ Len(s) = Tau
  <2>1. \A w \in 1 .. Tau : s[w] \in Seq(Nat \X Nat)
    <3> SUFFICES ASSUME NEW w \in 1 .. Tau PROVE s[w] \in Seq(Nat \X Nat)
      OBVIOUS
    <3>1. w - 1 \in Vectors /\ w - 1 + 1 = w
      BY DEF Vectors
    <3> HIDE DEF s
    <3> QED
      BY <1>1, <3>1
  <2>2. s = [w \in 1 .. Tau |-> s[w]]
    OBVIOUS
  <2> HIDE DEF s
  <2>3. s \in [1 .. Tau -> Seq(Nat \X Nat)]
    BY <2>1, <2>2
  <2> QED
    BY <2>3
<1>3. b \in [0 .. Tau -> Int] /\ b[0] = 0
  BY SeedsBeforeFacts
<1>4. \A w \in 0 .. Tau - 1 : b[w + 1] = b[w] + Len(s[w + 1])
  <2> SUFFICES ASSUME NEW w \in 0 .. Tau - 1 PROVE b[w + 1] = b[w] + Len(s[w + 1])
    OBVIOUS
  <2>1. /\ w \in Vectors /\ b[w + 1] = SeedsBefore(w + 1) - (w + 1)
        /\ b[w] = SeedsBefore(w) - w /\ SeedsBefore(w) \in Int
    BY SeedsBeforeFacts DEF Vectors
  <2>2. SeedsBefore(w + 1) = SeedsBefore(w) + Leaves(w)
    BY <2>1, SeedsBeforeFacts
  <2> HIDE DEF s, b
  <2> QED
    BY <1>0, <1>1, <2>1, <2>2
<1>5. V!ReconstructSeeds = V!FlattenSeq(s)
  BY DEF V!ReconstructSeeds
<1>6. \A w \in 0 .. Tau - 1 : \A y \in 1 .. Len(s[w + 1]) :
        V!FlattenSeq(s)[b[w] + y] = s[w + 1][y]
  <2> DEFINE E == Nat \X Nat
  <2>1. s \in Seq(Seq(E))
    BY <1>2
  <2> HIDE DEF s, b, E
  <2>2. Offsets(b, s, Tau)
    BY <1>3, <1>4 DEF Offsets
  <2>3. Len(s) = Tau /\ Tau \in Nat \ {0}
    BY <1>2
  <2> QED
    BY <2>1, <2>2, <2>3, FlattenPlaces
<1>7. x \in 0 .. Tau - 1 /\ b[x] = SeedsBefore(x) - x /\ b[x] \in Int
  BY SeedsBeforeFacts DEF Vectors
<1>8. l \in Nat /\ l < Leaves(x)
  BY DepthTyped
<1>9. PICK y \in 1 .. Leaves(x) - 1 : y = (IF l < V!Delta(x) THEN l ELSE l - 1) + 1
  BY <1>0, <1>8
<1>10. (IF y - 1 < V!Delta(x) THEN y - 1 ELSE y) = l
  BY <1>0, <1>8, <1>9
<1>11. b[x] + y = SeedsBefore(x) - x + (IF l < V!Delta(x) THEN l ELSE l - 1) + 1
  BY <1>0, <1>7, <1>8, <1>9
<1> HIDE DEF s, b
<1>12. V!FlattenSeq(s)[b[x] + y] = <<x, l>>
  BY <1>1, <1>6, <1>7, <1>9, <1>10
<1> QED
  BY <1>5, <1>11, <1>12

-----------------------------------------------------------------------------
(* Sizes: the leaves of a vector fit the buffers, and halve row by row.    *)
LEMMA LeavesFit ==
  ASSUME NEW x \in Vectors
  PROVE  V!Leaf(x) \subseteq 0 .. 2 ^ K - 1
<1> USE ChallengeAssumption
<1>1. 2 ^ K \in Nat /\ 2 ^ (K - 1) \in Nat /\ 2 ^ K = 2 * 2 ^ (K - 1)
  <2>1. PICK m \in Nat : m = K - 1 /\ m + 1 = K
    OBVIOUS
  <2> QED
    BY <2>1, PowerNat, PowerStep
<1>2. Leaves(x) = 2 ^ K \/ Leaves(x) = 2 ^ (K - 1)
  BY DEF Leaves, Depth
<1> QED
  BY <1>1, <1>2, DepthTyped

LEMMA QuotientBelow ==
  ASSUME NEW x \in Vectors, NEW z \in V!Leaf(x), NEW d \in 0 .. Depth(x)
  PROVE  /\ z \div 2 ^ d \in Nat /\ Leaves(x) \div 2 ^ d \in Nat
         /\ z \div 2 ^ d < Leaves(x) \div 2 ^ d
<1>0. Depth(x) \in Nat /\ d \in Nat /\ z \in Nat /\ z < Leaves(x) /\ Leaves(x) \in Nat
  BY DepthTyped
<1>1. PICK e \in Nat \ {0} : e = 2 ^ d
  BY <1>0, PowerNat
<1>2. PICK m \in Nat : Leaves(x) = m * e
  <2>1. CASE d = Depth(x)
    <3>1. Leaves(x) = 1 * e
      BY <1>1, <2>1 DEF Leaves
    <3> QED
      BY <3>1
  <2>2. CASE d # Depth(x)
    <3>1. d \in 0 .. Depth(x) - 1
      BY <1>0, <2>2
    <3>2. PICK m \in Nat : 2 ^ Depth(x) = (2 * m) * 2 ^ d
      BY <1>0, <3>1, PowerMultiple
    <3>3. PICK k \in Nat : k = 2 * m
      OBVIOUS
    <3> QED
      BY <1>1, <3>2, <3>3 DEF Leaves
  <2> QED
    BY <2>1, <2>2
<1>3. Leaves(x) \div e = m
  <2>1. Leaves(x) = m * e + 0 /\ 0 \in 0 .. e - 1
    BY <1>2, <1>0
  <2> QED
    BY <1>0, <2>1, QuotientIs
<1>4. PICK h \in Nat, t \in 0 .. e - 1 : z = h * e + t /\ h = z \div e
  BY <1>0, DivMod
<1>5. h < m
  <2> SUFFICES ASSUME m <= h PROVE FALSE
    BY <1>4
  <2>1. m * e <= h * e
    BY <1>4, Monotone
  <2> QED
    BY <1>0, <1>2, <1>4, <2>1
<1> QED
  BY <1>1, <1>3, <1>4, <1>5

LEMMA LastRow ==
  ASSUME NEW x \in Vectors
  PROVE  /\ Leaves(x) \div 2 ^ Depth(x) = 1
         /\ \A z \in V!Leaf(x) : z \div 2 ^ Depth(x) = 0
<1>0. Depth(x) \in Nat /\ Depth(x) \in 0 .. Depth(x)
  BY DepthTyped
<1>1. PICK e \in Nat \ {0} : e = 2 ^ Depth(x)
  BY <1>0, PowerNat
<1>2. e \div e = 1
  <2>1. e = 1 * e + 0 /\ 0 \in 0 .. e - 1
    OBVIOUS
  <2> QED
    BY <2>1, QuotientIs
<1>3. Leaves(x) \div 2 ^ Depth(x) = 1
  BY <1>1, <1>2 DEF Leaves
<1>4. \A z \in V!Leaf(x) : z \div 2 ^ Depth(x) = 0
  <2> SUFFICES ASSUME NEW z \in V!Leaf(x) PROVE z \div 2 ^ Depth(x) = 0
    OBVIOUS
  <2>1. z \div 2 ^ Depth(x) \in Nat /\ z \div 2 ^ Depth(x) < 1
    BY <1>0, <1>3, QuotientBelow
  <2> QED
    BY <2>1
<1> QED
  BY <1>3, <1>4

LEMMA FirstRow == \A z \in Nat : z \div 2 ^ 0 = z
<1> SUFFICES ASSUME NEW z \in Nat PROVE z \div 2 ^ 0 = z
  OBVIOUS
<1>1. 2 ^ 0 = 1
  OBVIOUS
<1>2. z \div 1 = z
  OBVIOUS
<1> QED
  BY <1>1, <1>2

-----------------------------------------------------------------------------
(* What a decoded challenge gives vole_reconstruct.                        *)
LEMMA DecodedFacts ==
  ASSUME IInv, DecodeInv, pc = "decoded"
  PROVE  \A x \in Vectors :
           /\ V!Delta(x) \in V!Leaf(x)
           /\ \A d \in 0 .. Depth(x) - 1 : chall[Lo(x) + d] = BitOf(V!Delta(x), d)
<1> SUFFICES ASSUME NEW x \in Vectors
             PROVE  /\ V!Delta(x) \in V!Leaf(x)
                    /\ \A d \in 0 .. Depth(x) - 1 :
                         chall[Lo(x) + d] = BitOf(V!Delta(x), d)
  OBVIOUS
<1>1. x \in 0 .. i - 1
  BY DEF DecodeInv, Vectors
<1>2. V!Delta(x) = decoded[x + 1]
  BY DEF V!Delta
<1> QED
  BY <1>1, <1>2, DepthTyped DEF DecodeInv, Indexed

(* What the step that uses vector vi may assume of the challenge.          *)
DeltaKnown == side # "commit" => \A x \in Vectors : V!Delta(x) \in V!Leaf(x)

(* The places in use are those of leaves, and no two hold the same leaf.   *)
LEMMA LiveFacts ==
  ASSUME vi \in Vectors, DeltaKnown
  PROVE  /\ Live \subseteq V!Leaf(vi) /\ Live \subseteq Nat
         /\ \A y \in Live : Held(y) \in V!Leaf(vi)
         /\ \A y, z \in Live : Held(y) = Held(z) => y = z
<1>1. Live \subseteq V!Leaf(vi) /\ Live \subseteq Nat
  BY DepthTyped DEF Live
<1>2. CASE side = "commit"
  BY <1>1, <1>2 DEF Held
<1>3. CASE side # "commit"
  <2>1. PICK n \in 0 .. K : n = Depth(vi) /\ V!Leaf(vi) = 0 .. 2 ^ n - 1
    BY DepthTyped DEF Leaves
  <2>2. V!Delta(vi) \in 0 .. 2 ^ n - 1
    BY <1>3, <2>1 DEF DeltaKnown
  <2>3. \A y \in V!Leaf(vi) :
          /\ V!XorIndex(y, V!Delta(vi)) \in V!Leaf(vi)
          /\ V!XorIndex(V!XorIndex(y, V!Delta(vi)), V!Delta(vi)) = y
    BY <2>1, <2>2, XorIndexFacts, XorIndexInverse
  <2>4. \A y \in V!Leaf(vi) : Held(y) = V!XorIndex(y, V!Delta(vi))
    BY <1>3 DEF Held
  <2>5. \A y, z \in Live : Held(y) = Held(z) => y = z
    <3> SUFFICES ASSUME NEW y \in Live, NEW z \in Live, Held(y) = Held(z) PROVE y = z
      OBVIOUS
    <3>1. V!XorIndex(Held(y), V!Delta(vi)) = y /\ V!XorIndex(Held(z), V!Delta(vi)) = z
      BY <1>1, <2>3, <2>4
    <3> QED
      BY <3>1
  <2> QED
    BY <1>1, <2>3, <2>4, <2>5
<1> QED
  BY <1>2, <1>3

(* Sums of different seeds.                                                *)
Different(buf, P) == \A y, z \in P : buf[y] = buf[z] => y = z

LEMMA PartXor ==
  ASSUME NEW P, NEW buf, NEW n, Different(buf, P),
         NEW A, NEW B, A \subseteq P, B \subseteq P, A \cap B = {}
  PROVE  V!Xor(Part(buf, n, A), Part(buf, n, B)) = Part(buf, n, A \union B)
<1>1. \A y \in A, z \in B : <<buf[y], n>> # <<buf[z], n>>
  BY DEF Different
<1>2. Part(buf, n, A) \cap Part(buf, n, B) = {}
  BY <1>1 DEF Part
<1>3. Part(buf, n, A) \union Part(buf, n, B) = Part(buf, n, A \union B)
  BY DEF Part
<1> QED
  BY <1>2, <1>3 DEF V!Xor

(* A row of the triangle is half as long as the one before.                *)
LEMMA CellHalves ==
  ASSUME NEW P \in SUBSET Nat, NEW x \in Nat, NEW y \in Nat
  PROVE  /\ Cell(P, x + 1, y) = Cell(P, x, 2 * y) \union Cell(P, x, 2 * y + 1)
         /\ Cell(P, x, 2 * y) \cap Cell(P, x, 2 * y + 1) = {}
         /\ Cell(P, x, 2 * y + 1) = {z \in WithBit(P, x) : z \div 2 ^ (x + 1) = y}
<1>1. \A z \in P :
        /\ z \div 2 ^ x = 2 * y <=> z \div 2 ^ (x + 1) = y /\ BitOf(z, x) = 0
        /\ z \div 2 ^ x = 2 * y + 1 <=> z \div 2 ^ (x + 1) = y /\ BitOf(z, x) = 1
        /\ BitOf(z, x) \in {0, 1}
  <2> SUFFICES ASSUME NEW z \in P
        PROVE  /\ z \div 2 ^ x = 2 * y <=> z \div 2 ^ (x + 1) = y /\ BitOf(z, x) = 0
               /\ z \div 2 ^ x = 2 * y + 1 <=> z \div 2 ^ (x + 1) = y /\ BitOf(z, x) = 1
               /\ BitOf(z, x) \in {0, 1}
    OBVIOUS
  <2>0. z \in Nat
    OBVIOUS
  <2>1. /\ z \div 2 ^ x \in Nat /\ z \div 2 ^ (x + 1) \in Nat /\ BitOf(z, x) \in Bit
        /\ z \div 2 ^ x = 2 * (z \div 2 ^ (x + 1)) + BitOf(z, x)
    BY <2>0, Halved
  <2>2. PICK h \in Nat : h = z \div 2 ^ x
    BY <2>1
  <2>3. PICK g \in Nat : g = z \div 2 ^ (x + 1)
    BY <2>1
  <2>4. PICK b \in {0, 1} : b = BitOf(z, x)
    BY <2>1 DEF Bit
  <2>5. h = 2 * g + b
    BY <2>1, <2>2, <2>3, <2>4
  <2>6. (h = 2 * y <=> g = y /\ b = 0) /\ (h = 2 * y + 1 <=> g = y /\ b = 1)
    BY <2>5
  <2> QED
    BY <2>2, <2>3, <2>4, <2>6
<1>2. Cell(P, x + 1, y) = Cell(P, x, 2 * y) \union Cell(P, x, 2 * y + 1)
  BY <1>1 DEF Cell
<1>3. 2 * y # 2 * y + 1
  OBVIOUS
<1> QED
  BY <1>1, <1>2, <1>3 DEF Cell, WithBit

(* The column of a row's bit grows by the odd entry just added ...         *)
LEMMA ColumnGrows ==
  ASSUME NEW P \in SUBSET Nat, NEW x \in Nat, NEW m \in Nat
  PROVE  /\ OutSoFar(P, x, m + 1, x) = Cell(P, x, 2 * m + 1) \union OutSoFar(P, x, m, x)
         /\ Cell(P, x, 2 * m + 1) \cap OutSoFar(P, x, m, x) = {}
         /\ \A d \in Int \ {x} : OutSoFar(P, x, m + 1, d) = OutSoFar(P, x, m, d)
<1>1. Cell(P, x, 2 * m + 1) = {z \in WithBit(P, x) : z \div 2 ^ (x + 1) = m}
  BY CellHalves
<1>2. \A z \in P : z \div 2 ^ (x + 1) \in Nat
  BY Halved
<1>3. \A z \in WithBit(P, x) :
        z \div 2 ^ (x + 1) < m + 1 <=> z \div 2 ^ (x + 1) = m \/ z \div 2 ^ (x + 1) < m
  BY <1>2 DEF WithBit
<1>4. ~ (x < x) /\ \A z \in WithBit(P, x) : z \div 2 ^ (x + 1) = m => ~ (z \div 2 ^ (x + 1) < m)
  BY <1>2 DEF WithBit
<1>5. OutSoFar(P, x, m + 1, x) = Cell(P, x, 2 * m + 1) \union OutSoFar(P, x, m, x)
  BY <1>1, <1>3, <1>4 DEF OutSoFar
<1>6. Cell(P, x, 2 * m + 1) \cap OutSoFar(P, x, m, x) = {}
  BY <1>1, <1>4 DEF OutSoFar
<1>7. \A d \in Int \ {x} : OutSoFar(P, x, m + 1, d) = OutSoFar(P, x, m, d)
  BY DEF OutSoFar
<1> QED
  BY <1>5, <1>6, <1>7

(* ... and is complete with the row.                                       *)
LEMMA ColumnComplete ==
  ASSUME NEW P \in SUBSET Nat, NEW x \in Nat, NEW m, NEW d \in Nat,
         \A z \in P : z \div 2 ^ (x + 1) < m
  PROVE  OutSoFar(P, x + 1, 0, d) = OutSoFar(P, x, m, d)
<1>1. d = x + 1 => \A z \in P : ~ (z \div 2 ^ (d + 1) < 0)
  <2> SUFFICES ASSUME NEW z \in P PROVE ~ (z \div 2 ^ (d + 1) < 0)
    OBVIOUS
  <2>1. z \div 2 ^ (d + 1) \in Nat
    BY Halved
  <2> QED
    BY <2>1
<1>2. ASSUME NEW z \in WithBit(P, d)
      PROVE  (d < x + 1 \/ (d = x + 1 /\ z \div 2 ^ (d + 1) < 0)) <=>
               (d < x \/ (d = x /\ z \div 2 ^ (d + 1) < m))
  <2>1. z \in P
    BY DEF WithBit
  <2>2. d < x + 1 <=> d < x \/ d = x
    OBVIOUS
  <2> QED
    BY <1>1, <2>1, <2>2
<1> QED
  BY <1>2 DEF OutSoFar

-----------------------------------------------------------------------------
(* VoleInv is inductive.  The verifier's steps find the challenge decoded. *)
ChallengeKnown ==
  side = "reconstruct" =>
    /\ pc = "decoded"
    /\ \A x \in Vectors :
         /\ V!Delta(x) \in V!Leaf(x)
         /\ \A d \in 0 .. Depth(x) - 1 : chall[Lo(x) + d] = BitOf(V!Delta(x), d)

LEMMA InitVoleInv == ExchangeInit => VoleInv
<1> SUFFICES ASSUME ExchangeInit PROVE VoleInv
  OBVIOUS
<1> USE DEF ExchangeInit, V!Init
<1>1. 0 \in Vectors
  BY ChallengeAssumption DEF Vectors
<1>2. VoleTyped
  BY <1>1, SameBits DEF VoleTyped
<1>3. Positions
  BY LoSteps, SeedsBeforeFacts DEF Positions
<1>4. LoopIndices /\ Loaded /\ Triangle /\ Converted
  BY DEF LoopIndices, Loaded, Triangle, Converted
<1>5. Committing /\ Committed /\ Reconstructing
  BY DEF Committing, SignerColumns, Committed, Reconstructing
<1> QED
  BY <1>2, <1>3, <1>4, <1>5 DEF VoleInv

(* While a candidate is checked and decoded, vole_reconstruct has not      *)
(* been called.                                                            *)
LEMMA ChallengeVoleInv == VoleInv /\ ChallengeStep => VoleInv'
<1> SUFFICES ASSUME VoleInv, ChallengeStep PROVE VoleInv'
  OBVIOUS
<1>1. side = "reconstruct" /\ UNCHANGED vole
  BY DEF ChallengeStep
<1>2. pc # "decoded"
  BY DEF ChallengeStep, Next, StartCheck, CheckByte, EndCheck, StartVector, DecodeBit, EndVector,
         EndDecoding
<1>3. vi = 0 /\ vpc = "load"
  BY <1>1, <1>2 DEF VoleInv, Reconstructing
<1>4. VoleTyped' /\ Positions'
  BY <1>1 DEF VoleInv, VoleTyped, Positions, vole
<1>5. LoopIndices' /\ Loaded' /\ Triangle' /\ Converted'
  BY <1>1, <1>3 DEF LoopIndices, Loaded, Triangle, Converted, vole
<1>6. Committing' /\ Committed'
  BY <1>1 DEF VoleInv, Committing, Committed, SignerColumns, vole
<1>7. Reconstructing'
  BY <1>1, <1>3 DEF Reconstructing, vole
<1> QED
  BY <1>4, <1>5, <1>6, <1>7 DEF VoleInv

LEMMA StutterVoleInv == VoleInv /\ UNCHANGED all => VoleInv'
<1> SUFFICES ASSUME VoleInv, UNCHANGED all PROVE VoleInv'
  OBVIOUS
<1> USE DEF all, vars, vole
<1>1. Live' = Live /\ \A y : Held(y)' = Held(y)
  BY DEF Live, Held, V!Delta
<1>2. VoleTyped' /\ Positions' /\ LoopIndices'
  BY DEF VoleInv, VoleTyped, Positions, LoopIndices
<1>3. Loaded'
  BY <1>1 DEF VoleInv, Loaded
<1>4. Triangle' /\ Converted'
  BY <1>1 DEF VoleInv, Triangle, Converted
<1>5. Committing' /\ Committed'
  BY DEF VoleInv, Committing, Committed, SignerColumns
<1>6. Reconstructing'
  BY DEF VoleInv, Reconstructing, Related
<1> QED
  BY <1>2, <1>3, <1>4, <1>5, <1>6 DEF VoleInv

(* The signer's seeds of vector vi start at src.                           *)
LEMMA LoadCommitVoleInv == VoleInv /\ V!LoadCommit /\ UNCHANGED vars => VoleInv'
<1> SUFFICES ASSUME VoleInv, V!LoadCommit, UNCHANGED vars PROVE VoleInv'
  OBVIOUS
<1>1. /\ vpc = "load" /\ side = "commit" /\ vi \in Vectors /\ vpc' = "expand"
      /\ UNCHANGED <<side, vi, src, r, vj, idx, out, ui, col, v, q, u, c>>
  BY DEF V!LoadCommit, VoleInv, VoleTyped
<1>2. sd' = [x \in 0 .. 2 ^ K - 1 |->
               IF x \in V!Leaf(vi) THEN V!CommitSeeds[src + x + 1] ELSE V!Garbage]
  BY DEF V!LoadCommit, VoleInv, VoleTyped
<1>3. VoleTyped'
  <2>1. DOMAIN sd' = 0 .. 2 ^ K - 1
    BY <1>2
  <2> QED
    BY <1>1, <2>1 DEF VoleInv, VoleTyped
<1>4. Positions' /\ LoopIndices'
  BY <1>1 DEF VoleInv, Positions, LoopIndices
<1>5. Loaded'
  <2>1. src = SeedsBefore(vi)
    BY <1>1 DEF VoleInv, Positions
  <2>2. ASSUME NEW y \in V!Leaf(vi) PROVE sd'[y] = <<vi, y>>
    <3>1. y \in 0 .. 2 ^ K - 1
      BY <1>1, <2>2, LeavesFit
    <3>2. V!CommitSeeds[src + y + 1] = <<vi, y>>
      BY <1>1, <2>1, <2>2, CommitSeedPlaces
    <3> QED
      BY <1>2, <2>2, <3>1, <3>2
  <2> QED
    BY <1>1, <2>2 DEF Loaded, Live, Held
<1>6. Triangle' /\ Converted'
  BY <1>1 DEF Triangle, Converted
<1>7. Committing' /\ Committed'
  BY <1>1 DEF VoleInv, Committing, Committed, SignerColumns
<1>8. Reconstructing'
  BY <1>1 DEF Reconstructing
<1> QED
  BY <1>3, <1>4, <1>5, <1>6, <1>7, <1>8 DEF VoleInv

(* The verifier's too, and the seed of leaf l goes to place l ^ delta.     *)
LEMMA LoadReconstructVoleInv ==
  VoleInv /\ ChallengeKnown /\ V!LoadReconstruct /\ UNCHANGED vars => VoleInv'
<1> SUFFICES ASSUME VoleInv, ChallengeKnown, V!LoadReconstruct, UNCHANGED vars PROVE VoleInv'
  OBVIOUS
<1>1. /\ vpc = "load" /\ side = "reconstruct" /\ vi \in Vectors /\ vpc' = "expand"
      /\ UNCHANGED <<side, vi, src, r, vj, idx, out, ui, col, v, q, u, c>>
  BY DEF V!LoadReconstruct, VoleInv, VoleTyped
<1>2. sd' = [x \in 0 .. 2 ^ K - 1 |->
               IF x \in V!Leaf(vi) \ {0}
               THEN V!ReconstructSeeds[src + V!Place(V!XorIndex(x, V!Delta(vi))) + 1]
               ELSE sd[x]]
  BY DEF V!LoadReconstruct, VoleInv, VoleTyped
<1>3. VoleTyped'
  <2>1. DOMAIN sd' = 0 .. 2 ^ K - 1
    BY <1>2
  <2> QED
    BY <1>1, <2>1 DEF VoleInv, VoleTyped
<1>4. Positions' /\ LoopIndices'
  BY <1>1 DEF VoleInv, Positions, LoopIndices
<1>5. Loaded'
  <2>1. src = SeedsBefore(vi) - vi /\ \A x \in Vectors : V!Delta(x) \in V!Leaf(x)
    BY <1>1 DEF VoleInv, Positions, ChallengeKnown
  <2>2. ASSUME NEW y \in V!Leaf(vi) \ {0}
        PROVE  sd'[y] = <<vi, V!XorIndex(y, V!Delta(vi))>>
    <3>1. y \in 0 .. 2 ^ K - 1
      BY <1>1, <2>2, LeavesFit
    <3>2. PICK n \in 0 .. K : n = Depth(vi) /\ V!Leaf(vi) = 0 .. 2 ^ n - 1
      BY <1>1, DepthTyped DEF Leaves
    <3>3. PICK l \in V!Leaf(vi) : l = V!XorIndex(y, V!Delta(vi))
      BY <1>1, <2>1, <2>2, <3>2, XorIndexFacts
    <3>4. l # V!Delta(vi)
      BY <1>1, <2>1, <2>2, <3>2, <3>3, XorIndexInverse
    <3>5. V!ReconstructSeeds[SeedsBefore(vi) - vi
                             + (IF l < V!Delta(vi) THEN l ELSE l - 1) + 1] = <<vi, l>>
      BY <1>1, <2>1, <3>4, ReconstructSeedPlaces
    <3>6. V!ReconstructSeeds[src + V!Place(l) + 1] = <<vi, l>>
      BY <2>1, <3>5 DEF V!Place
    <3> QED
      BY <1>2, <2>2, <3>1, <3>3, <3>6
  <2>3. V!Delta(vi)' = V!Delta(vi)
    BY <1>1 DEF V!Delta, vars
  <2> QED
    BY <1>1, <2>2, <2>3 DEF Loaded, Live, Held
<1>6. Triangle' /\ Converted'
  BY <1>1 DEF Triangle, Converted
<1>7. Committing' /\ Committed'
  BY <1>1 DEF VoleInv, Committing, Committed, SignerColumns
<1>8. Reconstructing'
  BY <1>1 DEF VoleInv, Reconstructing, Related, ChallengeKnown, vars
<1> QED
  BY <1>3, <1>4, <1>5, <1>6, <1>7, <1>8 DEF VoleInv

(* A step within a vector.                                                 *)
LEMMA SameVector ==
  UNCHANGED <<side, vi>> /\ UNCHANGED vars => Live' = Live /\ \A y : Held(y)' = Held(y)
BY DEF Live, Held, V!Delta, vars

LEMMA KnownDelta == VoleInv /\ ChallengeKnown => DeltaKnown
BY DEF VoleInv, VoleTyped, ChallengeKnown, DeltaKnown

(* The seeds converted are all different.                                  *)
LEMMA SeedsDiffer ==
  ASSUME VoleInv, ChallengeKnown, vpc \in {"expand", "fold", "return"}
  PROVE  /\ vi \in Vectors /\ Live \subseteq V!Leaf(vi) /\ Live \subseteq Nat
         /\ Different(sd, Live)
<1>1. vi \in Vectors /\ \A y \in Live : sd[y] = <<vi, Held(y)>>
  BY DEF VoleInv, VoleTyped, Loaded
<1>2. DeltaKnown
  BY KnownDelta
<1> QED
  BY <1>1, <1>2, LiveFacts DEF Different

LEMMA QuotientSmaller ==
  ASSUME NEW a \in Nat, NEW b \in Nat \ {0}
  PROVE  a \div b <= a
<1>1. PICK h \in Nat, t \in 0 .. b - 1 : a = h * b + t /\ h = a \div b
  BY DivMod
<1>2. h * 1 <= h * b
  BY Monotone
<1> QED
  BY <1>1, <1>2

(* Row 0 holds the expansions of the seeds themselves.                     *)
LEMMA ExpandVoleInv == VoleInv /\ ChallengeKnown /\ V!Expand /\ UNCHANGED vars => VoleInv'
<1> SUFFICES ASSUME VoleInv, ChallengeKnown, V!Expand, UNCHANGED vars PROVE VoleInv'
  OBVIOUS
<1>1. /\ vpc = "expand" /\ vi \in Vectors /\ vpc' = "fold" /\ vj' = 0 /\ idx' = 0
      /\ UNCHANGED <<side, vi, src, sd, ui, col, v, q, u, c>>
  BY DEF V!Expand, VoleInv, VoleTyped
<1>2. r' = [x \in 0 .. 1 |-> [y \in 0 .. 2 ^ K - 1 |->
             IF x = 0 /\ y \in V!Leaf(vi) /\ ~ (y = 0 /\ V!Sd0Bot) THEN V!Prg(sd[y]) ELSE {}]]
  BY DEF V!Expand
<1>3. out' = [d \in 0 .. K - 1 |-> IF d < Depth(vi) THEN {} ELSE out[d]]
  BY SameBits DEF V!Expand
<1>4. VoleTyped'
  <2>1. DOMAIN r' = 0 .. 1 /\ \A x \in 0 .. 1 : DOMAIN r'[x] = 0 .. 2 ^ K - 1
    BY <1>2
  <2>2. DOMAIN out' = 0 .. K - 1
    BY <1>3
  <2> QED
    BY <1>1, <2>1, <2>2 DEF VoleInv, VoleTyped
<1>5. Depth(vi) \in 0 .. K /\ Depth(vi) \in Nat /\ Leaves(vi) \in Nat /\ V!Leaf(vi) = 0 .. Leaves(vi) - 1
  BY <1>1, DepthTyped
<1>6. LoopIndices'
  <2>1. 0 + 1 = 1 /\ Leaves(vi) \div 2 ^ (0 + 1) \in Nat
    BY <1>5, Halved
  <2> QED
    BY <1>1, <1>5, <2>1 DEF LoopIndices
<1>7. Live' = Live /\ \A y : Held(y)' = Held(y)
  BY <1>1, SameVector
<1>8. Positions' /\ Loaded'
  BY <1>1, <1>7 DEF VoleInv, Positions, Loaded
<1>9. Triangle'
  <2>1. PICK P \in SUBSET Nat : P = Live /\ P \subseteq V!Leaf(vi)
    BY <1>1, SeedsDiffer
  <2>2. \A y \in V!Leaf(vi) : y \in P <=> ~ (y = 0 /\ V!Sd0Bot)
    <3>1. side \in {"commit", "reconstruct"}
      BY DEF VoleInv, VoleTyped
    <3> QED
      BY <2>1, <3>1 DEF Live, V!Sd0Bot
  <2>3. Leaves(vi) \div 2 ^ 0 = Leaves(vi)
    BY <1>5, FirstRow
  <2>4. 0 % 2 = 0
    OBVIOUS
  <2>5. ASSUME NEW y \in V!Leaf(vi) PROVE r'[0][y] = Part(sd, vi, Cell(P, 0, y))
    <3>1. y \in 0 .. 2 ^ K - 1 /\ y \in Nat
      BY <1>1, <1>5, LeavesFit
    <3>2. \A z \in P : z \div 2 ^ 0 = z
      BY FirstRow
    <3>3. Cell(P, 0, y) = {z \in P : z = y}
      BY <3>2 DEF Cell
    <3>4. Part(sd, vi, {z \in P : z = y}) = IF y \in P THEN {<<sd[y], vi>>} ELSE {}
      BY DEF Part
    <3>5. r'[0][y] = IF y \in P THEN {<<sd[y], vi>>} ELSE {}
      BY <1>2, <2>2, <3>1 DEF V!Prg
    <3> QED
      BY <3>3, <3>4, <3>5
  <2>6. ASSUME NEW d \in 0 .. Depth(vi) - 1
        PROVE  out'[d] = Part(sd, vi, OutSoFar(P, 0, 0, d))
    <3>1. out'[d] = {}
      BY <1>3, <1>5, ChallengeAssumption
    <3>2. \A z \in P : z \div 2 ^ (d + 1) \in Nat
      <4>1. d \in Nat
        BY <1>5
      <4> QED
        BY <4>1, Halved
    <3>3. \A z \in WithBit(P, d) : ~ (d < 0 \/ (d = 0 /\ z \div 2 ^ (d + 1) < 0))
      <4>1. ~ (d < 0)
        BY <1>5
      <4>2. WithBit(P, d) \subseteq P
        BY DEF WithBit
      <4>3. \A z \in P : ~ (z \div 2 ^ (d + 1) < 0)
        <5> SUFFICES ASSUME NEW z \in P PROVE ~ (z \div 2 ^ (d + 1) < 0)
          OBVIOUS
        <5>1. PICK h \in Nat : h = z \div 2 ^ (d + 1)
          BY <3>2
        <5> QED
          BY <5>1
      <4> QED
        BY <4>1, <4>2, <4>3
    <3>4. OutSoFar(P, 0, 0, d) = {}
      BY <3>3 DEF OutSoFar
    <3> QED
      BY <3>1, <3>4 DEF Part
  <2>7. /\ \A y \in 0 .. Leaves(vi) \div 2 ^ 0 - 1 : r'[0 % 2][y] = Part(sd, vi, Cell(P, 0, y))
        /\ \A y \in 0 .. 0 - 1 : r'[(0 + 1) % 2][y] = Part(sd, vi, Cell(P, 0 + 1, y))
        /\ \A d \in 0 .. Depth(vi) - 1 : out'[d] = Part(sd, vi, OutSoFar(P, 0, 0, d))
    BY <1>5, <2>3, <2>4, <2>5, <2>6
  <2> QED
    BY <1>1, <1>7, <2>1, <2>7 DEF Triangle
<1>10. Converted'
  BY <1>1 DEF Converted
<1>11. Committing' /\ Committed'
  BY <1>1 DEF VoleInv, Committing, Committed, SignerColumns
<1>12. Reconstructing'
  BY <1>1 DEF VoleInv, Reconstructing, Related, ChallengeKnown, vars
<1> QED
  BY <1>4, <1>6, <1>8, <1>9, <1>10, <1>11, <1>12 DEF VoleInv

(* Two neighbours of row vj make an entry of row vj + 1, the odd one is    *)
(* added to column vj.                                                     *)
LEMMA FoldVoleInv == VoleInv /\ ChallengeKnown /\ V!Fold /\ UNCHANGED vars => VoleInv'
<1> SUFFICES ASSUME VoleInv, ChallengeKnown, V!Fold, UNCHANGED vars PROVE VoleInv'
  OBVIOUS
<1>1. /\ vpc = "fold" /\ vi \in Vectors /\ idx' = idx + 1
      /\ UNCHANGED <<side, vpc, vi, src, sd, vj, ui, col, v, q, u, c>>
  BY DEF V!Fold, VoleInv, VoleTyped
<1>2. Depth(vi) \in 0 .. K /\ Depth(vi) \in Nat /\ Leaves(vi) \in Nat /\ V!Leaf(vi) = 0 .. Leaves(vi) - 1
  BY <1>1, DepthTyped
<1>3. PICK x \in Nat : x = vj /\ x < Depth(vi)
  BY <1>1, <1>2, SameBits DEF V!Fold, VoleInv, LoopIndices
<1>4. PICK m \in Nat : m = idx /\ m < Leaves(vi) \div 2 ^ (x + 1)
  BY <1>1, <1>3, SameBits DEF V!Fold, V!DepthLoop, VoleInv, LoopIndices
<1>5. PICK a \in {0, 1} : a = x % 2
  OBVIOUS
<1>6. PICK b \in {0, 1} : b = (x + 1) % 2 /\ b # a
  BY <1>5
<1>7. PICK R : R = r /\ DOMAIN R = 0 .. 1 /\ \A w \in 0 .. 1 : DOMAIN R[w] = 0 .. 2 ^ K - 1
  BY DEF VoleInv, VoleTyped
<1>8. PICK O : O = out /\ DOMAIN O = 0 .. K - 1
  BY DEF VoleInv, VoleTyped
<1>9. /\ r' = [R EXCEPT ![b][m] = V!Xor(R[a][2 * m], R[a][2 * m + 1])]
      /\ out' = [O EXCEPT ![x] = V!Xor(R[a][2 * m + 1], O[x])]
  BY <1>3, <1>4, <1>5, <1>6, <1>7, <1>8 DEF V!Fold
<1>10. /\ 2 * m \in 0 .. Leaves(vi) \div 2 ^ x - 1
       /\ 2 * m + 1 \in 0 .. Leaves(vi) \div 2 ^ x - 1
       /\ m \in 0 .. 2 ^ K - 1 /\ x \in 0 .. K - 1
  <2>1. PICK g \in Nat : g = Leaves(vi) \div 2 ^ x
    BY <1>2, <1>3, Halved
  <2>2. PICK h \in Nat : h = Leaves(vi) \div 2 ^ (x + 1)
    BY <1>2, <1>3, Halved
  <2>3. g = 2 * h \/ g = 2 * h + 1
    <3>1. PICK t \in {0, 1} : t = BitOf(Leaves(vi), x)
      BY <1>2, <1>3, BitTyped
    <3>2. Leaves(vi) \div 2 ^ x = 2 * (Leaves(vi) \div 2 ^ (x + 1)) + BitOf(Leaves(vi), x)
      BY <1>2, <1>3, Halved
    <3>3. g = 2 * h + t
      BY <2>1, <2>2, <3>1, <3>2
    <3> QED
      BY <3>1, <3>3
  <2>4. h <= Leaves(vi)
    <3>1. PICK e \in Nat \ {0} : e = 2 ^ (x + 1)
      BY <1>3, PowerNat
    <3> QED
      BY <1>2, <2>2, <3>1, QuotientSmaller
  <2>5. m \in V!Leaf(vi)
    BY <1>2, <1>4, <2>2, <2>4
  <2>6. m \in 0 .. 2 ^ K - 1
    BY <1>1, <2>5, LeavesFit
  <2>7. x \in 0 .. K - 1
    BY <1>2, <1>3, ChallengeAssumption
  <2>8. 2 * m \in 0 .. g - 1 /\ 2 * m + 1 \in 0 .. g - 1
    BY <1>4, <2>2, <2>3
  <2> QED
    BY <2>1, <2>6, <2>7, <2>8
<1>11. PICK P \in SUBSET Nat : P = Live /\ Different(sd, P)
  BY <1>1, SeedsDiffer
<1>12. PICK S : S = sd /\ Different(S, P)
  BY <1>11
<1>13. PICK n : n = vi
  OBVIOUS
<1>14. /\ \A y \in 0 .. Leaves(n) \div 2 ^ x - 1 : R[a][y] = Part(S, n, Cell(P, x, y))
       /\ \A y \in 0 .. m - 1 : R[b][y] = Part(S, n, Cell(P, x + 1, y))
       /\ \A d \in 0 .. Depth(n) - 1 : O[d] = Part(S, n, OutSoFar(P, x, m, d))
  BY <1>1, <1>3, <1>4, <1>5, <1>6, <1>7, <1>8, <1>11, <1>12, <1>13 DEF VoleInv, Triangle
<1>15. V!Xor(R[a][2 * m], R[a][2 * m + 1]) = Part(S, n, Cell(P, x + 1, m))
  <2>1. /\ Cell(P, x + 1, m) = Cell(P, x, 2 * m) \union Cell(P, x, 2 * m + 1)
        /\ Cell(P, x, 2 * m) \cap Cell(P, x, 2 * m + 1) = {}
    <3>1. Cell(P, x + 1, m) = Cell(P, x, 2 * m) \union Cell(P, x, 2 * m + 1)
      BY CellHalves
    <3>2. Cell(P, x, 2 * m) \cap Cell(P, x, 2 * m + 1) = {}
      BY CellHalves
    <3> QED
      BY <3>1, <3>2
  <2>2. Cell(P, x, 2 * m) \in SUBSET P /\ Cell(P, x, 2 * m + 1) \in SUBSET P
    BY DEF Cell
  <2>3. V!Xor(Part(S, n, Cell(P, x, 2 * m)), Part(S, n, Cell(P, x, 2 * m + 1))) =
          Part(S, n, Cell(P, x, 2 * m) \union Cell(P, x, 2 * m + 1))
    <3>1. PICK A : A = Cell(P, x, 2 * m) /\ A \subseteq P
      BY <2>2
    <3>2. PICK B : B = Cell(P, x, 2 * m + 1) /\ B \subseteq P
      BY <2>2
    <3>3. A \cap B = {}
      BY <2>1, <3>1, <3>2
    <3>4. V!Xor(Part(S, n, A), Part(S, n, B)) = Part(S, n, A \union B)
      BY <1>12, <3>1, <3>2, <3>3, PartXor
    <3> QED
      BY <3>1, <3>2, <3>4
  <2> QED
    BY <1>10, <1>13, <1>14, <2>1, <2>3
<1>16. V!Xor(R[a][2 * m + 1], O[x]) = Part(S, n, OutSoFar(P, x, m + 1, x))
  <2>1. /\ OutSoFar(P, x, m + 1, x) = Cell(P, x, 2 * m + 1) \union OutSoFar(P, x, m, x)
        /\ Cell(P, x, 2 * m + 1) \cap OutSoFar(P, x, m, x) = {}
    BY <1>3, <1>4, <1>11, ColumnGrows
  <2>2. Cell(P, x, 2 * m + 1) \in SUBSET P /\ OutSoFar(P, x, m, x) \in SUBSET P
    BY DEF Cell, OutSoFar, WithBit
  <2>3. V!Xor(Part(S, n, Cell(P, x, 2 * m + 1)), Part(S, n, OutSoFar(P, x, m, x))) =
          Part(S, n, Cell(P, x, 2 * m + 1) \union OutSoFar(P, x, m, x))
    <3>1. PICK A : A = Cell(P, x, 2 * m + 1) /\ A \subseteq P
      BY <2>2
    <3>2. PICK B : B = OutSoFar(P, x, m, x) /\ B \subseteq P
      BY <2>2
    <3>3. A \cap B = {}
      BY <2>1, <3>1, <3>2
    <3>4. V!Xor(Part(S, n, A), Part(S, n, B)) = Part(S, n, A \union B)
      BY <1>12, <3>1, <3>2, <3>3, PartXor
    <3> QED
      BY <3>1, <3>2, <3>4
  <2>4. O[x] = Part(S, n, OutSoFar(P, x, m, x))
    BY <1>2, <1>3, <1>13, <1>14
  <2> QED
    BY <1>10, <1>13, <1>14, <2>1, <2>3, <2>4
<1>17. PICK X : X = Part(S, n, Cell(P, x + 1, m))
  OBVIOUS
<1>18. PICK Y : Y = Part(S, n, OutSoFar(P, x, m + 1, x))
  OBVIOUS
<1>19. r' = [R EXCEPT ![b][m] = X] /\ out' = [O EXCEPT ![x] = Y]
  BY <1>9, <1>15, <1>16, <1>17, <1>18
<1>20. VoleTyped'
  <2>1. DOMAIN r' = 0 .. 1 /\ \A w \in 0 .. 1 : DOMAIN r'[w] = 0 .. 2 ^ K - 1
    BY <1>7, <1>19
  <2>2. DOMAIN out' = 0 .. K - 1
    BY <1>8, <1>19
  <2> QED
    BY <1>1, <2>1, <2>2 DEF VoleInv, VoleTyped
<1>21. LoopIndices'
  <2>1. Leaves(vi) \div 2 ^ (x + 1) \in Nat
    BY <1>2, Halved
  <2>2. m + 1 \in Nat /\ m + 1 <= Leaves(vi) \div 2 ^ (x + 1)
    BY <1>4, <2>1
  <2> QED
    BY <1>1, <1>3, <1>4, <2>2 DEF VoleInv, LoopIndices
<1>22. Live' = Live /\ \A y : Held(y)' = Held(y)
  BY <1>1, SameVector
<1>23. Positions' /\ Loaded'
  BY <1>1, <1>22 DEF VoleInv, Positions, Loaded
<1>24. Triangle'
  <2>1. ASSUME NEW y \in 0 .. Leaves(n) \div 2 ^ x - 1
        PROVE  r'[a][y] = Part(S, n, Cell(P, x, y))
    <3>1. r'[a] = R[a]
      BY <1>6, <1>7, <1>19
    <3> QED
      BY <1>14, <3>1
  <2>2. ASSUME NEW y \in 0 .. m PROVE r'[b][y] = Part(S, n, Cell(P, x + 1, y))
    <3>1. r'[b] = [R[b] EXCEPT ![m] = X]
      BY <1>7, <1>19
    <3>2. m \in DOMAIN R[b]
      <4>1. b \in 0 .. 1
        BY <1>6
      <4>2. DOMAIN R[b] = 0 .. 2 ^ K - 1
        BY <1>7, <4>1
      <4> QED
        BY <1>10, <4>2
    <3>3. CASE y = m
      BY <1>17, <3>1, <3>2, <3>3
    <3>4. CASE y # m
      <4>1. y \in 0 .. m - 1
        BY <3>4
      <4>2. y \in DOMAIN R[b]
        BY <1>4, <1>6, <1>7, <1>10, <4>1, ChallengeAssumption
      <4>3. r'[b][y] = R[b][y]
        BY <3>1, <3>4, <4>2
      <4> QED
        BY <1>14, <4>1, <4>3
    <3> QED
      BY <3>3, <3>4
  <2>3. ASSUME NEW d \in 0 .. Depth(n) - 1
        PROVE  out'[d] = Part(S, n, OutSoFar(P, x, m + 1, d))
    <3>1. CASE d = x
      BY <1>8, <1>10, <1>18, <1>19, <3>1
    <3>2. CASE d # x
      <4>1. d \in Int \ {x}
        BY <1>2, <1>13, <3>2
      <4>2. OutSoFar(P, x, m + 1, d) = OutSoFar(P, x, m, d)
        BY <1>3, <1>4, <1>11, <4>1, ColumnGrows
      <4>3. d \in DOMAIN O
        BY <1>2, <1>8, <1>13, ChallengeAssumption
      <4>4. out'[d] = O[d]
        BY <1>19, <3>2, <4>3
      <4> QED
        BY <1>14, <4>2, <4>4
    <3> QED
      BY <3>1, <3>2
  <2>4. PICK w \in Nat : w = m + 1 /\ w - 1 = m
    OBVIOUS
  <2>5. vj' = x /\ idx' = w /\ sd' = S /\ vi' = n /\ Live' = P
    BY <1>1, <1>3, <1>4, <1>11, <1>12, <1>13, <1>22, <2>4
  <2> QED
    BY <1>5, <1>6, <2>1, <2>2, <2>3, <2>4, <2>5 DEF Triangle
<1>25. Converted'
  BY <1>1 DEF Converted
<1>26. Committing' /\ Committed'
  BY <1>1 DEF VoleInv, Committing, Committed, SignerColumns
<1>27. Reconstructing'
  BY <1>1 DEF VoleInv, Reconstructing, Related, ChallengeKnown, vars
<1> QED
  BY <1>20, <1>21, <1>23, <1>24, <1>25, <1>26, <1>27 DEF VoleInv

(* Row vj + 1 is whole and takes the place of row vj.                      *)
LEMMA EndRowVoleInv == VoleInv /\ ChallengeKnown /\ V!EndRow /\ UNCHANGED vars => VoleInv'
<1> SUFFICES ASSUME VoleInv, ChallengeKnown, V!EndRow, UNCHANGED vars PROVE VoleInv'
  OBVIOUS
<1>1. /\ vpc = "fold" /\ vi \in Vectors /\ vj' = vj + 1 /\ idx' = 0
      /\ UNCHANGED <<side, vpc, vi, src, sd, r, out, ui, col, v, q, u, c>>
  BY DEF V!EndRow, VoleInv, VoleTyped
<1>2. Depth(vi) \in 0 .. K /\ Depth(vi) \in Nat /\ Leaves(vi) \in Nat /\ V!Leaf(vi) = 0 .. Leaves(vi) - 1
  BY <1>1, DepthTyped
<1>3. PICK x \in Nat : x = vj /\ x < Depth(vi)
  BY <1>1, <1>2, SameBits DEF V!EndRow, VoleInv, LoopIndices
<1>4. PICK m \in Nat : m = idx /\ m = Leaves(vi) \div 2 ^ (x + 1)
  BY <1>1, <1>3, SameBits DEF V!EndRow, V!DepthLoop, VoleInv, LoopIndices
<1>5. PICK w \in Nat : w = x + 1 /\ w \in 0 .. Depth(vi)
  BY <1>2, <1>3
<1>6. VoleTyped'
  BY <1>1 DEF VoleInv, VoleTyped
<1>7. LoopIndices'
  <2>1. Leaves(vi) \div 2 ^ (w + 1) \in Nat
    BY <1>2, Halved
  <2>2. 0 <= Leaves(vi) \div 2 ^ (w + 1)
    <3>1. PICK h \in Nat : h = Leaves(vi) \div 2 ^ (w + 1)
      BY <2>1
    <3> QED
      BY <3>1
  <2> QED
    BY <1>1, <1>3, <1>5, <2>2 DEF LoopIndices
<1>8. Live' = Live /\ \A y : Held(y)' = Held(y)
  BY <1>1, SameVector
<1>9. Positions' /\ Loaded'
  BY <1>1, <1>8 DEF VoleInv, Positions, Loaded
<1>10. Triangle'
  <2>1. PICK P \in SUBSET Nat : P = Live /\ P \subseteq V!Leaf(vi)
    BY <1>1, SeedsDiffer
  <2>2. /\ \A y \in 0 .. m - 1 : r[w % 2][y] = Part(sd, vi, Cell(P, w, y))
        /\ \A d \in 0 .. Depth(vi) - 1 : out[d] = Part(sd, vi, OutSoFar(P, x, m, d))
    BY <1>1, <1>3, <1>4, <1>5, <2>1 DEF VoleInv, Triangle
  <2>3. \A z \in P : z \div 2 ^ (x + 1) < m
    BY <1>1, <1>4, <1>5, <2>1, QuotientBelow
  <2>4. \A d \in 0 .. Depth(vi) - 1 : OutSoFar(P, w, 0, d) = OutSoFar(P, x, m, d)
    <3> SUFFICES ASSUME NEW d \in 0 .. Depth(vi) - 1
                 PROVE  OutSoFar(P, w, 0, d) = OutSoFar(P, x, m, d)
      OBVIOUS
    <3>1. d \in Nat
      BY <1>2
    <3>2. OutSoFar(P, x + 1, 0, d) = OutSoFar(P, x, m, d)
      BY <2>3, <3>1, ColumnComplete
    <3> QED
      BY <1>5, <3>2
  <2>5. /\ \A y \in 0 .. Leaves(vi) \div 2 ^ w - 1 : r[w % 2][y] = Part(sd, vi, Cell(P, w, y))
        /\ \A y \in 0 .. 0 - 1 : r[(w + 1) % 2][y] = Part(sd, vi, Cell(P, w + 1, y))
        /\ \A d \in 0 .. Depth(vi) - 1 : out[d] = Part(sd, vi, OutSoFar(P, w, 0, d))
    BY <1>4, <1>5, <2>2, <2>4
  <2> QED
    BY <1>1, <1>3, <1>5, <1>8, <2>1, <2>5 DEF Triangle
<1>11. Converted'
  BY <1>1 DEF Converted
<1>12. Committing' /\ Committed'
  BY <1>1 DEF VoleInv, Committing, Committed, SignerColumns
<1>13. Reconstructing'
  BY <1>1 DEF VoleInv, Reconstructing, Related, ChallengeKnown, vars
<1> QED
  BY <1>6, <1>7, <1>9, <1>10, <1>11, <1>12, <1>13 DEF VoleInv

(* Of the last row one entry is left, the sum of all seeds.                *)
LEMMA EndConvertVoleInv == VoleInv /\ ChallengeKnown /\ V!EndConvert /\ UNCHANGED vars => VoleInv'
<1> SUFFICES ASSUME VoleInv, ChallengeKnown, V!EndConvert, UNCHANGED vars PROVE VoleInv'
  OBVIOUS
<1>1. /\ vpc = "fold" /\ vi \in Vectors /\ vpc' = "return" /\ vj = Depth(vi)
      /\ UNCHANGED <<side, vi, src, sd, r, vj, idx, out, col, v, q, u, c>>
  BY SameBits DEF V!EndConvert, VoleInv, VoleTyped
<1>2. Depth(vi) \in Nat /\ V!Leaf(vi) = 0 .. Leaves(vi) - 1
  BY <1>1, DepthTyped
<1>3. PICK x \in Nat : x = Depth(vi)
  BY <1>2
<1>4. ui' = IF V!Sd0Bot THEN ui ELSE [ui EXCEPT ![vi] = r[x % 2][0]]
  BY <1>3, SameBits DEF V!EndConvert
<1>5. PICK P \in SUBSET Nat : P = Live /\ P \subseteq V!Leaf(vi)
  BY <1>1, SeedsDiffer
<1>6. PICK m : m = idx
  OBVIOUS
<1>7. /\ \A y \in 0 .. Leaves(vi) \div 2 ^ x - 1 : r[x % 2][y] = Part(sd, vi, Cell(P, x, y))
      /\ \A d \in 0 .. Depth(vi) - 1 : out[d] = Part(sd, vi, OutSoFar(P, x, m, d))
  BY <1>1, <1>3, <1>5, <1>6 DEF VoleInv, Triangle
<1>8. r[x % 2][0] = Part(sd, vi, P)
  <2>1. 0 \in 0 .. Leaves(vi) \div 2 ^ x - 1
    BY <1>1, <1>3, LastRow
  <2>2. \A z \in P : z \div 2 ^ x = 0
    BY <1>1, <1>3, <1>5, LastRow
  <2>3. Cell(P, x, 0) = P
    BY <2>2 DEF Cell
  <2> QED
    BY <1>7, <2>1, <2>3
<1>9. \A d \in 0 .. Depth(vi) - 1 : out[d] = Part(sd, vi, WithBit(P, d))
  <2>1. \A d \in 0 .. Depth(vi) - 1 : OutSoFar(P, x, m, d) = WithBit(P, d)
    BY <1>3 DEF OutSoFar
  <2> QED
    BY <1>7, <2>1
<1>10. side = "commit" => ui' = [ui EXCEPT ![vi] = Part(sd, vi, P)]
  BY <1>4, <1>8 DEF V!Sd0Bot
<1>11. DOMAIN ui = Vectors /\ DOMAIN ui' = Vectors
  BY <1>4 DEF VoleInv, VoleTyped
<1>12. VoleTyped' /\ LoopIndices'
  BY <1>1, <1>11 DEF VoleInv, VoleTyped, LoopIndices
<1>13. Live' = Live /\ \A y : Held(y)' = Held(y)
  BY <1>1, SameVector
<1>14. Positions' /\ Loaded' /\ Triangle'
  BY <1>1, <1>13 DEF VoleInv, Positions, Loaded, Triangle
<1>15. Converted'
  <2>1. side = "commit" => ui'[vi] = Part(sd, vi, P)
    BY <1>1, <1>10, <1>11
  <2> QED
    BY <1>1, <1>5, <1>9, <1>13, <2>1 DEF Converted
<1>16. Committing' /\ Committed'
  <2>1. side = "commit" => \A y \in 0 .. vi - 1 : ui'[y] = ui[y]
    <3> SUFFICES ASSUME side = "commit", NEW y \in 0 .. vi - 1 PROVE ui'[y] = ui[y]
      OBVIOUS
    <3>1. y # vi /\ y \in Vectors
      BY <1>1, ChallengeAssumption DEF Vectors
    <3> QED
      BY <1>10, <1>11, <3>1
  <2> QED
    BY <1>1, <2>1 DEF VoleInv, Committing, Committed, SignerColumns
<1>17. Reconstructing'
  BY <1>1 DEF VoleInv, Reconstructing, Related, ChallengeKnown, vars
<1> QED
  BY <1>12, <1>14, <1>15, <1>16, <1>17 DEF VoleInv

(* The columns of a vector are columns of the matrix below Start, behind   *)
(* those of the vectors before.                                            *)
LEMMA ColumnPlaces ==
  ASSUME NEW x \in Vectors, NEW d \in 0 .. Depth(x) - 1
  PROVE  /\ Lo(x) \in Int /\ Lo(x) + d \in 0 .. Start - 1 /\ Lo(x) + d \in V!Columns
         /\ Lo(x) + d - Lo(x) = d
         /\ \A y \in Vectors : x < y => Lo(x) + d < Lo(y)
<1>1. Lo(x) \in Int /\ Hi(x) = Lo(x) + Depth(x) /\ Depth(x) \in Nat
  BY BoundsTyped, Adjacent
<1>2. 0 <= Lo(x) /\ Hi(x) <= Start /\ Start \in Nat
  BY BoundsInside, StartIs
<1>3. Start <= Lambda /\ Lambda \in Nat
  BY WholeBytes
<1>4. \A y \in Vectors : x < y => Hi(x) <= Lo(y) /\ Lo(y) \in Int
  BY Ordered, BoundsTyped
<1>5. Lo(x) + d \in 0 .. Start - 1 /\ Lo(x) + d \in 0 .. Lambda - 1
  BY <1>1, <1>2, <1>3
<1>6. \A y \in Vectors : x < y => Lo(x) + d < Lo(y)
  BY <1>1, <1>4
<1> QED
  BY <1>1, <1>5, <1>6 DEF V!Columns

(* The sum of seeds that are where Loaded has them.                        *)
LEMMA PartIsRows ==
  ASSUME NEW buf, NEW n, NEW P, \A y \in P : buf[y] = <<n, y>>
  PROVE  Part(buf, n, P) = Rows(n, P)
BY DEF Part, Rows

(* What With does to a matrix.                                             *)
LEMMA WithPlaces ==
  ASSUME NEW n \in Vectors, NEW m, NEW F,
         NEW mat, mat = [x \in V!Columns |-> IF x \in Lo(n) .. Lo(n) + Depth(n) - 1
                                             THEN F[x - Lo(n)] ELSE m[x]]
  PROVE  /\ \A d \in 0 .. Depth(n) - 1 : mat[Lo(n) + d] = F[d]
         /\ \A x \in 0 .. n - 1 : \A d \in 0 .. K - 1 :
              d < Depth(x) => mat[Lo(x) + d] = m[Lo(x) + d]
<1>1. \A d \in 0 .. Depth(n) - 1 : mat[Lo(n) + d] = F[d]
  <2> SUFFICES ASSUME NEW d \in 0 .. Depth(n) - 1 PROVE mat[Lo(n) + d] = F[d]
    OBVIOUS
  <2>1. PICK w : w = Lo(n) + d /\ w \in V!Columns /\ w - Lo(n) = d
    BY ColumnPlaces
  <2>2. w \in Lo(n) .. Lo(n) + Depth(n) - 1
    BY <2>1, BoundsTyped
  <2> QED
    BY <2>1, <2>2
<1>2. ASSUME NEW x \in 0 .. n - 1, NEW d \in 0 .. K - 1, d < Depth(x)
      PROVE  mat[Lo(x) + d] = m[Lo(x) + d]
  <2>1. x \in Vectors /\ x < n
    BY ChallengeAssumption DEF Vectors
  <2>2. d \in 0 .. Depth(x) - 1
    BY <1>2, <2>1, DepthTyped
  <2>3. PICK w : w = Lo(x) + d /\ w \in V!Columns /\ w < Lo(n)
    BY <2>1, <2>2, ColumnPlaces
  <2>4. w \in Int /\ Lo(n) \in Int
    BY <2>1, <2>3, BoundsTyped
  <2>5. w \notin Lo(n) .. Lo(n) + Depth(n) - 1
    BY <2>3, <2>4, BoundsTyped
  <2> QED
    BY <2>3, <2>5
<1> QED
  BY <1>1, <1>2

(* vole_commit stores the columns of vector vi and goes to the next.       *)
LEMMA ReturnCommitVoleInv == VoleInv /\ V!ReturnCommit /\ UNCHANGED vars => VoleInv'
<1> SUFFICES ASSUME VoleInv, V!ReturnCommit, UNCHANGED vars PROVE VoleInv'
  OBVIOUS
<1>1. /\ vpc = "return" /\ side = "commit" /\ vi \in Vectors /\ vi' = vi + 1
      /\ vpc' = IF vi + 1 = Tau THEN "pad" ELSE "load"
      /\ UNCHANGED <<side, sd, r, vj, idx, out, ui, q, u, c>>
  BY DEF V!ReturnCommit, VoleInv, VoleTyped
<1>2. PICK n \in Vectors : n = vi
  BY <1>1
<1>3. n \in Nat /\ n + 1 \in 0 .. Tau /\ n + 1 - 1 = n /\ (n + 1 # Tau => n + 1 \in Vectors)
  BY ChallengeAssumption DEF Vectors
<1>4. PICK O : O = out
  OBVIOUS
<1>5. PICK M : M = v
  OBVIOUS
<1>6. col = Lo(n) /\ src = SeedsBefore(n)
  BY <1>1, <1>2 DEF VoleInv, Positions
<1>7. v' = [x \in V!Columns |-> IF x \in Lo(n) .. Lo(n) + Depth(n) - 1 THEN O[x - Lo(n)] ELSE M[x]]
  BY <1>2, <1>4, <1>5, <1>6, SameBits DEF V!ReturnCommit, V!With
<1>8. VoleTyped'
  BY <1>1, <1>2, <1>3 DEF VoleInv, VoleTyped
<1>9. Positions'
  <2>1. col' = Lo(n) + Depth(n) /\ src' = SeedsBefore(n) + Leaves(n)
    BY <1>2, <1>6, SameBits DEF V!ReturnCommit, V!NextCol
  <2>2. Lo(n + 1) = Lo(n) + Depth(n)
    BY LoSteps DEF Vectors
  <2>3. SeedsBefore(n + 1) = SeedsBefore(n) + Leaves(n)
    BY SeedsBeforeFacts
  <2> QED
    BY <1>1, <1>2, <2>1, <2>2, <2>3 DEF Positions
<1>10. LoopIndices' /\ Loaded' /\ Triangle' /\ Converted'
  BY <1>1 DEF LoopIndices, Loaded, Triangle, Converted
<1>11. \A y \in V!Leaf(n) : sd[y] = <<n, y>>
  BY <1>1, <1>2 DEF VoleInv, Loaded, Live, Held
<1>12. Committing'
  <2>1. PICK W : /\ W = v'
                 /\ \A d \in 0 .. Depth(n) - 1 : W[Lo(n) + d] = O[d]
                 /\ \A x \in 0 .. n - 1 : \A d \in 0 .. K - 1 :
                      d < Depth(x) => W[Lo(x) + d] = M[Lo(x) + d]
    <3>1. PICK W : W = v'
      OBVIOUS
    <3>2. W = [x \in V!Columns |-> IF x \in Lo(n) .. Lo(n) + Depth(n) - 1 THEN O[x - Lo(n)] ELSE M[x]]
      BY <1>7, <3>1
    <3> QED
      BY <3>1, <3>2, WithPlaces
  <2>3. \A d \in 0 .. Depth(n) - 1 : O[d] = ColumnSum(n, d)
    <3> SUFFICES ASSUME NEW d \in 0 .. Depth(n) - 1 PROVE O[d] = ColumnSum(n, d)
      OBVIOUS
    <3>1. O[d] = Part(sd, n, WithBit(V!Leaf(n), d))
      BY <1>1, <1>2, <1>4 DEF VoleInv, Converted, Live
    <3>2. PICK P : P = {l \in V!Leaf(n) : BitOf(l, d) = 1}
      OBVIOUS
    <3>3. Part(sd, n, P) = Rows(n, P)
      BY <1>11, <3>2, PartIsRows
    <3> QED
      BY <3>1, <3>2, <3>3 DEF WithBit, ColumnSum
  <2>4. ui[n] = Rows(n, V!Leaf(n))
    <3>1. ui[n] = Part(sd, n, V!Leaf(n))
      BY <1>1, <1>2 DEF VoleInv, Converted, Live
    <3> QED
      BY <1>11, <3>1, PartIsRows
  <2>5. \A x \in 0 .. n : x \in 0 .. n - 1 \/ x = n
    BY <1>3
  <2>6. \A x \in 0 .. n - 1, d \in 0 .. K - 1 : d < Depth(x) => M[Lo(x) + d] = ColumnSum(x, d)
    BY <1>1, <1>2, <1>5 DEF VoleInv, Committing, SignerColumns
  <2>7. \A d \in 0 .. K - 1 : d < Depth(n) => d \in 0 .. Depth(n) - 1
    BY DepthTyped
  <2>8. \A x \in 0 .. n, d \in 0 .. K - 1 : d < Depth(x) => W[Lo(x) + d] = ColumnSum(x, d)
    BY <2>1, <2>3, <2>5, <2>6, <2>7
  <2>9. \A x \in 0 .. n : ui[x] = Rows(x, V!Leaf(x))
    BY <1>1, <1>2, <2>4, <2>5 DEF VoleInv, Committing
  <2>10. vi' - 1 = n /\ UNCHANGED <<side, ui>>
    BY <1>1, <1>2, <1>3
  <2> QED
    BY <1>1, <2>1, <2>8, <2>9, <2>10 DEF Committing, SignerColumns
<1>13. Committed' /\ Reconstructing'
  BY <1>1 DEF Committed, Reconstructing
<1> QED
  BY <1>8, <1>9, <1>10, <1>12, <1>13 DEF VoleInv

(* What vole_reconstruct adds up for bit d are the leaves whose bit d is   *)
(* not that of the hidden one.                                             *)
LEMMA HeldLeaves ==
  ASSUME vi \in Vectors, side = "reconstruct", V!Delta(vi) \in V!Leaf(vi),
         NEW d \in 0 .. Depth(vi) - 1
  PROVE  {Held(y) : y \in WithBit(Live, d)} =
           {l \in V!Leaf(vi) : BitOf(l, d) # BitOf(V!Delta(vi), d)}
<1>1. PICK n \in 0 .. K : n = Depth(vi) /\ V!Leaf(vi) = 0 .. 2 ^ n - 1
  BY DepthTyped DEF Leaves
<1>2. PICK e \in 0 .. 2 ^ n - 1 : e = V!Delta(vi)
  BY <1>1
<1>3. d \in Nat /\ d \in 0 .. n - 1 /\ n \in Nat
  BY <1>1, ChallengeAssumption
<1>4. \A y : Held(y) = V!XorIndex(y, e)
  BY <1>2 DEF Held
<1>5. Live = V!Leaf(vi) \ {0}
  BY DEF Live
<1>6. ASSUME NEW y \in 0 .. 2 ^ n - 1
      PROVE  /\ V!XorIndex(y, e) \in 0 .. 2 ^ n - 1
             /\ V!XorIndex(V!XorIndex(y, e), e) = y
             /\ BitOf(V!XorIndex(y, e), d) # BitOf(e, d) <=> BitOf(y, d) = 1
             /\ BitOf(V!XorIndex(y, e), d) = 1 <=> BitOf(y, d) # BitOf(e, d)
  <2>1. PICK x \in 0 .. 2 ^ n - 1 : x = V!XorIndex(y, e)
    BY XorIndexFacts
  <2>2. V!XorIndex(x, e) = y
    BY <2>1, XorIndexInverse
  <2>3. BitOf(x, d) = (BitOf(y, d) + BitOf(e, d)) % 2
    BY <1>3, <2>1, XorIndexFacts
  <2>4. BitOf(y, d) \in {0, 1} /\ BitOf(e, d) \in {0, 1}
    BY <1>3, BitTyped
  <2> QED
    BY <2>1, <2>2, <2>3, <2>4
<1>7. ASSUME NEW y \in WithBit(Live, d)
      PROVE  Held(y) \in {l \in V!Leaf(vi) : BitOf(l, d) # BitOf(e, d)}
  <2>1. y \in 0 .. 2 ^ n - 1 /\ BitOf(y, d) = 1
    BY <1>1, <1>5 DEF WithBit
  <2> QED
    BY <1>1, <1>4, <1>6, <2>1
<1>8. ASSUME NEW l \in V!Leaf(vi), BitOf(l, d) # BitOf(e, d)
      PROVE  \E y \in WithBit(Live, d) : l = Held(y)
  <2>1. PICK y \in 0 .. 2 ^ n - 1 : y = V!XorIndex(l, e)
    BY <1>1, XorIndexFacts
  <2>2. V!XorIndex(y, e) = l /\ BitOf(y, d) = 1
    BY <1>1, <1>6, <1>8, <2>1
  <2>3. y # 0
    BY <1>3, <2>2, BitsOfZero
  <2>4. y \in WithBit(Live, d) /\ Held(y) = l
    BY <1>1, <1>4, <1>5, <2>2, <2>3 DEF WithBit
  <2> QED
    BY <2>4
<1> QED
  BY <1>2, <1>7, <1>8

(* For a set A of expansions of which B is V's part, the others are what   *)
(* the verifier of vector 0 misses.                                        *)
LEMMA CorrectionAlgebra ==
  ASSUME NEW A, NEW B, B \subseteq A
  PROVE  V!Xor(B, {}) = B /\ V!Xor(A \ B, {}) = V!Xor(B, A)
BY DEF V!Xor

(* The column the verifier stores is the signer's plus the bit times u.    *)
LEMMA CorrectedColumn ==
  ASSUME VoleInv, ChallengeKnown, vpc = "return", side = "reconstruct",
         NEW d \in 0 .. Depth(vi) - 1
  PROVE  V!Xor(out[d], V!Correction(d)) =
           IF chall[Lo(vi) + d] = 1 THEN V!Xor(v[Lo(vi) + d], u) ELSE v[Lo(vi) + d]
<1>1. /\ vi \in Vectors /\ V!Delta(vi) \in V!Leaf(vi)
      /\ chall[Lo(vi) + d] = BitOf(V!Delta(vi), d)
  BY DEF VoleInv, VoleTyped, ChallengeKnown
<1>2. BitOf(V!Delta(vi), d) \in {0, 1} /\ \A l \in V!Leaf(vi) : BitOf(l, d) \in {0, 1}
  <2>1. d \in Nat /\ \A l \in V!Leaf(vi) : l \in Nat
    BY <1>1, DepthTyped
  <2> QED
    BY <1>1, <2>1, BitTyped
<1> DEFINE one == {l \in V!Leaf(vi) : BitOf(l, d) = 1}
           A == Rows(vi, V!Leaf(vi))
           B == Rows(vi, one)
<1>3. v[Lo(vi) + d] = B
  <2>1. d \in 0 .. K - 1 /\ d < Depth(vi) /\ vi \in 0 .. Tau - 1
    BY <1>1, DepthTyped, ChallengeAssumption DEF Vectors
  <2> QED
    BY <2>1 DEF VoleInv, Committed, SignerColumns, ColumnSum
<1>4. out[d] = Rows(vi, {l \in V!Leaf(vi) : BitOf(l, d) # BitOf(V!Delta(vi), d)})
  <2>1. out[d] = Part(sd, vi, WithBit(Live, d))
    BY DEF VoleInv, Converted
  <2>2. \A y \in WithBit(Live, d) : sd[y] = <<vi, Held(y)>>
    BY DEF VoleInv, Loaded, WithBit
  <2>3. Part(sd, vi, WithBit(Live, d)) = Rows(vi, {Held(y) : y \in WithBit(Live, d)})
    BY <2>2 DEF Part, Rows
  <2> QED
    BY <1>1, <2>1, <2>3, HeldLeaves
<1>5. B \subseteq A /\ A \ B = Rows(vi, {l \in V!Leaf(vi) : BitOf(l, d) # 1})
  BY DEF Rows
<1>6. vi = 0 => u = A
  BY DEF VoleInv, Committed
<1>7. vi # 0 => c[vi] = V!Xor(u, A)
  BY <1>1 DEF VoleInv, Committed
<1>8. V!Correction(d) = IF vi = 0 \/ BitOf(V!Delta(vi), d) = 0 THEN {} ELSE c[vi]
  BY SameBits DEF V!Correction
<1>9. CASE BitOf(V!Delta(vi), d) = 0
  <2>1. {l \in V!Leaf(vi) : BitOf(l, d) # BitOf(V!Delta(vi), d)} = one
    BY <1>2, <1>9
  <2>2. out[d] = B /\ V!Correction(d) = {}
    BY <1>4, <1>8, <1>9, <2>1
  <2> HIDE DEF A, B
  <2>3. V!Xor(B, {}) = B
    BY <1>5, CorrectionAlgebra
  <2> QED
    BY <1>1, <1>3, <1>9, <2>2, <2>3
<1>10. CASE BitOf(V!Delta(vi), d) = 1
  <2>1. out[d] = A \ B
    BY <1>4, <1>5, <1>10
  <2>2. V!Correction(d) = IF vi = 0 THEN {} ELSE c[vi]
    BY <1>8, <1>10
  <2> HIDE DEF A, B
  <2>3. /\ V!Xor(A \ B, {}) = V!Xor(B, A)
        /\ V!Xor(A \ B, V!Xor(u, A)) = V!Xor(B, u)
    <3>1. PICK w : w = u
      OBVIOUS
    <3>2. PICK X : X = A
      OBVIOUS
    <3>3. PICK Y : Y = B /\ Y \subseteq X
      BY <1>5, <3>2
    <3>4. V!Xor(X \ Y, {}) = V!Xor(Y, X)
      BY <3>3, CorrectionAlgebra
    <3>5. \A z : z \in V!Xor(X \ Y, V!Xor(w, X)) <=> z \in V!Xor(Y, w)
      BY <3>3 DEF V!Xor
    <3>6. V!Xor(X \ Y, V!Xor(w, X)) = V!Xor(Y, w)
      BY <3>5
    <3> QED
      BY <3>1, <3>2, <3>3, <3>4, <3>6
  <2>4. V!Xor(out[d], V!Correction(d)) = V!Xor(B, u)
    BY <1>6, <1>7, <2>1, <2>2, <2>3
  <2> QED
    BY <1>1, <1>3, <1>10, <2>4
<1> QED
  BY <1>2, <1>9, <1>10

LEMMA ReturnReconstructVoleInv ==
  VoleInv /\ ChallengeKnown /\ V!ReturnReconstruct /\ UNCHANGED vars => VoleInv'
<1> SUFFICES ASSUME VoleInv, ChallengeKnown, V!ReturnReconstruct, UNCHANGED vars PROVE VoleInv'
  OBVIOUS
<1>1. /\ vpc = "return" /\ side = "reconstruct" /\ vi \in Vectors /\ vi' = vi + 1
      /\ vpc' = IF vi + 1 = Tau THEN "pad" ELSE "load"
      /\ UNCHANGED <<side, sd, r, vj, idx, out, ui, v, u, c>>
  BY DEF V!ReturnReconstruct, VoleInv, VoleTyped
<1>2. PICK n \in Vectors : n = vi
  BY <1>1
<1>3. n \in Nat /\ n + 1 \in 0 .. Tau /\ n + 1 - 1 = n /\ (n + 1 # Tau => n + 1 \in Vectors)
  BY ChallengeAssumption DEF Vectors
<1>4. PICK F : F = [d \in Int |-> V!Xor(out[d], V!Correction(d))]
  OBVIOUS
<1>5. PICK M : M = q
  OBVIOUS
<1>6. col = Lo(n) /\ src = SeedsBefore(n) - n /\ Lo(n) \in Int /\ SeedsBefore(n) \in Int
  <2>1. n \in 0 .. Tau
    BY <1>3, ChallengeAssumption DEF Vectors
  <2> QED
    BY <1>1, <1>2, <2>1, BoundsTyped, SeedsBeforeFacts DEF VoleInv, Positions
<1>7. PICK W : W = q' /\ W = [x \in V!Columns |-> IF x \in Lo(n) .. Lo(n) + Depth(n) - 1
                                                  THEN F[x - Lo(n)] ELSE M[x]]
  <2>1. \A x \in V!Columns : x - Lo(n) \in Int
    BY <1>6 DEF V!Columns
  <2>2. \A x \in V!Columns : F[x - Lo(n)] = V!Xor(out[x - Lo(n)], V!Correction(x - Lo(n)))
    BY <1>4, <2>1
  <2>3. q' = [x \in V!Columns |-> IF x \in Lo(n) .. Lo(n) + Depth(n) - 1
                                  THEN V!Xor(out[x - Lo(n)], V!Correction(x - Lo(n))) ELSE q[x]]
    BY <1>2, <1>6, SameBits DEF V!ReturnReconstruct, V!With
  <2> QED
    BY <1>5, <2>2, <2>3
<1>8. VoleTyped'
  BY <1>1, <1>2, <1>3 DEF VoleInv, VoleTyped
<1>9. Positions'
  <2>1. col' = Lo(n) + Depth(n) /\ src' = SeedsBefore(n) - n + (Leaves(n) - 1)
    BY <1>2, <1>6, SameBits DEF V!ReturnReconstruct, V!NextCol, V!KnownLeaves
  <2>2. Lo(n + 1) = Lo(n) + Depth(n)
    BY LoSteps DEF Vectors
  <2>3. SeedsBefore(n + 1) = SeedsBefore(n) + Leaves(n) /\ Leaves(n) \in Int
    BY SeedsBeforeFacts, DepthTyped
  <2>4. src' = SeedsBefore(n + 1) - (n + 1)
    BY <1>3, <1>6, <2>1, <2>3
  <2> QED
    BY <1>1, <1>2, <2>1, <2>2, <2>4 DEF Positions
<1>10. LoopIndices' /\ Loaded' /\ Triangle' /\ Converted'
  BY <1>1 DEF LoopIndices, Loaded, Triangle, Converted
<1>11. Committing' /\ Committed'
  BY <1>1 DEF VoleInv, Committing, Committed, SignerColumns
<1>12. Reconstructing'
  <2>1. /\ \A d \in 0 .. Depth(n) - 1 : W[Lo(n) + d] = F[d]
        /\ \A x \in 0 .. n - 1 : \A d \in 0 .. K - 1 :
             d < Depth(x) => W[Lo(x) + d] = M[Lo(x) + d]
    BY <1>7, WithPlaces
  <2> DEFINE rel(x) == W[x] = IF chall[x] = 1 THEN V!Xor(v[x], u) ELSE v[x]
  <2>2. ASSUME NEW d \in 0 .. K - 1, d < Depth(n) PROVE rel(Lo(n) + d)
    <3>1. d \in 0 .. Depth(n) - 1 /\ d \in Int
      BY <2>2, DepthTyped
    <3>2. W[Lo(n) + d] = V!Xor(out[d], V!Correction(d))
      BY <1>4, <2>1, <3>1
    <3>3. V!Xor(out[d], V!Correction(d)) =
            IF chall[Lo(n) + d] = 1 THEN V!Xor(v[Lo(n) + d], u) ELSE v[Lo(n) + d]
      BY <1>1, <1>2, <3>1, CorrectedColumn
    <3> QED
      BY <3>2, <3>3
  <2>3. ASSUME NEW x \in 0 .. n - 1, NEW d \in 0 .. K - 1, d < Depth(x) PROVE rel(Lo(x) + d)
    <3>1. Related(Lo(x) + d)
      BY <1>1, <1>2, <2>3 DEF VoleInv, Reconstructing
    <3>2. W[Lo(x) + d] = q[Lo(x) + d]
      BY <1>5, <2>1, <2>3
    <3> QED
      BY <3>1, <3>2 DEF Related
  <2>4. \A x \in 0 .. n, d \in 0 .. K - 1 : d < Depth(x) => rel(Lo(x) + d)
    <3>1. \A x \in 0 .. n : x \in 0 .. n - 1 \/ x = n
      BY <1>3
    <3> HIDE DEF rel
    <3> QED
      BY <2>2, <2>3, <3>1
  <2>5. vi' - 1 = n /\ pc' = "decoded" /\ vpc' # "done"
    BY <1>1, <1>2, <1>3 DEF ChallengeKnown, vars
  <2>6. UNCHANGED <<side, chall, v, u>>
    BY <1>1 DEF vars
  <2> QED
    BY <1>7, <2>4, <2>5, <2>6 DEF Reconstructing, Related
<1> QED
  BY <1>8, <1>9, <1>10, <1>11, <1>12 DEF VoleInv

(* vole_commit ends with all columns made, vole_reconstruct starts over.   *)
LEMMA FinishCommitVoleInv == VoleInv /\ V!FinishCommit /\ UNCHANGED vars => VoleInv'
<1> SUFFICES ASSUME VoleInv, V!FinishCommit, UNCHANGED vars PROVE VoleInv'
  OBVIOUS
<1>1. /\ vpc = "pad" /\ side = "commit" /\ vi = Tau
      /\ side' = "reconstruct" /\ vpc' = "load" /\ vi' = 0 /\ src' = 0 /\ col' = 0
      /\ UNCHANGED <<r, vj, idx, out, ui, q>>
  BY DEF V!FinishCommit, VoleInv, VoleTyped
<1>2. 0 \in Vectors /\ Vectors = 0 .. Tau - 1
  BY ChallengeAssumption DEF Vectors
<1>3. VoleTyped'
  <2>1. DOMAIN sd' = 0 .. 2 ^ K - 1
    BY DEF V!FinishCommit, VoleInv, VoleTyped
  <2> QED
    BY <1>1, <1>2, <2>1 DEF VoleInv, VoleTyped
<1>4. Positions'
  BY <1>1, LoSteps, SeedsBeforeFacts DEF Positions
<1>5. LoopIndices' /\ Loaded' /\ Triangle' /\ Converted' /\ Committing'
  BY <1>1 DEF LoopIndices, Loaded, Triangle, Converted, Committing
<1>6. Committed'
  <2>1. col = Start /\ Start \in Nat
    BY <1>1, LoSteps, StartIs DEF VoleInv, Positions
  <2>2. v' = [x \in V!Columns |-> IF x >= Start THEN {} ELSE v[x]]
    BY <2>1 DEF V!FinishCommit, V!Padded
  <2>3. ASSUME NEW x \in 0 .. Tau - 1, NEW d \in 0 .. K - 1, d < Depth(x)
        PROVE  v'[Lo(x) + d] = ColumnSum(x, d)
    <3>1. x \in Vectors /\ d \in 0 .. Depth(x) - 1
      BY <1>2, <2>3, DepthTyped
    <3>2. Lo(x) + d \in 0 .. Start - 1 /\ Lo(x) + d \in V!Columns
      BY <3>1, ColumnPlaces
    <3>3. ~ (Lo(x) + d >= Start)
      BY <2>1, <3>2
    <3>4. v[Lo(x) + d] = ColumnSum(x, d)
      BY <1>1, <2>3 DEF VoleInv, Committing, SignerColumns
    <3> QED
      BY <2>2, <3>2, <3>3, <3>4
  <2>4. \A x \in Start .. Lambda - 1 : v'[x] = {}
    BY <2>1, <2>2 DEF V!Columns
  <2>5. \A x \in Vectors : ui[x] = Rows(x, V!Leaf(x))
    BY <1>1, <1>2 DEF VoleInv, Committing
  <2>6. u' = Rows(0, V!Leaf(0))
    BY <1>2, <2>5 DEF V!FinishCommit
  <2>7. \A x \in Vectors \ {0} : c'[x] = V!Xor(u', Rows(x, V!Leaf(x)))
    BY <1>2, <2>5, SameBits DEF V!FinishCommit
  <2> QED
    BY <2>3, <2>4, <2>6, <2>7 DEF Committed, SignerColumns
<1>7. Reconstructing'
  BY <1>1 DEF Reconstructing
<1> QED
  BY <1>3, <1>4, <1>5, <1>6, <1>7 DEF VoleInv

LEMMA FinishReconstructVoleInv ==
  VoleInv /\ ChallengeKnown /\ V!FinishReconstruct /\ UNCHANGED vars => VoleInv'
<1> SUFFICES ASSUME VoleInv, ChallengeKnown, V!FinishReconstruct, UNCHANGED vars PROVE VoleInv'
  OBVIOUS
<1>1. /\ vpc = "pad" /\ side = "reconstruct" /\ vi = Tau /\ vpc' = "done"
      /\ UNCHANGED <<side, vi, src, sd, r, vj, idx, out, ui, col, v, u, c>>
  BY DEF V!FinishReconstruct, VoleInv, VoleTyped
<1>2. VoleTyped' /\ Positions'
  BY <1>1 DEF VoleInv, VoleTyped, Positions
<1>3. LoopIndices' /\ Loaded' /\ Triangle' /\ Converted'
  BY <1>1 DEF LoopIndices, Loaded, Triangle, Converted
<1>4. Committing' /\ Committed'
  BY <1>1 DEF VoleInv, Committing, Committed, SignerColumns
<1>5. Reconstructing'
  <2>1. col = Start /\ Start \in Nat
    BY <1>1, LoSteps, StartIs DEF VoleInv, Positions
  <2>2. q' = [x \in V!Columns |-> IF x >= Start THEN {} ELSE q[x]]
    BY <2>1 DEF V!FinishReconstruct, V!Padded
  <2>3. ASSUME NEW x \in 0 .. Tau - 1, NEW d \in 0 .. K - 1, d < Depth(x)
        PROVE  q'[Lo(x) + d] = IF chall[Lo(x) + d] = 1 THEN V!Xor(v[Lo(x) + d], u)
                               ELSE v[Lo(x) + d]
    <3>1. x \in Vectors /\ d \in 0 .. Depth(x) - 1
      BY <2>3, DepthTyped DEF Vectors
    <3>2. Lo(x) + d \in 0 .. Start - 1 /\ Lo(x) + d \in V!Columns
      BY <3>1, ColumnPlaces
    <3>3. ~ (Lo(x) + d >= Start)
      BY <2>1, <3>2
    <3>4. Related(Lo(x) + d)
      BY <1>1, <2>3 DEF VoleInv, Reconstructing
    <3> QED
      BY <2>2, <3>2, <3>3, <3>4 DEF Related
  <2>4. \A x \in Start .. Lambda - 1 : q'[x] = {}
    BY <2>1, <2>2 DEF V!Columns
  <2>5. pc' = "decoded" /\ UNCHANGED <<side, vi, chall, v, u>>
    BY <1>1 DEF ChallengeKnown, vars
  <2> QED
    BY <1>1, <2>3, <2>4, <2>5 DEF Reconstructing, Related
<1> QED
  BY <1>2, <1>3, <1>4, <1>5 DEF VoleInv

(* A refused opening leaves everything as it is.                           *)
LEMMA ReconstructFailsVoleInv ==
  VoleInv /\ ChallengeKnown /\ V!ReconstructFails /\ UNCHANGED vars => VoleInv'
<1> SUFFICES ASSUME VoleInv, ChallengeKnown, V!ReconstructFails, UNCHANGED vars PROVE VoleInv'
  OBVIOUS
<1>1. /\ vpc = "load" /\ side = "reconstruct" /\ vpc' = "failed"
      /\ UNCHANGED <<side, vi, src, sd, r, vj, idx, out, ui, col, v, q, u, c>>
  BY DEF V!ReconstructFails
<1>2. VoleTyped' /\ Positions'
  BY <1>1 DEF VoleInv, VoleTyped, Positions
<1>3. LoopIndices' /\ Loaded' /\ Triangle' /\ Converted'
  BY <1>1 DEF LoopIndices, Loaded, Triangle, Converted
<1>4. Committing' /\ Committed'
  BY <1>1 DEF VoleInv, Committing, Committed, SignerColumns
<1>5. Reconstructing'
  BY <1>1 DEF VoleInv, Reconstructing, Related, ChallengeKnown, vars
<1> QED
  BY <1>2, <1>3, <1>4, <1>5 DEF VoleInv

-----------------------------------------------------------------------------
LEMMA ExchangeKeeps == VoleInv /\ IInv /\ DecodeInv /\ [ExchangeNext]_all => VoleInv'
<1> SUFFICES ASSUME VoleInv, IInv, DecodeInv, [ExchangeNext]_all PROVE VoleInv'
  OBVIOUS
<1>1. CASE CommitStep
  <2>1. ChallengeKnown /\ UNCHANGED vars /\ V!Next
    BY <1>1 DEF CommitStep, ChallengeKnown
  <2> QED
    BY <2>1, LoadCommitVoleInv, LoadReconstructVoleInv, ExpandVoleInv, FoldVoleInv, EndRowVoleInv,
       EndConvertVoleInv, ReturnCommitVoleInv, ReturnReconstructVoleInv, FinishCommitVoleInv,
       FinishReconstructVoleInv, ReconstructFailsVoleInv DEF V!Next
<1>2. CASE ReconstructStep
  <2>1. ChallengeKnown /\ UNCHANGED vars /\ V!Next
    BY <1>2, DecodedFacts DEF ReconstructStep, ChallengeKnown
  <2> QED
    BY <2>1, LoadCommitVoleInv, LoadReconstructVoleInv, ExpandVoleInv, FoldVoleInv, EndRowVoleInv,
       EndConvertVoleInv, ReturnCommitVoleInv, ReturnReconstructVoleInv, FinishCommitVoleInv,
       FinishReconstructVoleInv, ReconstructFailsVoleInv DEF V!Next
<1>3. CASE ChallengeStep
  BY <1>3, ChallengeVoleInv
<1>4. CASE UNCHANGED all
  BY <1>4, StutterVoleInv
<1> QED
  BY <1>1, <1>2, <1>3, <1>4 DEF ExchangeNext

LEMMA ExchangeInvariance == ExchangeSpec => [](VoleInv /\ IInv)
<1>1. ExchangeSpec => [](IInv /\ DecodeInv)
  BY ExchangeChecks, DecodeInvariant, PTL
<1> QED
  BY <1>1, InitVoleInv, ExchangeKeeps, PTL DEF ExchangeSpec

(* For every parameter set and every challenge that passes the grinding    *)
(* check, convert_to_vole's triangle gives the signer the columns and the  *)
(* u of the definition, and the verifier, column by column, V plus the     *)
(* challenge bit times u (Correlation).                                    *)
THEOREM VoleCorrelation == ExchangeSpec => []Correlation
<1>1. VoleInv /\ IInv => Correlation
  <2> SUFFICES ASSUME VoleInv, IInv, vpc = "done"
               PROVE  /\ u = Rows(0, V!Leaf(0))
                      /\ \A x \in Vectors, d \in 0 .. K - 1 :
                           d < Depth(x) => v[FirstColumn(x) + d] = ColumnSum(x, d)
                      /\ \A x \in Start .. Lambda - 1 : v[x] = {}
                      /\ \A x \in V!Columns : Related(x)
    BY DEF Correlation, Related
  <2>1. side = "reconstruct" /\ vi = Tau
    BY DEF VoleInv, VoleTyped
  <2>2. /\ SignerColumns(Tau) /\ u = Rows(0, V!Leaf(0))
        /\ \A x \in Start .. Lambda - 1 : v[x] = {}
    BY <2>1 DEF VoleInv, Committed
  <2>3. \A x \in Vectors, d \in 0 .. K - 1 :
          d < Depth(x) => v[FirstColumn(x) + d] = ColumnSum(x, d)
    BY <2>2, FirstColumnIs DEF SignerColumns, Vectors
  <2>4. /\ pc = "decoded"
        /\ \A x \in Vectors, d \in 0 .. K - 1 : d < Depth(x) => Related(Lo(x) + d)
        /\ \A x \in Start .. Lambda - 1 : q[x] = {}
    BY <2>1 DEF VoleInv, Reconstructing, Vectors
  <2>5. ASSUME NEW x \in V!Columns PROVE Related(x)
    <3>1. x \in Nat /\ Start \in Nat /\ x \in 0 .. Lambda - 1
      BY StartIs DEF V!Columns
    <3>2. CASE x < Start
      <4>1. x \in 0 .. Start - 1
        BY <3>1, <3>2
      <4>2. PICK n \in Vectors : x \in Lo(n) .. Hi(n) - 1
        BY <4>1, EveryBitUsedOnce
      <4>3. Hi(n) = Lo(n) + Depth(n) /\ Lo(n) \in Int /\ Depth(n) \in 0 .. K
        BY Adjacent, BoundsTyped, DepthTyped
      <4>4. PICK d \in Int : d = x - Lo(n)
        BY <3>1, <4>3
      <4>5. d \in 0 .. K - 1 /\ d < Depth(n) /\ x = Lo(n) + d
        BY <3>1, <4>2, <4>3, <4>4, ChallengeAssumption
      <4> QED
        BY <2>4, <4>5
    <3>3. CASE x >= Start
      <4>1. x \in Start .. Lambda - 1
        BY <3>1, <3>3
      <4>2. ~ SomeSet(Start, Lambda)
        BY <2>4 DEF IInv, Found
      <4>3. chall[x] # 1
        BY <4>1, <4>2 DEF SomeSet
      <4> QED
        BY <2>2, <2>4, <4>1, <4>3 DEF Related
    <3> QED
      BY <3>1, <3>2, <3>3
  <2> QED
    BY <2>2, <2>3, <2>4, <2>5
<1> QED
  BY <1>1, ExchangeInvariance, PTL
=============================================================================
