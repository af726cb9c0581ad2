---------------------------- MODULE NumberLemmas ----------------------------
(***************************************************************************)
(* Facts about numbers that the proofs share: the remainder by a positive  *)
(* modulus, for the modules that count modulo something, and the least and *)
(* greatest elements of sets.                                              *)
(***************************************************************************)
EXTENDS Integers, WellFoundedInduction, TLAPS

-----------------------------------------------------------------------------
(* Remainders.                                                             *)

(* Two remainders that differ by a multiple of m are equal.                *)
LEMMA MultipleZero ==
    ASSUME NEW m \in Nat \ {0}, NEW d \in Int,
           NEW a \in 0 .. m - 1, NEW b \in 0 .. m - 1, d * m = a - b
    PROVE  d = 0
<1>1. CASE d >= 1
  <2>1. d * m >= m
    BY <1>1
  <2> QED
    BY <2>1
<1>2. CASE d <= -1
  <2>1. d * m <= -m
    BY <1>2
  <2> QED
    BY <2>1
<1> QED
  BY <1>1, <1>2

(* Division with remainder.                                                *)
LEMMA ModDef ==
    ASSUME NEW m \in Nat \ {0}, NEW x \in Int
    PROVE  x % m \in 0 .. m - 1 /\ \E q \in Int : x = q * m + (x % m)
<1>1. x \div m \in Int /\ x = (x \div m) * m + (x % m)
  OBVIOUS
<1>2. x % m \in 0 .. m - 1
  OBVIOUS
<1> QED
  BY <1>1, <1>2

(* The remainder is the only number of the range that differs from x by a  *)
(* multiple of m.                                                          *)
LEMMA ModUnique ==
    ASSUME NEW m \in Nat \ {0}, NEW q \in Int, NEW a \in 0 .. m - 1
    PROVE  (q * m + a) % m = a
<1> DEFINE x == q * m + a
           b == x % m
<1>1. x \in Int
  OBVIOUS
<1>2. PICK p \in Int : x = p * m + b /\ b \in 0 .. m - 1
  BY <1>1, ModDef
<1> HIDE DEF b
<1>3. q * m - p * m = b - a
  BY <1>2
<1>4. (q - p) * m = q * m - p * m
  BY <1>2
<1>5. (q - p) * m = b - a
  BY <1>3, <1>4
<1>6. q - p = 0
  BY <1>2, <1>5, MultipleZero
<1> QED
  BY <1>2, <1>5, <1>6 DEF b

(* ... and that multiple is given by the quotient.                         *)
LEMMA DivUnique ==
    ASSUME NEW m \in Nat \ {0}, NEW q \in Int, NEW a \in 0 .. m - 1
    PROVE  (q * m + a) \div m = q
<1> DEFINE x == q * m + a
<1>1. x \in Int /\ x % m = a
  BY ModUnique
<1>2. PICK p \in Int : p = x \div m /\ x = p * m + (x % m)
  BY <1>1
<1>3. (q - p) * m = q * m - p * m
  BY <1>2
<1>4. (q - p) * m = a - a
  BY <1>1, <1>2, <1>3
<1>5. q - p = 0
  BY <1>2, <1>4, MultipleZero
<1> QED
  BY <1>2, <1>5

(* Adding a multiple of m does not change the remainder.                   *)
LEMMA ModShift ==
    ASSUME NEW m \in Nat \ {0}, NEW x \in Int, NEW y \in Int,
           NEW k \in Int, x - y = k * m
    PROVE  x % m = y % m
<1> DEFINE b == y % m
<1>1. PICK q \in Int : y = q * m + b /\ b \in 0 .. m - 1
  BY ModDef
<1> HIDE DEF b
<1>2. (k + q) * m = k * m + q * m
  BY <1>1
<1>3. x = (k + q) * m + b
  BY <1>1, <1>2
<1>4. k + q \in Int
  BY <1>1
<1>5. ((k + q) * m + b) % m = b
  BY <1>1, <1>4, ModUnique
<1> QED
  BY <1>3, <1>5 DEF b

(* Conversely, equal remainders differ by a multiple of m.                 *)
LEMMA ModSame ==
    ASSUME NEW m \in Nat \ {0}, NEW x \in Int, NEW y \in Int, x % m = y % m
    PROVE  \E k \in Int : x - y = k * m
<1>1. PICK p \in Int : x = p * m + (x % m)
  BY ModDef
<1>2. PICK q \in Int : y = q * m + (y % m)
  BY ModDef
<1>3. (p - q) * m = p * m - q * m
  BY <1>1, <1>2
<1>4. x % m \in 0 .. m - 1
  BY ModDef
<1>5. x - y = (p - q) * m
  BY <1>1, <1>2, <1>3, <1>4
<1>6. p - q \in Int
  BY <1>1, <1>2
<1> QED
  BY <1>5, <1>6

(* A number already in the range is its own remainder.                     *)
LEMMA ModSmall ==
    ASSUME NEW m \in Nat \ {0}, NEW a \in 0 .. m - 1
    PROVE  a % m = a
BY ModUnique

(* The remainder of an operand may be taken before or after the sum.       *)
LEMMA ModAdd ==
    ASSUME NEW m \in Nat \ {0}, NEW x \in Int, NEW y \in Int
    PROVE  ((x % m) + y) % m = (x + y) % m
<1> DEFINE b == x % m
<1>1. PICK q \in Int : x = q * m + b /\ b \in 0 .. m - 1
  BY ModDef
<1> HIDE DEF b
<1>2. (x + y) - (b + y) = q * m /\ x + y \in Int /\ b + y \in Int
  BY <1>1
<1>3. (x + y) % m = (b + y) % m
  BY <1>1, <1>2, ModShift
<1> QED
  BY <1>3 DEF b

LEMMA ModSub ==
    ASSUME NEW m \in Nat \ {0}, NEW x \in Int, NEW y \in Int
    PROVE  (y - (x % m)) % m = (y - x) % m
<1> DEFINE b == x % m
<1>1. PICK q \in Int : x = q * m + b /\ b \in 0 .. m - 1
  BY ModDef
<1> HIDE DEF b
<1>2. (-q) * m = - (q * m)
  BY <1>1
<1>3. (y - x) - (y - b) = (-q) * m /\ y - x \in Int /\ y - b \in Int /\ -q \in Int
  BY <1>1, <1>2
<1>4. (y - x) % m = (y - b) % m
  BY <1>3, ModShift
<1> QED
  BY <1>4 DEF b

(* What one operand gains and the other loses leaves the sum as it was.    *)
LEMMA ModTransfer ==
    ASSUME NEW m \in Nat \ {0}, NEW a \in Int, NEW b \in Int, NEW x \in Int
    PROVE  (((a + x) % m) + (b - x)) % m = (a + b) % m
<1>1. a + x \in Int /\ b - x \in Int /\ (a + x) + (b - x) = a + b
  OBVIOUS
<1>2. (((a + x) % m) + (b - x)) % m = ((a + x) + (b - x)) % m
  BY <1>1, ModAdd
<1> QED
  BY <1>1, <1>2

LEMMA ModAddRight ==
    ASSUME NEW m \in Nat \ {0}, NEW a \in Int, NEW d \in Int
    PROVE  (a + (d % m)) % m = (a + d) % m
<1>1. ((d % m) + a) % m = (d + a) % m
  BY ModAdd
<1>2. (d % m) \in Int
  BY ModDef
<1>3. (d % m) + a = a + (d % m) /\ d + a = a + d
  BY <1>2
<1> QED
  BY <1>1, <1>3

-----------------------------------------------------------------------------
(* Sets.                                                                   *)

LEMMA LeastElement ==
    ASSUME NEW T \in SUBSET Nat, T # {}
    PROVE  \E n \in T : \A m \in T : n <= m
<1> DEFINE R == OpToRel(<, Nat)
<1>1. IsWellFoundedOn(R, Nat)
  BY NatLessThanWellFounded
<1>2. \A x, y \in Nat : <<y, x>> \in R <=> y < x
  BY DEF OpToRel
<1> HIDE DEF R
<1>3. PICK n \in T : \A m \in T : ~(<<m, n>> \in R)
  BY <1>1, WFMin
<1>4. ASSUME NEW m \in T PROVE n <= m
  <2>1. n \in Nat /\ m \in Nat
    OBVIOUS
  <2>2. ~(m < n)
    BY <1>2, <1>3, <2>1
  <2> QED
    BY <2>1, <2>2
<1> QED
  BY <1>4

LEMMA GreatestElement ==
    ASSUME NEW k \in Nat, NEW T \in SUBSET (0 .. k), T # {}
    PROVE  \E n \in T : \A m \in T : m <= n
<1> DEFINE U == {k - n : n \in T}
<1>1. U \in SUBSET Nat /\ U # {}
  <2>1. \A n \in T : k - n \in Nat
    OBVIOUS
  <2>2. U \subseteq Nat
    BY <2>1
  <2>3. PICK n \in T : TRUE
    OBVIOUS
  <2>4. k - n \in U
    OBVIOUS
  <2> QED
    BY <2>2, <2>4
<1>2. \A n \in T : n \in 0 .. k /\ k - n \in U
  OBVIOUS
<1>3. \A u \in U : \E n \in T : u = k - n
  OBVIOUS
<1> HIDE DEF U
<1>4. PICK u \in U : \A m \in U : u <= m
  BY <1>1, LeastElement
<1>5. PICK n \in T : u = k - n
  BY <1>3
<1>6. ASSUME NEW m \in T PROVE m <= n
  <2>1. u <= k - m /\ m \in 0 .. k /\ n \in 0 .. k
    BY <1>2, <1>4
  <2> QED
    BY <1>5, <2>1
<1> QED
  BY <1>6

(* Induction over the numbers up to n, for a set.                          *)
LEMMA UpTo ==
    ASSUME NEW n \in Nat, NEW G, 0 \in G, \A k \in 0 .. n - 1 : k \in G => k + 1 \in G
    PROVE  0 .. n \subseteq G
<1> DEFINE T == {k \in 0 .. n : k \notin G}
<1> SUFFICES ASSUME T # {} PROVE FALSE
  OBVIOUS
<1>1. T \in SUBSET Nat
  OBVIOUS
<1>2. PICK k \in T : \A m \in T : k <= m
  <2> HIDE DEF T
  <2> QED
    BY <1>1, LeastElement
<1>3. k \in 0 .. n /\ k \notin G /\ k # 0
  OBVIOUS
<1>4. k - 1 \in 0 .. n - 1 /\ (k - 1) + 1 = k
  BY <1>3
<1>5. k - 1 \notin T
  BY <1>2, <1>4
<1> QED
  BY <1>3, <1>4, <1>5
=============================================================================
