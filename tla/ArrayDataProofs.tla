---------------------------- MODULE ArrayDataProofs ----------------------------
(***************************************************************************)
(* What is proved about ArrayData, for arrays of every number of           *)
(* dimensions: elements are where compiled code and Python look for them,  *)
(* and arrays hold what they were filled with.                             *)
(***************************************************************************)
EXTENDS ArrayData, WellFoundedInduction, TLAPS

(* Numbers *)

\* Every set of numbers has a least one.
LEMMA Least ==
  ASSUME NEW S, S \subseteq Nat, S # {}
  PROVE  \E x \in S : \A y \in S : x <= y
<1> DEFINE R == OpToRel(<, Nat)
<1>1. IsWellFoundedOn(R, Nat)
  BY NatLessThanWellFounded
<1>2. \A y, z \in Nat : <<y, z>> \in R <=> y < z
  BY DEF OpToRel
<1> HIDE DEF R
<1>3. PICK x \in S : \A y \in S : <<y, x>> \notin R
  BY <1>1, WFMin
<1>4. ASSUME NEW y \in S PROVE x <= y
  <2>1. x \in Nat /\ y \in Nat
    OBVIOUS
  <2>2. ~(y < x)
    BY <1>2, <1>3, <2>1
  <2> QED
    BY <2>1, <2>2
<1> QED
  BY <1>4

\* A set that contains 0, and with each number below n the next, contains the
\* numbers to n.
LEMMA Steps ==
  ASSUME NEW n \in Nat, NEW S, 0 \in S, \A k \in 0 .. n - 1 : k \in S => k + 1 \in S
  PROVE  \A k \in 0 .. n : k \in S
<1> DEFINE T == {k \in 0 .. n : k \notin S}
<1> SUFFICES ASSUME T # {} PROVE FALSE
  OBVIOUS
<1>1. T \subseteq Nat
  OBVIOUS
<1>2. \E x \in T : \A y \in T : x <= y
  <2> HIDE DEF T
  <2> QED
    BY <1>1, Least
<1>3. PICK x \in T : \A y \in T : x <= y
  BY <1>2
<1>4. x - 1 \in 0 .. n - 1 /\ x - 1 \notin T
  BY <1>3
<1>5. x - 1 \in S
  BY <1>4
<1> QED
  BY <1>4, <1>5

\* The same from n down.
LEMMA StepsDown ==
  ASSUME NEW n \in Nat, NEW S, n \in S, \A k \in 1 .. n : k \in S => k - 1 \in S
  PROVE  \A k \in 0 .. n : k \in S
<1> DEFINE T == {k \in 0 .. n : n - k \in S}
<1>1. 0 \in T /\ \A k \in 0 .. n - 1 : k \in T => k + 1 \in T
  <2>1. 0 \in T
    OBVIOUS
  <2>2. ASSUME NEW k \in 0 .. n - 1, k \in T PROVE k + 1 \in T
    <3>1. n - k \in S /\ n - k \in 1 .. n
      BY <2>2
    <3>2. (n - k) - 1 \in S
      BY <3>1
    <3>3. n - (k + 1) = (n - k) - 1
      OBVIOUS
    <3> QED
      BY <3>2, <3>3
  <2> QED
    BY <2>1, <2>2
<1>2. \A k \in 0 .. n : k \in T
  <2> HIDE DEF T
  <2> QED
    BY <1>1, Steps
<1>3. ASSUME NEW k \in 0 .. n PROVE k \in S
  <2>1. n - k \in 0 .. n /\ n - (n - k) = k
    OBVIOUS
  <2> QED
    BY <1>2, <2>1
<1> QED
  BY <1>3

LEMMA Associative == \A a, b, c \in Int : a * (b * c) = (a * b) * c /\ a * b \in Int
  OBVIOUS

LEMMA Distributive == \A a, b, c \in Int : (a + b) * c = a * c + b * c
  OBVIOUS

LEMMA Positive == \A a, b \in Int : a > 0 /\ b > 0 => a * b > 0 /\ a * b >= a /\ a * b >= b
  OBVIOUS

LEMMA Monotone ==
  ASSUME NEW a \in Int, NEW b \in Int, NEW c \in Nat, a <= b
  PROVE  a * c <= b * c
  OBVIOUS

LEMMA Quotient ==
  ASSUME NEW a \in Int, NEW b \in Nat, b > 0
  PROVE  (a * b) \div b = a /\ (a * b) % b = 0
  OBVIOUS

----------------------------------------------------------------------------
(* Products and sums *)

\* The partial sums and products that At and Product compute.
IsSum(p, n, data, index, strides) ==
  /\ p \in [0 .. n -> Int] /\ p[0] = data
  /\ \A k \in 1 .. n : p[k] = p[k - 1] + index[k] * strides[k]

IsProduct(p, n, s) ==
  p \in [0 .. n -> Nat] /\ p[0] = 1 /\ \A k \in 1 .. n : p[k] = p[k - 1] * s[k]

LEMMA SumExists ==
  ASSUME NEW n \in Nat, NEW data \in Int, NEW index, NEW strides,
         \A k \in 1 .. n : index[k] \in Int /\ strides[k] \in Int
  PROVE  \E p : IsSum(p, n, data, index, strides)
<1> DEFINE S == {m \in 0 .. n : \E p : IsSum(p, m, data, index, strides)}
<1>1. 0 \in S
  <2>1. IsSum([k \in 0 .. 0 |-> data], 0, data, index, strides)
    BY DEF IsSum
  <2> QED
    BY <2>1
<1>2. ASSUME NEW m \in 0 .. n - 1, m \in S PROVE m + 1 \in S
  <2>1. PICK p : IsSum(p, m, data, index, strides)
    BY <1>2
  <2> DEFINE q == [k \in 0 .. m + 1 |->
                     IF k <= m THEN p[k] ELSE p[m] + index[m + 1] * strides[m + 1]]
  <2>2. m + 1 \in 1 .. n /\ index[m + 1] * strides[m + 1] \in Int /\ p[m] \in Int
    BY <2>1 DEF IsSum
  <2>3. q \in [0 .. m + 1 -> Int] /\ q[0] = data
    BY <2>1, <2>2 DEF IsSum
  <2>4. ASSUME NEW k \in 1 .. m + 1 PROVE q[k] = q[k - 1] + index[k] * strides[k]
    <3>1. CASE k <= m
      BY <2>1, <3>1 DEF IsSum
    <3>2. CASE k = m + 1
      BY <2>1, <2>2, <3>2
    <3> QED
      BY <3>1, <3>2
  <2>5. IsSum(q, m + 1, data, index, strides)
    BY <2>3, <2>4 DEF IsSum
  <2> HIDE DEF q
  <2> QED
    BY <2>5
<1>3. \A m \in 0 .. n : m \in S
  <2> HIDE DEF S
  <2> QED
    BY <1>1, <1>2, Steps
<1> QED
  BY <1>3

LEMMA ProductExists ==
  ASSUME NEW n \in Nat, NEW s, \A k \in 1 .. n : s[k] \in Nat
  PROVE  \E p : IsProduct(p, n, s)
<1> DEFINE S == {m \in 0 .. n : \E p : IsProduct(p, m, s)}
<1>1. 0 \in S
  <2>1. IsProduct([k \in 0 .. 0 |-> 1], 0, s)
    BY DEF IsProduct
  <2> QED
    BY <2>1
<1>2. ASSUME NEW m \in 0 .. n - 1, m \in S PROVE m + 1 \in S
  <2>1. PICK p : IsProduct(p, m, s)
    BY <1>2
  <2> DEFINE q == [k \in 0 .. m + 1 |-> IF k <= m THEN p[k] ELSE p[m] * s[m + 1]]
  <2>2. m + 1 \in 1 .. n /\ p[m] \in Nat /\ s[m + 1] \in Nat
    BY <2>1 DEF IsProduct
  <2>3. p[m] * s[m + 1] \in Nat
    BY <2>2
  <2>4. q \in [0 .. m + 1 -> Nat] /\ q[0] = 1
    BY <2>1, <2>3 DEF IsProduct
  <2>5. ASSUME NEW k \in 1 .. m + 1 PROVE q[k] = q[k - 1] * s[k]
    <3>1. CASE k <= m
      BY <2>1, <3>1 DEF IsProduct
    <3>2. CASE k = m + 1
      BY <2>1, <2>2, <3>2
    <3> QED
      BY <3>1, <3>2
  <2>6. IsProduct(q, m + 1, s)
    BY <2>4, <2>5 DEF IsProduct
  <2> HIDE DEF q
  <2> QED
    BY <2>6
<1>3. \A m \in 0 .. n : m \in S
  <2> HIDE DEF S
  <2> QED
    BY <1>1, <1>2, Steps
<1> QED
  BY <1>3

\* Sums of the same terms are the same.
LEMMA SumsAgree ==
  ASSUME NEW n \in Nat, NEW data, NEW index, NEW strides, NEW index2, NEW strides2,
         NEW p, IsSum(p, n, data, index, strides),
         NEW q, IsSum(q, n, data, index2, strides2),
         \A k \in 1 .. n : index[k] * strides[k] = index2[k] * strides2[k]
  PROVE  \A k \in 0 .. n : p[k] = q[k]
<1> DEFINE S == {k \in 0 .. n : p[k] = q[k]}
<1>1. 0 \in S /\ \A k \in 0 .. n - 1 : k \in S => k + 1 \in S
  BY DEF IsSum
<1> HIDE DEF S
<1>2. \A k \in 0 .. n : k \in S
  BY <1>1, Steps
<1> QED
  BY <1>2 DEF S

LEMMA ProductsAgree ==
  ASSUME NEW n \in Nat, NEW s, NEW t, NEW p, IsProduct(p, n, s), NEW q, IsProduct(q, n, t),
         \A k \in 1 .. n : s[k] = t[k]
  PROVE  \A k \in 0 .. n : p[k] = q[k]
<1> DEFINE S == {k \in 0 .. n : p[k] = q[k]}
<1>1. 0 \in S /\ \A k \in 0 .. n - 1 : k \in S => k + 1 \in S
  BY DEF IsProduct
<1> HIDE DEF S
<1>2. \A k \in 0 .. n : k \in S
  BY <1>1, Steps
<1> QED
  BY <1>2 DEF S

LEMMA AtIs ==
  ASSUME NEW n \in Nat, NEW data \in Int, NEW index \in [1 .. n -> Int], NEW strides,
         \A k \in 1 .. n : strides[k] \in Int,
         NEW q, IsSum(q, n, data, index, strides)
  PROVE  At(data, index, strides) = q[n] /\ At(data, index, strides) \in Int
<1> DEFINE P == CHOOSE p : p = [k \in 0 .. Len(index) |->
                  IF k = 0 THEN data ELSE p[k - 1] + index[k] * strides[k]]
<1>1. Len(index) = n
  OBVIOUS
<1>2. q = [k \in 0 .. Len(index) |->
             IF k = 0 THEN data ELSE q[k - 1] + index[k] * strides[k]]
  BY <1>1 DEF IsSum
<1>3. P = [k \in 0 .. Len(index) |->
             IF k = 0 THEN data ELSE P[k - 1] + index[k] * strides[k]]
  BY <1>2
<1>4. At(data, index, strides) = P[n]
  BY <1>1 DEF At
<1> HIDE DEF P
<1> DEFINE S == {k \in 0 .. n : P[k] = q[k]}
<1>5. 0 \in S
  BY <1>1, <1>3 DEF IsSum
<1>6. ASSUME NEW k \in 0 .. n - 1, k \in S PROVE k + 1 \in S
  <2>1. k + 1 \in 0 .. Len(index) /\ k + 1 # 0 /\ (k + 1) - 1 = k
    BY <1>1
  <2>2. P[k + 1] = P[k] + index[k + 1] * strides[k + 1]
    BY <1>3, <2>1
  <2>3. q[k + 1] = q[k] + index[k + 1] * strides[k + 1]
    BY <1>2, <2>1
  <2> QED
    BY <1>6, <2>2, <2>3
<1> HIDE DEF S
<1>7. \A k \in 0 .. n : k \in S
  BY <1>5, <1>6, Steps
<1>8. P[n] = q[n]
  BY <1>7 DEF S
<1> QED
  BY <1>4, <1>8 DEF IsSum

LEMMA ProductIs ==
  ASSUME NEW s \in Seq(Nat), NEW q, IsProduct(q, Len(s), s)
  PROVE  Product(s) = q[Len(s)] /\ Product(s) \in Nat
<1> DEFINE n == Len(s)
           P == CHOOSE p : p = [k \in 0 .. Len(s) |-> IF k = 0 THEN 1 ELSE p[k - 1] * s[k]]
<1>1. n \in Nat
  OBVIOUS
<1>2. q = [k \in 0 .. Len(s) |-> IF k = 0 THEN 1 ELSE q[k - 1] * s[k]]
  BY DEF IsProduct
<1>3. P = [k \in 0 .. Len(s) |-> IF k = 0 THEN 1 ELSE P[k - 1] * s[k]]
  BY <1>2
<1>4. Product(s) = P[n]
  BY DEF Product
<1> HIDE DEF P
<1> DEFINE S == {k \in 0 .. n : P[k] = q[k]}
<1>5. 0 \in S
  BY <1>1, <1>3 DEF IsProduct
<1>6. ASSUME NEW k \in 0 .. n - 1, k \in S PROVE k + 1 \in S
  <2>1. k + 1 \in 0 .. Len(s) /\ k + 1 # 0 /\ (k + 1) - 1 = k
    OBVIOUS
  <2>2. P[k + 1] = P[k] * s[k + 1]
    BY <1>3, <2>1
  <2>3. q[k + 1] = q[k] * s[k + 1]
    BY <1>2, <2>1
  <2> QED
    BY <1>6, <2>2, <2>3
<1> HIDE DEF S
<1>7. \A k \in 0 .. n : k \in S
  BY <1>1, <1>5, <1>6, Steps
<1>8. P[n] = q[n]
  BY <1>7 DEF S
<1> QED
  BY <1>4, <1>8 DEF IsProduct

\* Parts of a shape are shapes.
LEMMA PartOf ==
  ASSUME NEW s \in Seq(Nat), NEW m \in 1 .. Len(s) + 1, NEW n \in 0 .. Len(s), m <= n + 1
  PROVE  /\ SubSeq(s, m, n) \in Seq(Nat) /\ Len(SubSeq(s, m, n)) = n - m + 1
         /\ \A k \in 1 .. n - m + 1 : SubSeq(s, m, n)[k] = s[m + k - 1]
  OBVIOUS

LEMMA ProductEmpty == Product(<<>>) = 1
<1>1. IsProduct([k \in 0 .. 0 |-> 1], Len(<<>>), <<>>)
  BY DEF IsProduct
<1> QED
  BY <1>1, ProductIs

LEMMA ProductNat ==
  ASSUME NEW s \in Seq(Nat)
  PROVE  Product(s) \in Nat
<1>1. \A k \in 1 .. Len(s) : s[k] \in Nat
  OBVIOUS
<1>2. PICK p : IsProduct(p, Len(s), s)
  BY <1>1, ProductExists
<1> QED
  BY <1>2, ProductIs

LEMMA ProductLast ==
  ASSUME NEW s \in Seq(Nat), NEW t \in Seq(Nat), Len(s) > 0, Len(t) = Len(s) - 1,
         \A k \in 1 .. Len(t) : t[k] = s[k]
  PROVE  Product(s) = Product(t) * s[Len(s)]
<1> DEFINE n == Len(s)
<1>1. n \in Nat /\ n > 0 /\ \A k \in 1 .. n : s[k] \in Nat
  OBVIOUS
<1>2. PICK p : IsProduct(p, n, s)
  BY <1>1, ProductExists
<1>3. \A k \in 1 .. n - 1 : t[k] \in Nat
  BY <1>1
<1>4. PICK q : IsProduct(q, n - 1, t)
  BY <1>1, <1>3, ProductExists
<1>5. IsProduct([k \in 0 .. n - 1 |-> p[k]], n - 1, s)
  BY <1>1, <1>2 DEF IsProduct
<1>6. p[n - 1] = q[n - 1]
  <2> DEFINE r == [k \in 0 .. n - 1 |-> p[k]]
  <2>1. n - 1 \in Nat /\ n - 1 \in 0 .. n - 1 /\ \A k \in 1 .. n - 1 : s[k] = t[k]
    BY <1>1
  <2>2. r[n - 1] = p[n - 1]
    BY <2>1
  <2> HIDE DEF r, n
  <2>3. PICK m \in Nat : m = n - 1
    BY <2>1
  <2>4. IsProduct(r, m, s) /\ IsProduct(q, m, t) /\ \A k \in 1 .. m : s[k] = t[k]
    BY <1>4, <1>5, <2>1, <2>3 DEF r
  <2>5. \A k \in 0 .. m : r[k] = q[k]
    BY <2>4, ProductsAgree
  <2> QED
    BY <2>1, <2>2, <2>3, <2>5
<1>7. Product(t) = q[n - 1] /\ Product(s) = p[n]
  BY <1>2, <1>4, ProductIs
<1>8. p[n] = p[n - 1] * s[n]
  BY <1>1, <1>2 DEF IsProduct
<1> QED
  BY <1>6, <1>7, <1>8

LEMMA ProductFirst ==
  ASSUME NEW s \in Seq(Nat), NEW t \in Seq(Nat), Len(s) > 0, Len(t) = Len(s) - 1,
         \A k \in 1 .. Len(t) : t[k] = s[k + 1]
  PROVE  Product(s) = s[1] * Product(t)
<1> DEFINE n == Len(s)
<1>1. n \in Nat /\ n > 0 /\ \A k \in 1 .. n : s[k] \in Nat
  OBVIOUS
<1>2. PICK p : IsProduct(p, n, s)
  BY <1>1, ProductExists
<1>3. \A k \in 1 .. n - 1 : t[k] \in Nat
  BY <1>1
<1>4. PICK q : IsProduct(q, n - 1, t)
  BY <1>1, <1>3, ProductExists
<1> DEFINE S == {k \in 0 .. n - 1 : p[k + 1] = s[1] * q[k]}
<1>5. 0 \in S
  <2>1. p[1] = p[0] * s[1] /\ p[0] = 1 /\ q[0] = 1 /\ s[1] \in Nat
    BY <1>1, <1>2, <1>4 DEF IsProduct
  <2> QED
    BY <1>1, <2>1
<1>6. ASSUME NEW k \in 0 .. (n - 1) - 1, k \in S PROVE k + 1 \in S
  <2>0. /\ k + 1 \in 1 .. n - 1 /\ k + 2 \in 1 .. n /\ (k + 2) - 1 = k + 1
        /\ (k + 1) - 1 = k /\ (k + 1) + 1 = k + 2 /\ k \in 0 .. n - 1 /\ 1 \in 1 .. n
    BY <1>1
  <2>1. /\ p[k + 2] = p[k + 1] * s[k + 2] /\ q[k + 1] = q[k] * t[k + 1]
        /\ s[k + 2] = t[k + 1]
    <3>1. p[k + 2] = p[k + 1] * s[k + 2]
      BY <1>2, <2>0 DEF IsProduct
    <3>2. q[k + 1] = q[k] * t[k + 1]
      BY <1>4, <2>0 DEF IsProduct
    <3>3. s[k + 2] = t[k + 1]
      BY <2>0
    <3> QED
      BY <3>1, <3>2, <3>3
  <2>2. s[1] \in Int /\ q[k] \in Int /\ t[k + 1] \in Int
    <3>1. s[1] \in Nat /\ t[k + 1] \in Nat
      BY <1>1, <1>3, <2>0
    <3>2. q[k] \in Nat
      BY <1>4, <2>0 DEF IsProduct
    <3> QED
      BY <3>1, <3>2
  <2>3. s[1] * (q[k] * t[k + 1]) = (s[1] * q[k]) * t[k + 1]
    BY <2>2, Associative
  <2>4. p[k + 2] = s[1] * q[k + 1]
    BY <1>6, <2>1, <2>3
  <2> QED
    BY <1>1, <2>4
<1>7. \A k \in 0 .. n - 1 : k \in S
  <2>1. n - 1 \in Nat
    BY <1>1
  <2> HIDE DEF S
  <2> QED
    BY <1>5, <1>6, <2>1, Steps
<1>8. p[n] = s[1] * q[n - 1]
  BY <1>1, <1>7
<1>9. Product(t) = q[n - 1] /\ Product(s) = p[n]
  BY <1>2, <1>4, ProductIs
<1> QED
  BY <1>8, <1>9

\* A product of extents is 0 if and only if one of them is.
LEMMA ProductZero ==
  ASSUME NEW s \in Seq(Nat)
  PROVE  Product(s) = 0 <=> \E k \in 1 .. Len(s) : s[k] = 0
<1> DEFINE n == Len(s)
<1>1. n \in Nat /\ \A k \in 1 .. n : s[k] \in Nat
  OBVIOUS
<1>2. PICK p : IsProduct(p, n, s)
  BY <1>1, ProductExists
<1> DEFINE S == {k \in 0 .. n : p[k] = 0 <=> \E j \in 1 .. k : s[j] = 0}
<1>3. 0 \in S
  BY <1>1, <1>2 DEF IsProduct
<1>4. ASSUME NEW k \in 0 .. n - 1, k \in S PROVE k + 1 \in S
  <2>1. p[k + 1] = p[k] * s[k + 1] /\ p[k] \in Nat /\ s[k + 1] \in Nat
    BY <1>1, <1>2 DEF IsProduct
  <2>2. p[k] = 0 <=> \E j \in 1 .. k : s[j] = 0
    BY <1>4
  <2>3. p[k] * s[k + 1] = 0 <=> p[k] = 0 \/ s[k + 1] = 0
    BY <2>1
  <2>4. (\E j \in 1 .. k + 1 : s[j] = 0) <=> (\E j \in 1 .. k : s[j] = 0) \/ s[k + 1] = 0
    OBVIOUS
  <2> QED
    BY <2>1, <2>2, <2>3, <2>4
<1>5. \A k \in 0 .. n : k \in S
  <2> HIDE DEF S
  <2> QED
    BY <1>1, <1>3, <1>4, Steps
<1>6. Product(s) = p[n]
  BY <1>2, ProductIs
<1> QED
  BY <1>1, <1>5, <1>6

----------------------------------------------------------------------------
(* Strides *)

\* The strides of a C layout: those of a dimension are the extent of the next
\* one times its strides.
LEMMA RowMajorIs ==
  ASSUME NEW s \in Seq(Nat)
  PROVE  /\ RowMajor(s) \in [1 .. Len(s) -> Nat]
         /\ Len(s) > 0 => RowMajor(s)[Len(s)] = 1 /\ Product(s) = s[1] * RowMajor(s)[1]
         /\ \A d \in 2 .. Len(s) : RowMajor(s)[d - 1] = s[d] * RowMajor(s)[d]
<1> DEFINE n == Len(s)
           Rest(d) == SubSeq(s, d + 1, n)
<1>1. n \in Nat /\ DOMAIN s = 1 .. n
  OBVIOUS
<1>2. ASSUME NEW d \in 0 .. n
      PROVE  /\ Rest(d) \in Seq(Nat) /\ Len(Rest(d)) = n - d
             /\ \A k \in 1 .. n - d : Rest(d)[k] = s[d + k]
  <2>1. d + 1 \in 1 .. Len(s) + 1 /\ n \in 0 .. Len(s) /\ d + 1 <= n + 1
    BY <1>1
  <2> QED
    BY <2>1, PartOf
<1>3. ASSUME NEW d \in 1 .. n PROVE Product(Rest(d - 1)) = s[d] * Product(Rest(d))
  <2>1. d - 1 \in 0 .. n /\ d \in 0 .. n
    BY <1>1
  <2>2. Rest(d - 1) \in Seq(Nat) /\ Len(Rest(d - 1)) = n - d + 1 /\ Rest(d - 1)[1] = s[d]
    <3>1. n - (d - 1) = n - d + 1 /\ 1 \in 1 .. n - (d - 1) /\ (d - 1) + 1 = d
      BY <1>1
    <3> HIDE DEF Rest
    <3> QED
      BY <1>2, <2>1, <3>1
  <2>3. Rest(d) \in Seq(Nat) /\ Len(Rest(d)) = n - d
    BY <1>2, <2>1
  <2>4. ASSUME NEW k \in 1 .. n - d PROVE Rest(d)[k] = Rest(d - 1)[k + 1]
    <3>1. k + 1 \in 1 .. n - (d - 1) /\ d + k = (d - 1) + (k + 1)
      BY <1>1
    <3> QED
      BY <1>2, <2>1, <3>1
  <2> HIDE DEF Rest, n
  <2>5. Len(Rest(d - 1)) > 0 /\ Len(Rest(d)) = Len(Rest(d - 1)) - 1
    BY <1>1, <2>2, <2>3
  <2>6. \A k \in 1 .. Len(Rest(d)) : Rest(d)[k] = Rest(d - 1)[k + 1]
    BY <2>3, <2>4
  <2> QED
    BY <2>2, <2>3, <2>5, <2>6, ProductFirst
<1>4. \A d \in 1 .. n : RowMajor(s)[d] = Product(Rest(d)) /\ Product(Rest(d)) \in Nat
  <2>1. \A d \in 1 .. n : Rest(d) \in Seq(Nat)
    <3>1. \A d \in 1 .. n : d \in 0 .. n
      BY <1>1
    <3> HIDE DEF Rest
    <3> QED
      BY <1>2, <3>1
  <2> QED
    BY <1>1, <2>1, ProductNat DEF RowMajor
<1>5. RowMajor(s) \in [1 .. n -> Nat]
  BY <1>1, <1>4 DEF RowMajor
<1>6. Rest(n) = <<>> /\ Rest(0) = s
  OBVIOUS
<1>7. \A d \in 2 .. n : RowMajor(s)[d - 1] = s[d] * RowMajor(s)[d]
  <2> TAKE d \in 2 .. n
  <2>1. d \in 1 .. n /\ d - 1 \in 1 .. n
    BY <1>1
  <2> QED
    BY <1>3, <1>4, <2>1
<1>8. n > 0 => RowMajor(s)[n] = 1 /\ Product(s) = s[1] * RowMajor(s)[1]
  <2> HAVE n > 0
  <2>1. 1 \in 1 .. n /\ n \in 1 .. n /\ 1 - 1 = 0
    BY <1>1
  <2>2. RowMajor(s)[n] = 1
    BY <1>4, <1>6, <2>1, ProductEmpty
  <2>3. Product(Rest(1 - 1)) = s[1] * Product(Rest(1))
    BY <1>3, <2>1
  <2> QED
    BY <1>4, <1>6, <2>1, <2>2, <2>3
<1> QED
  BY <1>5, <1>7, <1>8

\* The strides of an F layout.
LEMMA ColumnMajorIs ==
  ASSUME NEW s \in Seq(Nat)
  PROVE  /\ ColumnMajor(s) \in [1 .. Len(s) -> Nat]
         /\ Len(s) > 0 => ColumnMajor(s)[1] = 1 /\ Product(s) = ColumnMajor(s)[Len(s)] * s[Len(s)]
         /\ \A d \in 2 .. Len(s) : ColumnMajor(s)[d] = ColumnMajor(s)[d - 1] * s[d - 1]
<1> DEFINE n == Len(s)
           Short(d) == SubSeq(s, 1, d)
<1>1. n \in Nat /\ DOMAIN s = 1 .. n
  OBVIOUS
<1>2. ASSUME NEW d \in 0 .. n
      PROVE  /\ Short(d) \in Seq(Nat) /\ Len(Short(d)) = d
             /\ \A k \in 1 .. d : Short(d)[k] = s[k]
  <2>1. 1 \in 1 .. Len(s) + 1 /\ d \in 0 .. Len(s) /\ 1 <= d + 1
    BY <1>1
  <2> QED
    BY <2>1, PartOf
<1>3. ASSUME NEW d \in 1 .. n PROVE Product(Short(d)) = Product(Short(d - 1)) * s[d]
  <2>1. d - 1 \in 0 .. n /\ d \in 0 .. n
    BY <1>1
  <2>2. Short(d) \in Seq(Nat) /\ Len(Short(d)) = d /\ \A k \in 1 .. d : Short(d)[k] = s[k]
    BY <1>2, <2>1
  <2>3. /\ Short(d - 1) \in Seq(Nat) /\ Len(Short(d - 1)) = d - 1
        /\ \A k \in 1 .. d - 1 : Short(d - 1)[k] = s[k]
    BY <1>2, <2>1
  <2> HIDE DEF Short, n
  <2>4. Len(Short(d)) > 0 /\ Len(Short(d - 1)) = Len(Short(d)) - 1
    BY <1>1, <2>2, <2>3
  <2>5. \A k \in 1 .. Len(Short(d - 1)) : Short(d - 1)[k] = Short(d)[k]
    BY <1>1, <2>2, <2>3
  <2>6. Short(d)[Len(Short(d))] = s[d]
    BY <1>1, <2>2
  <2> QED
    BY <2>2, <2>3, <2>4, <2>5, <2>6, ProductLast
<1>4. \A d \in 1 .. n : /\ ColumnMajor(s)[d] = Product(Short(d - 1))
                        /\ Product(Short(d - 1)) \in Nat
  <2>1. \A d \in 1 .. n : Short(d - 1) \in Seq(Nat)
    BY <1>1, <1>2
  <2> QED
    BY <1>1, <2>1, ProductNat DEF ColumnMajor
<1>5. ColumnMajor(s) \in [1 .. n -> Nat]
  BY <1>1, <1>4 DEF ColumnMajor
<1>6. Short(0) = <<>> /\ Short(n) = s
  OBVIOUS
<1>7. \A d \in 2 .. n : ColumnMajor(s)[d] = ColumnMajor(s)[d - 1] * s[d - 1]
  <2> TAKE d \in 2 .. n
  <2>1. d \in 1 .. n /\ d - 1 \in 1 .. n
    BY <1>1
  <2> QED
    BY <1>3, <1>4, <2>1
<1>8. n > 0 => ColumnMajor(s)[1] = 1 /\ Product(s) = ColumnMajor(s)[n] * s[n]
  <2> HAVE n > 0
  <2>1. 1 \in 1 .. n /\ n \in 1 .. n /\ 1 - 1 = 0
    BY <1>1
  <2>2. ColumnMajor(s)[1] = 1
    BY <1>4, <1>6, <2>1, ProductEmpty
  <2>3. Product(Short(n)) = Product(Short(n - 1)) * s[n]
    BY <1>3, <2>1
  <2> QED
    BY <1>4, <1>6, <2>1, <2>2, <2>3
<1> QED
  BY <1>5, <1>7, <1>8

\* The strides that unboxing computes, from the last dimension backwards, are those
\* of the C layout.
LEMMA BackwardsProduct ==
  ASSUME NEW s \in Seq(Nat), NEW m \in 1 .. Len(s)
  PROVE  Product([k \in 1 .. Len(s) - m |-> s[Len(s) - k + 1]]) = RowMajor(s)[m]
<1> DEFINE n == Len(s)
           Back(d) == [k \in 1 .. n - d |-> s[n - k + 1]]
           S == {d \in 0 .. n : d > 0 => Product(Back(d)) = RowMajor(s)[d]}
<1>1. n \in Nat /\ n > 0 /\ \A k \in 1 .. n : s[k] \in Nat
  OBVIOUS
<1>2. n \in S
  <2>1. Back(n) = <<>>
    BY <1>1
  <2>2. Product(Back(n)) = 1
    BY <2>1, ProductEmpty
  <2> HIDE DEF Back
  <2> QED
    BY <1>1, <2>2, RowMajorIs
<1>3. ASSUME NEW d \in 1 .. n, d \in S PROVE d - 1 \in S
  <2> SUFFICES ASSUME d - 1 > 0 PROVE Product(Back(d - 1)) = RowMajor(s)[d - 1]
    BY <1>1
  <2>1. /\ Back(d - 1) \in Seq(Nat) /\ Len(Back(d - 1)) = n - d + 1
        /\ Back(d - 1)[n - d + 1] = s[d]
    <3>1. \A k \in 1 .. n - (d - 1) : n - k + 1 \in 1 .. n
      BY <1>1
    <3>2. Back(d - 1) \in [1 .. n - (d - 1) -> Nat]
      BY <1>1, <3>1
    <3>3. n - (d - 1) = n - d + 1 /\ n - d + 1 \in Nat
      BY <1>1
    <3>4. n - (n - d + 1) + 1 = d /\ n - d + 1 \in 1 .. n - (d - 1)
      BY <1>1
    <3> QED
      BY <3>2, <3>3, <3>4
  <2>2. Back(d) \in Seq(Nat) /\ Len(Back(d)) = n - d
    <3>1. \A k \in 1 .. n - d : n - k + 1 \in 1 .. n
      BY <1>1
    <3>2. Back(d) \in [1 .. n - d -> Nat] /\ n - d \in Nat
      BY <1>1, <3>1
    <3> QED
      BY <3>2
  <2>3. \A k \in 1 .. n - d : Back(d)[k] = Back(d - 1)[k]
    BY <1>1
  <2>4. Product(Back(d)) = RowMajor(s)[d]
    BY <1>1, <1>3
  <2> HIDE DEF Back, n
  <2>5. Product(Back(d - 1)) = Product(Back(d)) * Back(d - 1)[Len(Back(d - 1))]
    <3>1. Len(Back(d - 1)) > 0 /\ Len(Back(d)) = Len(Back(d - 1)) - 1
      BY <1>1, <2>1, <2>2
    <3>2. \A k \in 1 .. Len(Back(d)) : Back(d)[k] = Back(d - 1)[k]
      BY <2>2, <2>3
    <3> QED
      BY <2>1, <2>2, <3>1, <3>2, ProductLast
  <2>6. RowMajor(s)[d - 1] = s[d] * RowMajor(s)[d] /\ RowMajor(s)[d] \in Nat /\ s[d] \in Nat
    <3>1. d \in 2 .. Len(s) /\ d \in 1 .. Len(s)
      BY <1>1 DEF n
    <3> QED
      BY <1>1, <3>1, RowMajorIs
  <2> QED
    BY <2>1, <2>4, <2>5, <2>6
<1>4. \A d \in 0 .. n : d \in S
  <2> HIDE DEF S
  <2> QED
    BY <1>1, <1>2, <1>3, StepsDown
<1>5. m \in 0 .. n /\ m > 0
  BY <1>1
<1>6. Product(Back(m)) = RowMajor(s)[m]
  <2> HIDE DEF Back
  <2> QED
    BY <1>4, <1>5
<1> QED
  BY <1>6

----------------------------------------------------------------------------
(* Indices *)

\* The extents of a shape are bounded.
LEMMA Bounded ==
  ASSUME NEW s \in Seq(Nat)
  PROVE  \E m \in Nat : \A d \in 1 .. Len(s) : s[d] <= m
<1> DEFINE n == Len(s)
           S == {k \in 0 .. n : \E m \in Nat : \A d \in 1 .. k : s[d] <= m}
<1>1. n \in Nat /\ \A d \in 1 .. n : s[d] \in Nat
  OBVIOUS
<1>2. 0 \in S
  BY <1>1
<1>3. ASSUME NEW k \in 0 .. n - 1, k \in S PROVE k + 1 \in S
  <2>1. PICK m \in Nat : \A d \in 1 .. k : s[d] <= m
    BY <1>3
  <2>2. s[k + 1] \in Nat
    BY <1>1
  <2>3. \A d \in 1 .. k + 1 : s[d] \in Nat /\ (d \in 1 .. k \/ d = k + 1)
    BY <1>1
  <2>4. \A d \in 1 .. k + 1 : s[d] <= m + s[k + 1]
    BY <2>1, <2>2, <2>3
  <2>5. m + s[k + 1] \in Nat /\ k + 1 \in 0 .. n
    BY <1>1, <2>2
  <2> QED
    BY <2>4, <2>5
<1>4. \A k \in 0 .. n : k \in S
  <2> HIDE DEF S
  <2> QED
    BY <1>1, <1>2, <1>3, Steps
<1>5. n \in S
  <2>1. n \in 0 .. n
    BY <1>1
  <2> HIDE DEF S
  <2> QED
    BY <1>4, <2>1
<1> QED
  BY <1>5

LEMMA MaxIs ==
  ASSUME NEW T, T \subseteq Nat, T # {}, NEW m \in Nat, \A y \in T : y <= m
  PROVE  Max(T) \in T /\ \A y \in T : y <= Max(T)
<1> DEFINE B == {k \in Nat : \A y \in T : y <= k}
<1>1. m \in B
  OBVIOUS
<1>2. \E b \in B : \A c \in B : b <= c
  <2>1. B \subseteq Nat /\ B # {}
    BY <1>1
  <2> HIDE DEF B
  <2> QED
    BY <2>1, Least
<1>3. PICK b \in B : \A c \in B : b <= c
  BY <1>2
<1>4. b \in T
  <2> SUFFICES ASSUME b \notin T PROVE FALSE
    OBVIOUS
  <2>1. PICK k \in T : TRUE
    OBVIOUS
  <2>2. \A y \in T : y <= b - 1 /\ 0 <= b - 1
    BY <1>3
  <2>3. b - 1 \in Nat
    BY <1>3, <2>1, <2>2
  <2>4. b - 1 \in B
    BY <2>2, <2>3
  <2> QED
    BY <1>3, <2>4
<1>5. \E x \in T : \A y \in T : x >= y
  BY <1>3, <1>4
<1>6. Max(T) \in T /\ \A y \in T : Max(T) >= y
  BY <1>5 DEF Max
<1> QED
  BY <1>6

\* The indices of a shape: the numbers below its extents.
LEMMA IndicesAre ==
  ASSUME NEW s \in Seq(Nat)
  PROVE  Indices(s) = {i \in [1 .. Len(s) -> Nat] : \A d \in 1 .. Len(s) : i[d] < s[d]}
<1> DEFINE T == {1} \cup Range(s)
<1>1. Len(s) \in Nat /\ DOMAIN s = 1 .. Len(s) /\ \A d \in 1 .. Len(s) : s[d] \in Nat
  OBVIOUS
<1>2. \A y : y \in T <=> y = 1 \/ \E d \in 1 .. Len(s) : y = s[d]
  BY <1>1 DEF Range
<1>3. PICK m \in Nat : \A d \in 1 .. Len(s) : s[d] <= m
  BY Bounded
<1>4. T \subseteq Nat /\ T # {} /\ \A y \in T : y <= m + 1
  BY <1>1, <1>2, <1>3
<1> HIDE DEF T
<1>5. Max(T) \in T /\ \A y \in T : y <= Max(T)
  <2>1. m + 1 \in Nat
    OBVIOUS
  <2> QED
    BY <1>4, <2>1, MaxIs
<1>6. Max(T) \in Nat /\ Max(T) >= 1 /\ \A d \in 1 .. Len(s) : s[d] <= Max(T)
  BY <1>2, <1>4, <1>5
<1> DEFINE M == Max(T)
           U == {i \in [1 .. Len(s) -> 0 .. M - 1] : \A d \in 1 .. Len(s) : i[d] < s[d]}
           V == {i \in [1 .. Len(s) -> Nat] : \A d \in 1 .. Len(s) : i[d] < s[d]}
<1>7. Indices(s) = U
  BY <1>1 DEF Indices, T
<1> HIDE DEF M
<1>8. U \subseteq V
  <2>1. \A x \in 0 .. M - 1 : x \in Nat
    BY <1>6 DEF M
  <2> QED
    BY <2>1
<1>9. ASSUME NEW i \in V PROVE i \in U
  <2>1. ASSUME NEW d \in 1 .. Len(s) PROVE i[d] \in 0 .. M - 1
    <3>1. i[d] \in Nat /\ i[d] < s[d] /\ s[d] \in Nat /\ s[d] <= M /\ M \in Nat
      BY <1>1, <1>6 DEF M
    <3> QED
      BY <3>1
  <2>2. i \in [1 .. Len(s) -> 0 .. M - 1]
    BY <2>1
  <2> QED
    BY <2>2
<1> QED
  BY <1>7, <1>8, <1>9

\* An index into a shape, and sums over it.
LEMMA IndexIs ==
  ASSUME NEW s \in Seq(Nat), NEW i \in Indices(s)
  PROVE  /\ i \in [1 .. Len(s) -> Int]
         /\ \A d \in 1 .. Len(s) : i[d] \in Nat /\ s[d] \in Nat /\ i[d] < s[d] /\ s[d] > 0
<1>1. i \in [1 .. Len(s) -> Nat] /\ \A d \in 1 .. Len(s) : i[d] < s[d]
  BY IndicesAre
<1>2. Len(s) \in Nat /\ \A d \in 1 .. Len(s) : s[d] \in Nat
  OBVIOUS
<1> QED
  BY <1>1, <1>2

\* Strides that follow another's find the same elements.
LEMMA FollowsAddress ==
  ASSUME NEW s \in Seq(Nat), NEW i \in Indices(s), NEW data \in Int,
         NEW t, NEW u, \A d \in 1 .. Len(s) : t[d] \in Int /\ u[d] \in Int,
         Follows(t, s, u)
  PROVE  At(data, i, t) = At(data, i, u)
<1> DEFINE n == Len(s)
<1>1. n \in Nat /\ DOMAIN s = 1 .. n
  OBVIOUS
<1>2. i \in [1 .. n -> Int] /\ \A d \in 1 .. n : i[d] \in Nat /\ i[d] < s[d] /\ s[d] \in Nat
  BY IndexIs
<1>3. Product(s) # 0
  BY <1>2, ProductZero
<1>4. ASSUME NEW d \in 1 .. n PROVE i[d] * t[d] = i[d] * u[d]
  <2>1. CASE s[d] > 1
    BY <1>1, <1>3, <2>1 DEF Follows
  <2>2. CASE ~(s[d] > 1)
    <3>1. i[d] = 0
      BY <1>2, <2>2
    <3> QED
      BY <3>1
  <2> QED
    BY <2>1, <2>2
<1>5. PICK p : IsSum(p, n, data, i, t)
  BY <1>1, <1>2, SumExists
<1>6. PICK q : IsSum(q, n, data, i, u)
  BY <1>1, <1>2, SumExists
<1>7. \A k \in 0 .. n : p[k] = q[k]
  <2>1. \A k \in 1 .. n : i[k] * t[k] = i[k] * u[k]
    BY <1>4
  <2> HIDE DEF n
  <2> QED
    BY <1>1, <1>5, <1>6, <2>1, SumsAgree
<1>8. At(data, i, t) = p[n]
  BY <1>1, <1>2, <1>5, AtIs
<1>9. At(data, i, u) = q[n]
  BY <1>1, <1>2, <1>6, AtIs
<1> QED
  BY <1>1, <1>7, <1>8, <1>9

\* Strides in bytes are those in elements times the size of an item, and so are
\* the addresses.
LEMMA Scaled ==
  ASSUME NEW n \in Nat, NEW i \in [1 .. n -> Int], NEW t \in [1 .. n -> Int], NEW z \in Nat
  PROVE  At(0, i, Times(t, z)) = At(0, i, t) * z /\ At(0, i, t) \in Int
<1> DEFINE u == Times(t, z)
<1>1. \A d \in 1 .. n : u[d] = t[d] * z /\ u[d] \in Int /\ i[d] \in Int /\ t[d] \in Int
  BY DEF Times
<1> HIDE DEF u
<1>0. /\ \A d \in 1 .. n : i[d] \in Int /\ t[d] \in Int
      /\ \A d \in 1 .. n : i[d] \in Int /\ u[d] \in Int
      /\ \A d \in 1 .. n : t[d] \in Int
      /\ \A d \in 1 .. n : u[d] \in Int
      /\ 0 \in Int
  BY <1>1
<1>2. PICK p : IsSum(p, n, 0, i, t)
  BY <1>0, SumExists
<1>3. PICK q : IsSum(q, n, 0, i, u)
  BY <1>0, SumExists
<1> DEFINE S == {k \in 0 .. n : q[k] = p[k] * z}
<1>4. 0 \in S
  BY <1>2, <1>3 DEF IsSum
<1>5. ASSUME NEW k \in 0 .. n - 1, k \in S PROVE k + 1 \in S
  <2>0. k + 1 \in 1 .. n /\ (k + 1) - 1 = k /\ k \in 0 .. n
    OBVIOUS
  <2>1. /\ p[k + 1] = p[k] + i[k + 1] * t[k + 1] /\ p[k] \in Int
        /\ q[k + 1] = q[k] + i[k + 1] * u[k + 1]
    BY <1>2, <1>3, <2>0 DEF IsSum
  <2>2. u[k + 1] = t[k + 1] * z /\ i[k + 1] \in Int /\ t[k + 1] \in Int
    BY <1>1, <2>0
  <2>3. i[k + 1] * (t[k + 1] * z) = (i[k + 1] * t[k + 1]) * z /\ i[k + 1] * t[k + 1] \in Int
    BY <2>2, Associative
  <2>4. (p[k] + i[k + 1] * t[k + 1]) * z = p[k] * z + (i[k + 1] * t[k + 1]) * z
    BY <2>1, <2>3, Distributive
  <2>5. q[k] = p[k] * z
    BY <1>5
  <2>6. q[k + 1] = p[k + 1] * z
    BY <2>1, <2>2, <2>3, <2>4, <2>5
  <2> QED
    BY <2>6
<1>6. \A k \in 0 .. n : k \in S
  <2> HIDE DEF S
  <2> QED
    BY <1>4, <1>5, Steps
<1>7. At(0, i, t) = p[n] /\ At(0, i, t) \in Int
  BY <1>0, <1>2, AtIs
<1>8. At(0, i, u) = q[n]
  BY <1>0, <1>3, AtIs
<1> QED
  BY <1>6, <1>7, <1>8 DEF u

----------------------------------------------------------------------------
(* Both layouts number the elements *)

\* Two different indices have a first place, and a last, at which they differ.
LEMMA FirstDifference ==
  ASSUME NEW n \in Nat, NEW i \in [1 .. n -> Int], NEW j \in [1 .. n -> Int], i # j
  PROVE  \E d \in 1 .. n : i[d] # j[d] /\ \A e \in 1 .. d - 1 : i[e] = j[e]
<1> DEFINE T == {d \in 1 .. n : i[d] # j[d]}
<1>1. T # {}
  OBVIOUS
<1>2. T \subseteq Nat
  OBVIOUS
<1>3. \E x \in T : \A y \in T : x <= y
  <2> HIDE DEF T
  <2> QED
    BY <1>1, <1>2, Least
<1>4. PICK x \in T : \A y \in T : x <= y
  BY <1>3
<1>5. ASSUME NEW e \in 1 .. x - 1 PROVE i[e] = j[e]
  <2>1. e \in 1 .. n /\ ~(x <= e)
    BY <1>4
  <2>2. e \notin T
    BY <1>4, <2>1
  <2> QED
    BY <2>1, <2>2
<1> QED
  BY <1>4, <1>5

LEMMA LastDifference ==
  ASSUME NEW n \in Nat, NEW i \in [1 .. n -> Int], NEW j \in [1 .. n -> Int], i # j
  PROVE  \E d \in 1 .. n : i[d] # j[d] /\ \A e \in d + 1 .. n : i[e] = j[e]
<1> DEFINE T == {d \in 0 .. n - 1 : i[n - d] # j[n - d]}
<1>1. T # {}
  <2>1. PICK d \in 1 .. n : i[d] # j[d]
    OBVIOUS
  <2>2. n - d \in 0 .. n - 1 /\ n - (n - d) = d
    BY <2>1
  <2>3. n - d \in T
    BY <2>1, <2>2
  <2> QED
    BY <2>3
<1>2. T \subseteq Nat
  OBVIOUS
<1>3. \E x \in T : \A y \in T : x <= y
  <2> HIDE DEF T
  <2> QED
    BY <1>1, <1>2, Least
<1>4. PICK x \in T : \A y \in T : x <= y
  BY <1>3
<1>5. n - x \in 1 .. n /\ i[n - x] # j[n - x]
  BY <1>4
<1>6. ASSUME NEW e \in (n - x) + 1 .. n PROVE i[e] = j[e]
  <2>1. n - e \in 0 .. n - 1 /\ ~(x <= n - e) /\ n - (n - e) = e
    BY <1>4
  <2>2. n - e \notin T
    BY <1>4, <2>1
  <2> QED
    BY <2>1, <2>2
<1> QED
  BY <1>5, <1>6

LEMMA Raised ==
  ASSUME NEW a \in Int, NEW b \in Int, NEW c \in Int, a < b, c >= 0
  PROVE  a * c + c <= b * c /\ a * c \in Int /\ b * c \in Int
<1>1. (b - a) * c = b * c - a * c
  OBVIOUS
<1>2. (b - a - 1) * c >= 0
  OBVIOUS
<1>3. (b - a - 1) * c = (b - a) * c - c
  OBVIOUS
<1> QED
  BY <1>1, <1>2, <1>3

\* In the C layout, the dimensions after d number less than the stride of d.
LEMMA RowBounds ==
  ASSUME NEW s \in Seq(Nat), Len(s) > 0, NEW i \in Indices(s),
         NEW p, IsSum(p, Len(s), 0, i, RowMajor(s))
  PROVE  /\ \A k \in 1 .. Len(s) : p[k] <= p[Len(s)] /\ p[Len(s)] < p[k] + RowMajor(s)[k]
         /\ p[Len(s)] \in 0 .. Product(s) - 1
<1> DEFINE n == Len(s)
           w == RowMajor(s)
           S == {k \in 0 .. n : k > 0 => p[k] <= p[n] /\ p[n] < p[k] + w[k]}
<1>1. n \in Nat /\ n > 0 /\ \A d \in 1 .. n : i[d] \in Nat /\ s[d] \in Nat /\ i[d] < s[d]
  BY IndexIs
<1>2. /\ \A d \in 1 .. n : w[d] \in Nat
      /\ w[n] = 1 /\ Product(s) = s[1] * w[1] /\ \A d \in 2 .. n : w[d - 1] = s[d] * w[d]
  BY <1>1, RowMajorIs
<1>3. \A k \in 0 .. n : p[k] \in Int
  BY <1>1 DEF IsSum
<1> HIDE DEF w
<1>4. n \in S
  BY <1>1, <1>2, <1>3
<1>5. ASSUME NEW k \in 1 .. n, p[k] <= p[n], p[n] < p[k] + w[k]
      PROVE  p[k - 1] <= p[n] /\ p[n] < p[k - 1] + s[k] * w[k]
  <2>1. p[k] = p[k - 1] + i[k] * w[k]
    BY <1>1 DEF IsSum, w
  <2>2. i[k] \in Int /\ s[k] \in Int /\ i[k] < s[k] /\ w[k] \in Int /\ w[k] >= 0 /\ i[k] >= 0
    BY <1>1, <1>2
  <2>3. i[k] * w[k] + w[k] <= s[k] * w[k] /\ i[k] * w[k] \in Int /\ s[k] * w[k] \in Int
    BY <2>2, Raised
  <2>4. i[k] * w[k] >= 0
    BY <2>2
  <2>5. p[k] \in Int /\ p[k - 1] \in Int /\ p[n] \in Int
    BY <1>1, <1>3
  <2> DEFINE x == i[k] * w[k]
             y == s[k] * w[k]
  <2>6. /\ p[k] = p[k - 1] + x /\ x + w[k] <= y /\ x \in Int /\ y \in Int /\ x >= 0
        /\ w[k] \in Int
    BY <2>1, <2>2, <2>3, <2>4
  <2> HIDE DEF x, y, n
  <2>7. p[k - 1] <= p[n] /\ p[n] < p[k - 1] + y
    BY ONLY <1>5, <2>5, <2>6
  <2> QED
    BY <2>7 DEF y
<1>6. ASSUME NEW k \in 1 .. n, k \in S PROVE k - 1 \in S
  <2> SUFFICES ASSUME k - 1 > 0 PROVE p[k - 1] <= p[n] /\ p[n] < p[k - 1] + w[k - 1]
    BY <1>1
  <2>1. w[k - 1] = s[k] * w[k]
    BY <1>1, <1>2
  <2>2. p[k] <= p[n] /\ p[n] < p[k] + w[k]
    BY <1>1, <1>6
  <2> QED
    BY <1>5, <2>1, <2>2
<1>7. \A k \in 0 .. n : k \in S
  <2> HIDE DEF S
  <2> QED
    BY <1>1, <1>4, <1>6, StepsDown
<1>8. \A k \in 1 .. n : p[k] <= p[n] /\ p[n] < p[k] + w[k]
  <2>1. \A k \in 1 .. n : k \in 0 .. n /\ k > 0
    BY <1>1
  <2> QED
    BY <1>7, <2>1
<1>9. p[0] <= p[n] /\ p[n] < p[0] + s[1] * w[1]
  <2>1. 1 \in 1 .. n /\ 1 - 1 = 0
    BY <1>1
  <2> QED
    BY <1>5, <1>8, <2>1
<1>10. p[n] \in 0 .. Product(s) - 1
  <2>1. p[0] = 0 /\ p[n] \in Int /\ s[1] * w[1] \in Int
    <3>1. s[1] \in Int /\ w[1] \in Int
      BY <1>1, <1>2
    <3> QED
      BY <1>1, <1>3, <3>1 DEF IsSum
  <2> QED
    BY <1>2, <1>9, <2>1
<1> QED
  BY <1>8, <1>10 DEF w

\* ... so that the first difference decides.
LEMMA RowLess ==
  ASSUME NEW s \in Seq(Nat), Len(s) > 0, NEW i \in Indices(s), NEW j \in Indices(s),
         NEW p, IsSum(p, Len(s), 0, i, RowMajor(s)),
         NEW q, IsSum(q, Len(s), 0, j, RowMajor(s)),
         NEW d \in 1 .. Len(s), i[d] < j[d], \A e \in 1 .. d - 1 : i[e] = j[e]
  PROVE  p[Len(s)] < q[Len(s)]
<1> DEFINE n == Len(s)
           w == RowMajor(s)
<1>1. n \in Nat /\ n > 0 /\ d \in 1 .. n
  OBVIOUS
<1>2. \A k \in 1 .. n : i[k] \in Nat /\ j[k] \in Nat /\ w[k] \in Nat
  BY IndexIs, RowMajorIs
<1>3. \A k \in 0 .. n : p[k] \in Int /\ q[k] \in Int
  BY <1>1 DEF IsSum
<1>4. p[n] < p[d] + w[d] /\ q[d] <= q[n]
  BY RowBounds
<1> DEFINE S == {k \in 0 .. d - 1 : p[k] = q[k]}
<1>5. 0 \in S
  BY <1>1 DEF IsSum
<1>6. ASSUME NEW k \in 0 .. (d - 1) - 1, k \in S PROVE k + 1 \in S
  <2>1. k + 1 \in 1 .. n /\ k + 1 \in 1 .. d - 1 /\ (k + 1) - 1 = k
    BY <1>1
  <2>2. p[k + 1] = p[k] + i[k + 1] * w[k + 1] /\ q[k + 1] = q[k] + j[k + 1] * w[k + 1]
    BY <2>1 DEF IsSum
  <2>3. i[k + 1] = j[k + 1] /\ p[k] = q[k]
    BY <1>6, <2>1
  <2> QED
    BY <2>1, <2>2, <2>3
<1>7. p[d - 1] = q[d - 1]
  <2>1. d - 1 \in Nat /\ d - 1 \in 0 .. d - 1
    BY <1>1
  <2>2. \A k \in 0 .. d - 1 : k \in S
    <3> HIDE DEF S
    <3> QED
      BY <1>5, <1>6, <2>1, Steps
  <2> QED
    BY <2>1, <2>2
<1>8. p[d] = p[d - 1] + i[d] * w[d] /\ q[d] = q[d - 1] + j[d] * w[d]
  BY <1>1 DEF IsSum
<1>9. i[d] * w[d] + w[d] <= j[d] * w[d] /\ i[d] * w[d] \in Int /\ j[d] * w[d] \in Int
  <2>1. i[d] \in Int /\ j[d] \in Int /\ w[d] \in Int /\ w[d] >= 0
    BY <1>1, <1>2
  <2> QED
    BY <2>1, Raised
<1>10. /\ p[n] \in Int /\ q[n] \in Int /\ p[d] \in Int /\ q[d] \in Int /\ p[d - 1] \in Int
       /\ w[d] \in Int
  BY <1>1, <1>2, <1>3
<1> DEFINE x == i[d] * w[d]
           y == j[d] * w[d]
<1>11. /\ p[d] = p[d - 1] + x /\ q[d] = p[d - 1] + y /\ x + w[d] <= y
       /\ x \in Int /\ y \in Int
  BY <1>7, <1>8, <1>9
<1> HIDE DEF x, y, n, w
<1>12. p[n] < q[n]
  <2>1. p[n] < (p[d - 1] + x) + w[d]
    BY ONLY <1>4, <1>11
  <2>2. (p[d - 1] + x) + w[d] <= p[d - 1] + y
    BY ONLY <1>10, <1>11
  <2>3. p[d - 1] + y <= q[n]
    BY ONLY <1>4, <1>11
  <2>4. \A a, b, c, e \in Int : a < b /\ b <= c /\ c <= e => a < e
    OBVIOUS
  <2>5. /\ p[n] \in Int /\ q[n] \in Int /\ (p[d - 1] + x) + w[d] \in Int
        /\ p[d - 1] + y \in Int
    BY ONLY <1>10, <1>11
  <2> QED
    BY ONLY <2>1, <2>2, <2>3, <2>4, <2>5
<1> QED
  BY <1>12 DEF n

\* In the F layout, the dimensions before d number less than the stride of d.
LEMMA ColumnBounds ==
  ASSUME NEW s \in Seq(Nat), Len(s) > 0, NEW i \in Indices(s),
         NEW p, IsSum(p, Len(s), 0, i, ColumnMajor(s))
  PROVE  /\ \A k \in 1 .. Len(s) : p[k - 1] \in 0 .. ColumnMajor(s)[k] - 1
         /\ p[Len(s)] \in 0 .. Product(s) - 1
<1> DEFINE n == Len(s)
           w == ColumnMajor(s)
           S == {k \in 0 .. n - 1 : p[k] \in 0 .. w[k + 1] - 1}
<1>1. n \in Nat /\ n > 0 /\ \A d \in 1 .. n : i[d] \in Nat /\ s[d] \in Nat /\ i[d] < s[d]
  BY IndexIs
<1>2. /\ \A d \in 1 .. n : w[d] \in Nat
      /\ w[1] = 1 /\ Product(s) = w[n] * s[n] /\ \A d \in 2 .. n : w[d] = w[d - 1] * s[d - 1]
  BY <1>1, ColumnMajorIs
<1>3. \A k \in 0 .. n : p[k] \in Int
  BY <1>1 DEF IsSum
<1> HIDE DEF w
<1>4. 0 \in S
  BY <1>1, <1>2 DEF IsSum
<1>5. ASSUME NEW k \in 1 .. n, p[k - 1] \in 0 .. w[k] - 1
      PROVE  p[k] \in 0 .. w[k] * s[k] - 1
  <2>1. p[k] = p[k - 1] + i[k] * w[k]
    BY <1>1 DEF IsSum, w
  <2>2. i[k] \in Int /\ s[k] \in Int /\ i[k] < s[k] /\ w[k] \in Int /\ w[k] >= 0 /\ i[k] >= 0
    BY <1>1, <1>2
  <2>3. i[k] * w[k] + w[k] <= s[k] * w[k] /\ i[k] * w[k] \in Int /\ s[k] * w[k] \in Int
    BY <2>2, Raised
  <2>4. i[k] * w[k] >= 0 /\ s[k] * w[k] = w[k] * s[k]
    BY <2>2
  <2>5. p[k] \in Int /\ p[k - 1] \in Int
    BY <1>1, <1>3
  <2> DEFINE x == i[k] * w[k]
             y == w[k] * s[k]
  <2>6. /\ p[k] = p[k - 1] + x /\ x + w[k] <= y /\ x \in Int /\ y \in Int /\ x >= 0
        /\ w[k] \in Int
    BY <2>1, <2>2, <2>3, <2>4
  <2> HIDE DEF x, y
  <2>7. p[k] \in 0 .. y - 1
    BY <1>5, <2>5, <2>6
  <2> QED
    BY <2>7 DEF y
<1>6. ASSUME NEW k \in 0 .. (n - 1) - 1, k \in S PROVE k + 1 \in S
  <2>1. k + 1 \in 1 .. n /\ (k + 1) - 1 = k /\ k + 2 \in 2 .. n /\ (k + 2) - 1 = k + 1
    BY <1>1
  <2>2. p[k + 1] \in 0 .. w[k + 1] * s[k + 1] - 1
    BY <1>5, <1>6, <2>1
  <2>3. w[k + 2] = w[k + 1] * s[k + 1]
    BY <1>2, <2>1
  <2>4. k + 1 \in 0 .. n - 1 /\ (k + 1) + 1 = k + 2
    BY <1>1
  <2> QED
    BY <2>2, <2>3, <2>4
<1>7. \A k \in 0 .. n - 1 : k \in S
  <2>1. n - 1 \in Nat
    BY <1>1
  <2> HIDE DEF S
  <2> QED
    BY <1>4, <1>6, <2>1, Steps
<1>8. ASSUME NEW k \in 1 .. n PROVE p[k - 1] \in 0 .. w[k] - 1
  <2>1. k - 1 \in 0 .. n - 1 /\ (k - 1) + 1 = k
    BY <1>1
  <2>2. k - 1 \in S
    BY <1>7, <2>1
  <2> QED
    BY <2>1, <2>2
<1>9. p[n] \in 0 .. Product(s) - 1
  <2>1. n \in 1 .. n
    BY <1>1
  <2> QED
    BY <1>2, <1>5, <1>8, <2>1
<1> QED
  BY <1>8, <1>9 DEF w

\* ... so that the last difference decides.
LEMMA ColumnLess ==
  ASSUME NEW s \in Seq(Nat), Len(s) > 0, NEW i \in Indices(s), NEW j \in Indices(s),
         NEW p, IsSum(p, Len(s), 0, i, ColumnMajor(s)),
         NEW q, IsSum(q, Len(s), 0, j, ColumnMajor(s)),
         NEW d \in 1 .. Len(s), i[d] < j[d], \A e \in d + 1 .. Len(s) : i[e] = j[e]
  PROVE  p[Len(s)] < q[Len(s)]
<1> DEFINE n == Len(s)
           w == ColumnMajor(s)
<1>1. n \in Nat /\ n > 0 /\ d \in 1 .. n
  OBVIOUS
<1>2. \A k \in 1 .. n : i[k] \in Nat /\ j[k] \in Nat /\ w[k] \in Nat
  BY IndexIs, ColumnMajorIs
<1>3. \A k \in 0 .. n : p[k] \in Int /\ q[k] \in Int
  BY <1>1 DEF IsSum
<1>4. p[d - 1] < w[d] /\ 0 <= q[d - 1]
  <2>1. p[d - 1] \in 0 .. w[d] - 1 /\ q[d - 1] \in 0 .. w[d] - 1
    BY ColumnBounds
  <2> QED
    BY <1>1, <1>2, <2>1
<1>5. p[d] = p[d - 1] + i[d] * w[d] /\ q[d] = q[d - 1] + j[d] * w[d]
  BY <1>1 DEF IsSum
<1>6. i[d] * w[d] + w[d] <= j[d] * w[d] /\ i[d] * w[d] \in Int /\ j[d] * w[d] \in Int
  <2>1. i[d] \in Int /\ j[d] \in Int /\ w[d] \in Int /\ w[d] >= 0
    BY <1>1, <1>2
  <2> QED
    BY <2>1, Raised
<1>7. p[d] < q[d]
  <2>1. /\ p[d] \in Int /\ q[d] \in Int /\ p[d - 1] \in Int /\ q[d - 1] \in Int
        /\ w[d] \in Int
    BY <1>1, <1>2, <1>3
  <2> DEFINE x == i[d] * w[d]
             y == j[d] * w[d]
  <2>2. /\ p[d] = p[d - 1] + x /\ q[d] = q[d - 1] + y /\ x + w[d] <= y
        /\ x \in Int /\ y \in Int
    BY <1>5, <1>6
  <2> HIDE DEF x, y, n, w
  <2> QED
    BY ONLY <1>4, <2>1, <2>2
<1> DEFINE S == {k \in 0 .. n : k >= d => p[k] < q[k]}
<1>8. 0 \in S
  BY <1>1
<1>9. ASSUME NEW k \in 0 .. n - 1, k \in S PROVE k + 1 \in S
  <2>1. CASE k + 1 < d
    BY <1>1, <2>1
  <2>2. CASE k + 1 = d
    BY <1>1, <1>7, <2>2
  <2>3. CASE k + 1 > d
    <3>1. k + 1 \in 1 .. n /\ k + 1 \in d + 1 .. n /\ (k + 1) - 1 = k /\ k >= d
      BY <1>1, <2>3
    <3>2. p[k + 1] = p[k] + i[k + 1] * w[k + 1] /\ q[k + 1] = q[k] + j[k + 1] * w[k + 1]
      BY <3>1 DEF IsSum
    <3>3. i[k + 1] = j[k + 1] /\ p[k] < q[k]
      BY <1>9, <3>1
    <3>4. p[k] \in Int /\ q[k] \in Int /\ j[k + 1] * w[k + 1] \in Int
      <4>1. j[k + 1] \in Int /\ w[k + 1] \in Int
        BY <1>2, <3>1
      <4> QED
        BY <1>3, <3>1, <4>1
    <3>5. p[k + 1] < q[k + 1]
      BY <3>2, <3>3, <3>4
    <3> QED
      BY <3>1, <3>5
  <2> QED
    BY <1>1, <2>1, <2>2, <2>3
<1>10. \A k \in 0 .. n : k \in S
  <2> HIDE DEF S
  <2> QED
    BY <1>1, <1>8, <1>9, Steps
<1>11. n \in 0 .. n /\ n >= d
  BY <1>1
<1> QED
  BY <1>10, <1>11

\* Both layouts give every index a number of its own.
LEMMA Numbered ==
  ASSUME NEW s \in Seq(Nat), Len(s) > 0, NEW w \in {RowMajor(s), ColumnMajor(s)},
         NEW i \in Indices(s), NEW j \in Indices(s)
  PROVE  /\ At(0, i, w) \in 0 .. Product(s) - 1
         /\ i # j => At(0, i, w) # At(0, j, w)
<1> DEFINE n == Len(s)
<1>1. n \in Nat /\ n > 0
  OBVIOUS
<1>2. /\ i \in [1 .. n -> Int] /\ j \in [1 .. n -> Int]
      /\ \A d \in 1 .. n : i[d] \in Int /\ w[d] \in Int
      /\ \A d \in 1 .. n : j[d] \in Int /\ w[d] \in Int
      /\ \A d \in 1 .. n : w[d] \in Int
  <2>1. w \in [1 .. n -> Nat]
    BY RowMajorIs, ColumnMajorIs
  <2>2. i \in [1 .. n -> Int] /\ j \in [1 .. n -> Int]
    BY IndexIs
  <2>3. \A d \in 1 .. n : w[d] \in Int
    BY <2>1
  <2>4. \A d \in 1 .. n : i[d] \in Int /\ j[d] \in Int
    BY <2>2
  <2> QED
    BY <2>2, <2>3, <2>4
<1>3. 0 \in Int
  OBVIOUS
<1>4. PICK p : IsSum(p, n, 0, i, w)
  BY <1>1, <1>2, <1>3, SumExists
<1>5. PICK q : IsSum(q, n, 0, j, w)
  BY <1>1, <1>2, <1>3, SumExists
<1>6. At(0, i, w) = p[n] /\ At(0, j, w) = q[n]
  BY <1>1, <1>2, <1>3, <1>4, <1>5, AtIs
<1>7. p[n] \in 0 .. Product(s) - 1
  BY <1>1, <1>4, RowBounds, ColumnBounds
<1>8. p[n] \in Int /\ q[n] \in Int
  BY <1>1, <1>4, <1>5 DEF IsSum
<1>9. ASSUME i # j PROVE p[n] # q[n]
  <2>1. CASE w = RowMajor(s)
    <3>1. PICK d \in 1 .. n : i[d] # j[d] /\ \A e \in 1 .. d - 1 : i[e] = j[e]
      BY <1>1, <1>2, <1>9, FirstDifference
    <3>2. i[d] \in Int /\ j[d] \in Int
      BY <1>2
    <3>3. CASE i[d] < j[d]
      <4>1. p[n] < q[n]
        BY <1>1, <1>4, <1>5, <2>1, <3>1, <3>3, RowLess
      <4> QED
        BY <1>8, <4>1
    <3>4. CASE j[d] < i[d]
      <4>1. \A e \in 1 .. d - 1 : j[e] = i[e]
        BY <3>1
      <4>2. q[n] < p[n]
        BY <1>1, <1>4, <1>5, <2>1, <3>4, <4>1, RowLess
      <4> QED
        BY <1>8, <4>2
    <3> QED
      BY <3>1, <3>2, <3>3, <3>4
  <2>2. CASE w = ColumnMajor(s)
    <3>1. PICK d \in 1 .. n : i[d] # j[d] /\ \A e \in d + 1 .. n : i[e] = j[e]
      BY <1>1, <1>2, <1>9, LastDifference
    <3>2. i[d] \in Int /\ j[d] \in Int
      BY <1>2
    <3>3. CASE i[d] < j[d]
      <4>1. p[n] < q[n]
        BY <1>1, <1>4, <1>5, <2>2, <3>1, <3>3, ColumnLess
      <4> QED
        BY <1>8, <4>1
    <3>4. CASE j[d] < i[d]
      <4>1. \A e \in d + 1 .. n : j[e] = i[e]
        BY <3>1
      <4>2. q[n] < p[n]
        BY <1>1, <1>4, <1>5, <2>2, <3>4, <4>1, ColumnLess
      <4> QED
        BY <1>8, <4>2
    <3> QED
      BY <3>1, <3>2, <3>3, <3>4
  <2> QED
    BY <2>1, <2>2
<1> QED
  BY <1>6, <1>7, <1>9

\* The items of a new array follow each other from the start of its allocation.
LEMMA Dense ==
  ASSUME NEW s \in Seq(Nat), Len(s) > 0, NEW w \in {RowMajor(s), ColumnMajor(s)},
         NEW z \in Nat, z > 0, NEW i \in Indices(s), NEW j \in Indices(s), i # j
  PROVE  \/ At(0, j, Times(w, z)) >= At(0, i, Times(w, z)) + z
         \/ At(0, i, Times(w, z)) >= At(0, j, Times(w, z)) + z
<1> DEFINE a == At(0, i, w)
           b == At(0, j, w)
<1>1. w \in [1 .. Len(s) -> Int] /\ Len(s) \in Nat
  BY RowMajorIs, ColumnMajorIs
<1>2. i \in [1 .. Len(s) -> Int] /\ j \in [1 .. Len(s) -> Int]
  BY IndexIs
<1>3. /\ At(0, i, Times(w, z)) = a * z /\ At(0, j, Times(w, z)) = b * z
      /\ a \in Int /\ b \in Int
  BY <1>1, <1>2, Scaled
<1>4. a # b
  BY Numbered
<1>5. CASE a < b
  <2>1. a * z + z <= b * z /\ a * z \in Int /\ b * z \in Int
    BY <1>3, <1>5, Raised
  <2> QED
    BY <1>3, <2>1
<1>6. CASE b < a
  <2>1. b * z + z <= a * z /\ a * z \in Int /\ b * z \in Int
    BY <1>3, <1>6, Raised
  <2> QED
    BY <1>3, <2>1
<1> QED
  BY <1>3, <1>4, <1>5, <1>6

LEMMA Within ==
  ASSUME NEW s \in Seq(Nat), Len(s) > 0, NEW w \in {RowMajor(s), ColumnMajor(s)},
         NEW z \in Nat, z > 0, NEW i \in Indices(s)
  PROVE  /\ At(0, i, Times(w, z)) \in 0 .. Product(s) * z - z
         /\ At(0, i, Times(w, z)) % z = 0
<1> DEFINE a == At(0, i, w)
<1>1. w \in [1 .. Len(s) -> Int] /\ Len(s) \in Nat
  BY RowMajorIs, ColumnMajorIs
<1>2. i \in [1 .. Len(s) -> Int]
  BY IndexIs
<1>3. At(0, i, Times(w, z)) = a * z /\ a \in Int
  BY <1>1, <1>2, Scaled
<1>4. a \in 0 .. Product(s) - 1 /\ Product(s) \in Nat
  BY Numbered, ProductNat
<1>5. a * z + z <= Product(s) * z /\ a * z \in Int /\ Product(s) * z \in Int
  BY <1>4, Raised
<1>6. a * z >= 0
  BY <1>4
<1>7. (a * z) % z = 0
  BY <1>3, Quotient
<1> QED
  BY <1>3, <1>5, <1>6, <1>7

\* Unboxing gives an object without strides those of the C layout.
LEMMA UnboxedC ==
  ASSUME NEW o, o.shape \in Seq(Nat), o.strides = Null
  PROVE  UnboxedStrides(o) = Times(RowMajor(o.shape), ItemSize(o.dtype))
<1>1. /\ DOMAIN o.shape = 1 .. Len(o.shape)
      /\ RowMajor(o.shape) \in [1 .. Len(o.shape) -> Nat]
  BY RowMajorIs
<1>2. UnboxedStrides(o) =
        [m \in 1 .. Len(o.shape) |->
           Product([k \in 1 .. Len(o.shape) - m |-> o.shape[Len(o.shape) - k + 1]])
             * ItemSize(o.dtype)]
  BY <1>1 DEF UnboxedStrides
<1>3. \A m \in 1 .. Len(o.shape) :
        Product([k \in 1 .. Len(o.shape) - m |-> o.shape[Len(o.shape) - k + 1]])
          = RowMajor(o.shape)[m]
  BY BackwardsProduct
<1>4. Times(RowMajor(o.shape), ItemSize(o.dtype)) =
        [m \in 1 .. Len(o.shape) |-> RowMajor(o.shape)[m] * ItemSize(o.dtype)]
  BY <1>1 DEF Times
<1> QED
  BY <1>2, <1>3, <1>4

----------------------------------------------------------------------------
(* Views *)

\* The dimensions that the first d of a subscript keep.
Keeps(ix, d) == d > Len(ix) \/ IsSlice(ix[d])
IsKept(K, n, ix) ==
  /\ K \in [0 .. n -> Seq(Nat)] /\ K[0] = <<>>
  /\ \A d \in 1 .. n : K[d] = IF Keeps(ix, d) THEN Append(K[d - 1], d) ELSE K[d - 1]

LEMMA SameSequence ==
  ASSUME NEW p \in Seq(Nat), NEW q \in Seq(Nat), Len(p) = Len(q),
         \A k \in 1 .. Len(p) : p[k] = q[k]
  PROVE  p = q
  OBVIOUS

LEMMA KeptExists ==
  ASSUME NEW n \in Nat, NEW ix
  PROVE  \E K : IsKept(K, n, ix)
<1> DEFINE S == {m \in 0 .. n : \E K : IsKept(K, m, ix)}
<1>1. 0 \in S
  <2>1. IsKept([d \in 0 .. 0 |-> <<>>], 0, ix)
    BY DEF IsKept
  <2> QED
    BY <2>1
<1>2. ASSUME NEW m \in 0 .. n - 1, m \in S PROVE m + 1 \in S
  <2>1. PICK K : IsKept(K, m, ix)
    BY <1>2
  <2> DEFINE next == IF Keeps(ix, m + 1) THEN Append(K[m], m + 1) ELSE K[m]
             L == [d \in 0 .. m + 1 |-> IF d <= m THEN K[d] ELSE next]
  <2>2. K[m] \in Seq(Nat) /\ m + 1 \in Nat
    BY <2>1 DEF IsKept
  <2>3. next \in Seq(Nat)
    BY <2>2
  <2> HIDE DEF next
  <2>4. L \in [0 .. m + 1 -> Seq(Nat)] /\ L[0] = <<>>
    BY <2>1, <2>3 DEF IsKept
  <2>5. ASSUME NEW d \in 1 .. m + 1
        PROVE  L[d] = IF Keeps(ix, d) THEN Append(L[d - 1], d) ELSE L[d - 1]
    <3>1. CASE d <= m
      <4>1. L[d] = K[d] /\ L[d - 1] = K[d - 1] /\ d \in 1 .. m
        BY <3>1
      <4> HIDE DEF L
      <4> QED
        BY <2>1, <4>1 DEF IsKept
    <3>2. CASE d = m + 1
      <4>1. L[d] = next /\ L[d - 1] = K[m]
        BY <3>2
      <4> HIDE DEF L
      <4> QED
        BY <3>2, <4>1 DEF next
    <3> QED
      BY <3>1, <3>2
  <2>6. IsKept(L, m + 1, ix)
    BY <2>4, <2>5 DEF IsKept
  <2> HIDE DEF L
  <2> QED
    BY <2>6
<1>3. \A m \in 0 .. n : m \in S
  <2> HIDE DEF S
  <2> QED
    BY <1>1, <1>2, Steps
<1> QED
  BY <1>3

LEMMA KeptIs ==
  ASSUME NEW a, a.shape \in Seq(Nat), NEW ix, NEW K, IsKept(K, Len(a.shape), ix)
  PROVE  Kept(a, ix) = K[Len(a.shape)]
<1> DEFINE n == Len(a.shape)
           P == CHOOSE kept : kept = [d \in 0 .. Len(a.shape) |->
                  IF d = 0 THEN <<>>
                  ELSE IF d > Len(ix) \/ IsSlice(ix[d]) THEN Append(kept[d - 1], d)
                  ELSE kept[d - 1]]
<1>1. n \in Nat
  OBVIOUS
<1>2. K = [d \in 0 .. Len(a.shape) |->
             IF d = 0 THEN <<>>
             ELSE IF d > Len(ix) \/ IsSlice(ix[d]) THEN Append(K[d - 1], d) ELSE K[d - 1]]
  <2>1. K = [d \in 0 .. n |-> K[d]]
    BY DEF IsKept
  <2>2. ASSUME NEW d \in 0 .. n
        PROVE  K[d] = IF d = 0 THEN <<>>
                      ELSE IF d > Len(ix) \/ IsSlice(ix[d]) THEN Append(K[d - 1], d)
                      ELSE K[d - 1]
    <3>1. CASE d = 0
      BY <3>1 DEF IsKept
    <3>2. CASE d # 0
      <4>1. d \in 1 .. n
        BY <1>1, <3>2
      <4>2. K[d] = IF Keeps(ix, d) THEN Append(K[d - 1], d) ELSE K[d - 1]
        BY <4>1 DEF IsKept
      <4> QED
        BY <3>2, <4>2 DEF Keeps
    <3> QED
      BY <3>1, <3>2
  <2>3. [d \in 0 .. n |-> K[d]] = [d \in 0 .. n |->
             IF d = 0 THEN <<>>
             ELSE IF d > Len(ix) \/ IsSlice(ix[d]) THEN Append(K[d - 1], d) ELSE K[d - 1]]
    BY <2>2
  <2> QED
    BY <2>1, <2>3
<1>3. P = [d \in 0 .. Len(a.shape) |->
             IF d = 0 THEN <<>>
             ELSE IF d > Len(ix) \/ IsSlice(ix[d]) THEN Append(P[d - 1], d) ELSE P[d - 1]]
  BY <1>2
<1>4. Kept(a, ix) = P[n]
  BY DEF Kept
<1> HIDE DEF P
<1> DEFINE S == {k \in 0 .. n : P[k] = K[k]}
<1>5. 0 \in S
  BY <1>1, <1>3 DEF IsKept
<1>6. ASSUME NEW k \in 0 .. n - 1, k \in S PROVE k + 1 \in S
  <2>1. k + 1 \in 0 .. Len(a.shape) /\ k + 1 # 0 /\ (k + 1) - 1 = k
    BY <1>1
  <2>2. P[k + 1] = IF k + 1 > Len(ix) \/ IsSlice(ix[k + 1]) THEN Append(P[k], k + 1) ELSE P[k]
    BY <1>3, <2>1
  <2>3. K[k + 1] = IF k + 1 > Len(ix) \/ IsSlice(ix[k + 1]) THEN Append(K[k], k + 1) ELSE K[k]
    BY <1>2, <2>1
  <2> QED
    BY <1>6, <2>1, <2>2, <2>3
<1>7. \A k \in 0 .. n : k \in S
  <2> HIDE DEF S
  <2> QED
    BY <1>1, <1>5, <1>6, Steps
<1>8. n \in 0 .. n
  BY <1>1
<1> QED
  BY <1>4, <1>7, <1>8

\* They are in order, they are those that the subscript keeps, and those of the
\* first dimensions come first.
LEMMA KeptInOrder ==
  ASSUME NEW n \in Nat, NEW ix, NEW K, IsKept(K, n, ix)
  PROVE  \A d \in 0 .. n :
           /\ \A j \in 1 .. Len(K[d]) : K[d][j] \in 1 .. d /\ Keeps(ix, K[d][j])
           /\ \A j, l \in 1 .. Len(K[d]) : j < l => K[d][j] < K[d][l]
           /\ \A e \in 1 .. d : Keeps(ix, e) => \E j \in 1 .. Len(K[d]) : K[d][j] = e
<1> DEFINE S == {d \in 0 .. n :
           /\ \A j \in 1 .. Len(K[d]) : K[d][j] \in 1 .. d /\ Keeps(ix, K[d][j])
           /\ \A j, l \in 1 .. Len(K[d]) : j < l => K[d][j] < K[d][l]
           /\ \A e \in 1 .. d : Keeps(ix, e) => \E j \in 1 .. Len(K[d]) : K[d][j] = e}
<1>1. 0 \in S
  BY DEF IsKept
<1>2. ASSUME NEW d \in 0 .. n - 1, d \in S PROVE d + 1 \in S
  <2>1. d \in 0 .. n /\ d + 1 \in 1 .. n /\ d + 1 \in 0 .. n /\ (d + 1) - 1 = d
    OBVIOUS
  <2>2. K[d] \in Seq(Nat) /\ K[d + 1] = IF Keeps(ix, d + 1) THEN Append(K[d], d + 1) ELSE K[d]
    BY <2>1 DEF IsKept
  <2>3. PICK m \in Nat : m = Len(K[d])
    BY <2>2
  <2>4. /\ \A j \in 1 .. m : K[d][j] \in 1 .. d /\ Keeps(ix, K[d][j])
        /\ \A j, l \in 1 .. m : j < l => K[d][j] < K[d][l]
        /\ \A e \in 1 .. d : Keeps(ix, e) => \E j \in 1 .. m : K[d][j] = e
    BY <1>2, <2>3
  <2>5. CASE Keeps(ix, d + 1)
    <3>1. /\ Len(K[d + 1]) = m + 1 /\ K[d + 1][m + 1] = d + 1
          /\ \A j \in 1 .. m : K[d + 1][j] = K[d][j]
      BY <2>2, <2>3, <2>5
    <3>2. \A j \in 1 .. m + 1 : j \in 1 .. m \/ j = m + 1
      OBVIOUS
    <3>3. ASSUME NEW j \in 1 .. m + 1 PROVE K[d + 1][j] \in 1 .. d + 1 /\ Keeps(ix, K[d + 1][j])
      <4>1. CASE j = m + 1
        <5>1. d + 1 \in 1 .. d + 1
          BY <2>1
        <5> QED
          BY <2>5, <3>1, <4>1, <5>1
      <4>2. CASE j \in 1 .. m
        <5>1. K[d + 1][j] = K[d][j] /\ K[d][j] \in 1 .. d /\ Keeps(ix, K[d][j])
          BY <2>4, <3>1, <4>2
        <5>2. K[d][j] \in 1 .. d + 1
          BY <2>1, <5>1
        <5> QED
          BY <5>1, <5>2
      <4> QED
        BY <3>2, <4>1, <4>2
    <3>4. ASSUME NEW j \in 1 .. m + 1, NEW l \in 1 .. m + 1, j < l
          PROVE  K[d + 1][j] < K[d + 1][l]
      <4>1. j \in 1 .. m
        BY <3>4
      <4>2. CASE l = m + 1
        BY <2>4, <3>1, <4>1, <4>2
      <4>3. CASE l \in 1 .. m
        BY <2>4, <3>1, <3>4, <4>1, <4>3
      <4> QED
        BY <3>2, <4>2, <4>3
    <3>5. ASSUME NEW e \in 1 .. d + 1, Keeps(ix, e)
          PROVE  \E j \in 1 .. m + 1 : K[d + 1][j] = e
      <4>1. CASE e = d + 1
        BY <3>1, <4>1
      <4>2. CASE e \in 1 .. d
        <5>1. PICK j \in 1 .. m : K[d][j] = e
          BY <2>4, <3>5, <4>2
        <5>2. j \in 1 .. m + 1
          OBVIOUS
        <5> QED
          BY <3>1, <5>1, <5>2
      <4>3. e = d + 1 \/ e \in 1 .. d
        BY <2>1
      <4> QED
        BY <4>1, <4>2, <4>3
    <3> QED
      BY <2>1, <3>1, <3>3, <3>4, <3>5
  <2>6. CASE ~Keeps(ix, d + 1)
    <3>1. K[d + 1] = K[d]
      BY <2>2, <2>6
    <3>2. \A j \in 1 .. m : K[d][j] \in 1 .. d + 1
      BY <2>1, <2>4
    <3>3. \A e \in 1 .. d + 1 : Keeps(ix, e) => e \in 1 .. d
      BY <2>1, <2>6
    <3> QED
      BY <2>1, <2>3, <2>4, <3>1, <3>2, <3>3
  <2> QED
    BY <2>5, <2>6
<1>3. \A d \in 0 .. n : d \in S
  <2> HIDE DEF S
  <2> QED
    BY <1>1, <1>2, Steps
<1> QED
  BY <1>3

LEMMA KeptPrefix ==
  ASSUME NEW n \in Nat, NEW ix, NEW K, IsKept(K, n, ix)
  PROVE  \A d \in 0 .. n : /\ Len(K[d]) \in Nat /\ Len(K[d]) <= Len(K[n])
                           /\ \A j \in 1 .. Len(K[d]) : K[n][j] = K[d][j]
<1> DEFINE S == {d \in 0 .. n : /\ Len(K[d]) <= Len(K[n])
                                /\ \A j \in 1 .. Len(K[d]) : K[n][j] = K[d][j]}
<1>1. \A d \in 0 .. n : K[d] \in Seq(Nat) /\ Len(K[d]) \in Nat
  <2>1. \A d \in 0 .. n : K[d] \in Seq(Nat)
    BY DEF IsKept
  <2> QED
    BY <2>1
<1>2. n \in S
  BY <1>1
<1>3. ASSUME NEW d \in 1 .. n, d \in S PROVE d - 1 \in S
  <2>1. d - 1 \in 0 .. n /\ d \in 0 .. n
    OBVIOUS
  <2>2. K[d] = IF Keeps(ix, d) THEN Append(K[d - 1], d) ELSE K[d - 1]
    BY DEF IsKept
  <2>3. PICK m \in Nat : m = Len(K[d - 1])
    BY <1>1, <2>1
  <2>4. Len(K[d]) >= m /\ \A j \in 1 .. m : K[d][j] = K[d - 1][j] /\ j \in 1 .. Len(K[d])
    <3>1. K[d - 1] \in Seq(Nat)
      BY <1>1, <2>1
    <3>2. CASE Keeps(ix, d)
      BY <2>2, <2>3, <3>1, <3>2
    <3>3. CASE ~Keeps(ix, d)
      BY <2>2, <2>3, <3>1, <3>3
    <3> QED
      BY <3>2, <3>3
  <2>5. Len(K[d]) \in Nat /\ Len(K[n]) \in Nat
    BY <1>1, <2>1
  <2> QED
    BY <1>3, <2>1, <2>3, <2>4, <2>5
<1>4. \A d \in 0 .. n : d \in S
  <2> HIDE DEF S
  <2> QED
    BY <1>2, <1>3, StepsDown
<1> QED
  BY <1>1, <1>4

\* A subscript of an index or a slice.
Subscript == [at : Nat] \cup [lo : Nat, hi : Nat, step : Nat]

LEMMA SubscriptIs ==
  ASSUME NEW x \in Subscript
  PROVE  /\ First(x) \in Nat /\ Step(x) \in Nat /\ Step(x) > 0
         /\ IsSlice(x) => x.lo \in Nat /\ x.hi \in Nat /\ x.step \in Nat /\ First(x) = x.lo
         /\ ~IsSlice(x) => x.at \in Nat /\ First(x) = x.at /\ Step(x) = 1
<1>1. CASE x \in [at : Nat]
  <2>1. DOMAIN x = {"at"} /\ x.at \in Nat
    BY <1>1
  <2>2. ~IsSlice(x)
    BY <2>1 DEF IsSlice
  <2> QED
    BY <2>1, <2>2 DEF First, Step
<1>2. CASE x \in [lo : Nat, hi : Nat, step : Nat]
  <2>1. DOMAIN x = {"lo", "hi", "step"} /\ x.lo \in Nat /\ x.hi \in Nat /\ x.step \in Nat
    BY <1>2
  <2>2. IsSlice(x)
    BY <2>1 DEF IsSlice
  <2> QED
    BY <2>1, <2>2 DEF First, Step
<1> QED
  BY <1>1, <1>2 DEF Subscript

LEMMA Paces ==
  ASSUME NEW ix \in Seq(Subscript), NEW d \in Nat
  PROVE  Base(ix, d) \in Nat /\ Pace(ix, d) \in Nat /\ Pace(ix, d) > 0
<1>1. CASE d \in DOMAIN ix
  <2>1. ix[d] \in Subscript
    BY <1>1
  <2> QED
    BY <1>1, <2>1, SubscriptIs DEF Base, Pace
<1>2. CASE d \notin DOMAIN ix
  BY <1>2 DEF Base, Pace
<1> QED
  BY <1>1, <1>2

LEMMA Term ==
  ASSUME NEW b \in Int, NEW p \in Int, NEW i \in Int, NEW t \in Int
  PROVE  /\ (b + p * i) * t = b * t + i * (t * p)
         /\ b * t \in Int /\ i * (t * p) \in Int /\ (b + p * i) * t \in Int
<1>1. (b + p * i) * t = b * t + (p * i) * t
  OBVIOUS
<1>2. (p * i) * t = i * (t * p)
  OBVIOUS
<1> QED
  BY <1>1, <1>2

\* The address of an element of a view is that of the element it shows.
ViewOf(n, ix, K, t, i, src, base, u) ==
  /\ Len(ix) <= n /\ IsKept(K, n, ix)
  /\ \A d \in 1 .. n : t[d] \in Int
  /\ i \in [1 .. Len(K[n]) -> Int] /\ src \in [1 .. n -> Int]
  /\ \A j \in 1 .. Len(K[n]) : src[K[n][j]] = Base(ix, K[n][j]) + Pace(ix, K[n][j]) * i[j]
  /\ \A d \in 1 .. n : ~Keeps(ix, d) => src[d] = Base(ix, d)
  /\ base \in [1 .. Len(ix) -> Int] /\ \A d \in 1 .. Len(ix) : base[d] = Base(ix, d)
  /\ \A j \in 1 .. Len(K[n]) : u[j] = t[K[n][j]] * Pace(ix, K[n][j])

LEMMA ViewSum ==
  ASSUME NEW n \in Nat, NEW ix \in Seq(Subscript), NEW K, NEW data \in Int, NEW t, NEW i,
         NEW src, NEW base, NEW u, ViewOf(n, ix, K, t, i, src, base, u)
  PROVE  /\ At(data, base, t) \in Int
         /\ At(data, src, t) = At(At(data, base, t), i, u)
<1> USE DEF ViewOf
<1>1. PICK m \in Nat : m = Len(ix) /\ m <= n /\ DOMAIN ix = 1 .. m
  OBVIOUS
<1>2. PICK l \in Nat : l = Len(K[n])
  BY KeptPrefix
<1>3. PICK kept : kept = K[n]
  OBVIOUS
<1>4. \A j \in 1 .. l : kept[j] \in 1 .. n /\ Keeps(ix, kept[j])
  <2>1. n \in 0 .. n
    OBVIOUS
  <2> QED
    BY <1>2, <1>3, <2>1, KeptInOrder
<1>5. \A d \in 1 .. n : Base(ix, d) \in Int /\ Pace(ix, d) \in Int
  <2> TAKE d \in 1 .. n
  <2>1. d \in Nat
    OBVIOUS
  <2>2. Base(ix, d) \in Nat /\ Pace(ix, d) \in Nat
    BY <2>1, Paces
  <2> QED
    BY <2>2
<1>6. base \in [1 .. m -> Int] /\ \A d \in 1 .. m : base[d] = Base(ix, d)
  BY <1>1
<1>7. \A j \in 1 .. l : u[j] \in Int
  <2> TAKE j \in 1 .. l
  <2>1. t[kept[j]] \in Int /\ Pace(ix, kept[j]) \in Int
    BY <1>4, <1>5
  <2>2. t[kept[j]] * Pace(ix, kept[j]) \in Int
    BY <2>1, Associative
  <2> QED
    BY <1>2, <1>3, <2>2
<1>8. PICK B : IsSum(B, m, data, base, t)
  <2>1. \A d \in 1 .. m : base[d] \in Int /\ t[d] \in Int
    <3> TAKE d \in 1 .. m
    <3>1. d \in 1 .. n
      BY <1>1
    <3> QED
      BY <1>6, <3>1
  <2> QED
    BY <2>1, SumExists
<1>9. At(data, base, t) = B[m] /\ B[m] \in Int
  <2>1. \A d \in 1 .. m : t[d] \in Int
    <3> TAKE d \in 1 .. m
    <3>1. d \in 1 .. n
      BY <1>1
    <3> QED
      BY <3>1
  <2>2. m \in Nat /\ base \in [1 .. m -> Int] /\ IsSum(B, m, data, base, t)
    BY <1>6, <1>8
  <2>3. data \in Int
    OBVIOUS
  <2>4. At(data, base, t) = B[m] /\ At(data, base, t) \in Int
    BY ONLY <2>1, <2>2, <2>3, AtIs
  <2> QED
    BY <2>4
<1>10. PICK V : IsSum(V, l, B[m], i, u)
  <2>1. \A j \in 1 .. l : i[j] \in Int /\ u[j] \in Int
    BY <1>2, <1>7
  <2> QED
    BY <1>9, <2>1, SumExists
<1>11. PICK T : IsSum(T, n, data, src, t)
  <2>1. \A d \in 1 .. n : src[d] \in Int /\ t[d] \in Int
    OBVIOUS
  <2> QED
    BY <2>1, SumExists
<1>12. At(data, src, t) = T[n]
  <2>1. \A d \in 1 .. n : t[d] \in Int
    OBVIOUS
  <2>2. n \in Nat /\ src \in [1 .. n -> Int] /\ data \in Int
    OBVIOUS
  <2> QED
    BY ONLY <1>11, <2>1, <2>2, AtIs
<1>13. At(B[m], i, u) = V[l]
  <2>1. l \in Nat /\ i \in [1 .. l -> Int]
    BY <1>2
  <2>2. B[m] \in Int
    BY <1>9
  <2>3. \A k \in 1 .. l : u[k] \in Int
    BY <1>7
  <2>4. PICK w : w = i
    OBVIOUS
  <2>5. PICK c \in Int : c = B[m]
    BY <2>2
  <2>6. w \in [1 .. l -> Int] /\ IsSum(V, l, c, w, u)
    BY <1>10, <2>1, <2>4, <2>5
  <2>7. At(c, w, u) = V[l]
    BY ONLY <2>1, <2>3, <2>5, <2>6, AtIs
  <2> QED
    BY <2>4, <2>5, <2>7
<1> DEFINE least(d) == IF d <= m THEN d ELSE m
           S == {d \in 0 .. n : T[d] + B[m] = B[least(d)] + V[Len(K[d])]}
<1>14. \A d \in 0 .. n : /\ Len(K[d]) \in 0 .. l /\ T[d] \in Int /\ V[Len(K[d])] \in Int
                         /\ B[least(d)] \in Int
  <2> TAKE d \in 0 .. n
  <2>1. Len(K[d]) \in 0 .. l
    BY <1>2, KeptPrefix
  <2>2. least(d) \in 0 .. m
    BY <1>1
  <2> HIDE DEF least
  <2> QED
    BY <1>8, <1>10, <1>11, <2>1, <2>2 DEF IsSum
<1>15. 0 \in S
  <2>1. T[0] = data /\ B[0] = data /\ V[0] = B[m] /\ Len(K[0]) = 0
    BY <1>8, <1>10, <1>11 DEF IsSum, IsKept
  <2>2. least(0) = 0
    OBVIOUS
  <2> HIDE DEF least
  <2> QED
    BY <1>9, <2>1, <2>2
<1>16. ASSUME NEW d \in 0 .. n - 1, d \in S PROVE d + 1 \in S
  <2>1. d \in 0 .. n /\ d + 1 \in 0 .. n /\ d + 1 \in 1 .. n /\ (d + 1) - 1 = d
    OBVIOUS
  <2>2. T[d + 1] = T[d] + src[d + 1] * t[d + 1]
    BY <1>11, <2>1 DEF IsSum
  <2>3. B[least(d + 1)] = B[least(d)] + Base(ix, d + 1) * t[d + 1]
    <3>1. CASE d + 1 <= m
      <4>1. d + 1 \in 1 .. m /\ least(d + 1) = d + 1 /\ least(d) = d
        BY <3>1
      <4>2. B[d + 1] = B[d] + base[d + 1] * t[d + 1]
        BY <1>8, <2>1, <4>1 DEF IsSum
      <4> QED
        BY <1>6, <4>1, <4>2
    <3>2. CASE ~(d + 1 <= m)
      <4>1. least(d + 1) = m /\ least(d) = m
        BY <3>2
      <4>2. Base(ix, d + 1) = 0 /\ t[d + 1] \in Int
        BY <1>1, <2>1, <3>2 DEF Base
      <4> HIDE DEF least
      <4> QED
        BY <1>9, <4>1, <4>2
    <3> QED
      BY <3>1, <3>2
  <2>4. T[d] + B[m] = B[least(d)] + V[Len(K[d])]
    BY <1>16
  <2>5. K[d + 1] = (IF Keeps(ix, d + 1) THEN Append(K[d], d + 1) ELSE K[d]) /\ K[d] \in Seq(Nat)
    BY <2>1 DEF IsKept
  <2> HIDE DEF least, S
  <2>6. CASE Keeps(ix, d + 1)
    <3>1. PICK e \in Nat : e = Len(K[d])
      BY <1>14, <2>1
    <3>2. Len(K[d + 1]) = e + 1 /\ K[d + 1][e + 1] = d + 1
      BY <2>5, <2>6, <3>1
    <3>3. e + 1 \in 1 .. l /\ (e + 1) - 1 = e /\ kept[e + 1] = d + 1
      <4>1. Len(K[d + 1]) <= l /\ K[n][e + 1] = K[d + 1][e + 1]
        <5>1. e + 1 \in 1 .. Len(K[d + 1])
          BY <3>1, <3>2
        <5> QED
          BY <1>2, <2>1, <5>1, KeptPrefix
      <4> QED
        BY <1>2, <1>3, <3>1, <3>2, <4>1
    <3>4. V[e + 1] = V[e] + i[e + 1] * u[e + 1]
      BY <1>10, <3>3 DEF IsSum
    <3>5. /\ src[d + 1] = Base(ix, d + 1) + Pace(ix, d + 1) * i[e + 1]
          /\ u[e + 1] = t[d + 1] * Pace(ix, d + 1)
      BY <1>2, <1>3, <3>3
    <3>6. /\ Base(ix, d + 1) \in Int /\ Pace(ix, d + 1) \in Int /\ i[e + 1] \in Int
          /\ t[d + 1] \in Int
      <4>1. i \in [1 .. l -> Int]
        BY <1>2
      <4>2. i[e + 1] \in Int
        BY <3>3, <4>1
      <4> QED
        BY <1>5, <2>1, <4>2
    <3>7. /\ src[d + 1] * t[d + 1] = Base(ix, d + 1) * t[d + 1] + i[e + 1] * u[e + 1]
          /\ Base(ix, d + 1) * t[d + 1] \in Int /\ i[e + 1] * u[e + 1] \in Int
      BY <3>5, <3>6, Term
    <3> DEFINE x == Base(ix, d + 1) * t[d + 1]
               y == i[e + 1] * u[e + 1]
    <3>8. /\ T[d + 1] = T[d] + (x + y) /\ B[least(d + 1)] = B[least(d)] + x
          /\ V[e + 1] = V[e] + y /\ x \in Int /\ y \in Int
      BY <2>2, <2>3, <3>4, <3>7
    <3>9. /\ T[d] \in Int /\ B[least(d)] \in Int /\ V[e] \in Int
      BY <1>14, <2>1, <3>1
    <3> HIDE DEF x, y
    <3>10. T[d + 1] + B[m] = B[least(d + 1)] + V[e + 1]
      <4>1. (T[d] + (x + y)) + B[m] = (B[least(d)] + x) + (V[e] + y)
        <5>1. T[d] + B[m] = B[least(d)] + V[e] /\ B[m] \in Int
          BY <1>9, <2>4, <3>1
        <5>2. T[d] \in Int /\ B[least(d)] \in Int /\ V[e] \in Int /\ x \in Int /\ y \in Int
          BY ONLY <3>8, <3>9
        <5>3. T[d] + (x + y) + B[m] = (T[d] + B[m]) + (x + y)
          BY ONLY <5>1, <5>2
        <5>4. B[least(d)] + x + (V[e] + y) = (B[least(d)] + V[e]) + (x + y)
          BY ONLY <5>2
        <5> QED
          BY ONLY <5>1, <5>3, <5>4
      <4> QED
        BY ONLY <3>8, <4>1
    <3> QED
      BY <2>1, <3>2, <3>10 DEF S
  <2>7. CASE ~Keeps(ix, d + 1)
    <3>1. K[d + 1] = K[d] /\ src[d + 1] = Base(ix, d + 1)
      BY <2>1, <2>5, <2>7
    <3> DEFINE x == Base(ix, d + 1) * t[d + 1]
    <3>2. x \in Int
      BY <1>5, <2>1
    <3>3. T[d + 1] = T[d] + x /\ B[least(d + 1)] = B[least(d)] + x
      BY <2>2, <2>3, <3>1
    <3>4. T[d] \in Int /\ B[least(d)] \in Int /\ V[Len(K[d])] \in Int
      BY <1>14, <2>1
    <3> HIDE DEF x
    <3>5. T[d + 1] + B[m] = B[least(d + 1)] + V[Len(K[d])]
      <4>1. (T[d] + x) + B[m] = (B[least(d)] + x) + V[Len(K[d])]
        <5>1. B[m] \in Int
          BY <1>9
        <5>2. T[d] + x + B[m] = (T[d] + B[m]) + x
          BY ONLY <3>2, <3>4, <5>1
        <5> QED
          BY ONLY <2>4, <3>2, <3>4, <5>1, <5>2
      <4> QED
        BY ONLY <3>3, <4>1
    <3> QED
      BY <2>1, <3>1, <3>5 DEF S
  <2> QED
    BY <2>6, <2>7
<1>17. T[n] + B[m] = B[m] + V[l]
  <2>1. \A d \in 0 .. n : d \in S
    <3> HIDE DEF S
    <3> QED
      BY <1>15, <1>16, Steps
  <2>2. n \in 0 .. n /\ least(n) = m
    BY <1>1
  <2>3. T[n] + B[m] = B[least(n)] + V[Len(K[n])]
    BY <2>1, <2>2
  <2> HIDE DEF least
  <2> QED
    BY <1>2, <2>2, <2>3
<1>18. T[n] = V[l]
  <2>1. T[n] \in Int /\ V[l] \in Int
    BY <1>10, <1>11 DEF IsSum
  <2> QED
    BY <1>9, <1>17, <2>1
<1> QED
  BY <1>9, <1>12, <1>13, <1>18

Complete(kept, n, ix) ==
  \A d \in 1 .. n : Keeps(ix, d) => \E j \in 1 .. Len(kept) : kept[j] = d

\* The dimensions that a subscript keeps, in order.
LEMMA KeptFacts ==
  ASSUME NEW a, a.shape \in Seq(Nat), NEW ix
  PROVE  /\ Kept(a, ix) \in Seq(Nat)
         /\ \A j \in 1 .. Len(Kept(a, ix)) :
              Kept(a, ix)[j] \in 1 .. Len(a.shape) /\ Keeps(ix, Kept(a, ix)[j])
         /\ \A j, l \in 1 .. Len(Kept(a, ix)) : j < l => Kept(a, ix)[j] < Kept(a, ix)[l]
         /\ Complete(Kept(a, ix), Len(a.shape), ix)
<1>1. PICK n \in Nat : n = Len(a.shape)
  OBVIOUS
<1>2. PICK K : IsKept(K, n, ix)
  BY KeptExists
<1>3. Kept(a, ix) = K[n]
  BY <1>1, <1>2, KeptIs
<1>4. n \in 0 .. n /\ K[n] \in Seq(Nat)
  BY <1>2 DEF IsKept
<1>5. /\ \A j \in 1 .. Len(K[n]) : K[n][j] \in 1 .. n /\ Keeps(ix, K[n][j])
      /\ \A j, l \in 1 .. Len(K[n]) : j < l => K[n][j] < K[n][l]
      /\ \A e \in 1 .. n : Keeps(ix, e) => \E j \in 1 .. Len(K[n]) : K[n][j] = e
  BY <1>2, <1>4, KeptInOrder
<1>6. Complete(K[n], n, ix)
  BY <1>5 DEF Complete
<1> QED
  BY <1>1, <1>3, <1>4, <1>5, <1>6

\* An index below the extent of a slice is an index below its end.
LEMMA WithinSlice ==
  ASSUME NEW x \in Subscript, IsSlice(x), NEW i \in Nat, i < Extent(x)
  PROVE  First(x) + Step(x) * i < x.hi
<1>1. /\ x.lo \in Nat /\ x.hi \in Nat /\ First(x) = x.lo
      /\ Step(x) \in Nat /\ Step(x) > 0
  BY SubscriptIs
<1>2. PICK l \in Nat, h \in Nat, s \in Nat : l = x.lo /\ h = x.hi /\ s = Step(x) /\ s > 0
  BY <1>1
<1>3. l < h /\ i < (h - l + s - 1) \div s
  BY <1>2 DEF Extent
<1>4. PICK q \in Nat : q = (h - l + s - 1) \div s /\ s * q <= h - l + s - 1
  BY <1>2, <1>3
<1>5. s * (i + 1) <= s * q /\ s * (i + 1) = s * i + s /\ s * i \in Nat /\ s * q \in Nat
  <2>1. i + 1 <= q /\ i + 1 \in Int /\ q \in Int
    BY <1>3, <1>4
  <2>2. (i + 1) * s <= q * s
    BY <2>1, Monotone
  <2>3. \A b, c \in Nat : b * c = c * b /\ b * c \in Nat /\ (b + 1) * c = b * c + c
    OBVIOUS
  <2> QED
    BY <1>4, <2>2, <2>3
<1>6. l + s * i < h
  BY <1>2, <1>3, <1>4, <1>5
<1> QED
  BY <1>1, <1>2, <1>6

LEMMA ExtentIs ==
  ASSUME NEW x \in Subscript, IsSlice(x)
  PROVE  Extent(x) \in Nat
<1>1. /\ x.lo \in Nat /\ x.hi \in Nat /\ Step(x) \in Nat /\ Step(x) > 0
  BY SubscriptIs
<1>2. PICK l \in Nat, h \in Nat, s \in Nat : l = x.lo /\ h = x.hi /\ s = Step(x) /\ s > 0
  BY <1>1
<1>3. l < h => (h - l + s - 1) \div s \in Nat
  BY <1>2
<1> QED
  BY <1>2, <1>3 DEF Extent

LEMMA ViewShapeIs ==
  ASSUME NEW a, a.shape \in Seq(Nat), NEW ix \in Seq(Subscript)
  PROVE  /\ ViewShape(a, ix) \in Seq(Nat) /\ Len(ViewShape(a, ix)) = Len(Kept(a, ix))
         /\ \A j \in 1 .. Len(Kept(a, ix)) :
              ViewShape(a, ix)[j] = IF Kept(a, ix)[j] \in DOMAIN ix
                                    THEN Extent(ix[Kept(a, ix)[j]])
                                    ELSE a.shape[Kept(a, ix)[j]]
<1>1. PICK kept \in Seq(Nat) : kept = Kept(a, ix)
  BY KeptFacts
<1>2. PICK l \in Nat : l = Len(kept) /\ DOMAIN kept = 1 .. l
  OBVIOUS
<1>3. \A j \in 1 .. l : kept[j] \in 1 .. Len(a.shape) /\ Keeps(ix, kept[j])
  BY <1>1, <1>2, KeptFacts
<1>4. ASSUME NEW j \in 1 .. l
      PROVE  (IF kept[j] \in DOMAIN ix THEN Extent(ix[kept[j]]) ELSE a.shape[kept[j]]) \in Nat
  <2>1. CASE kept[j] \in DOMAIN ix
    <3>1. ix[kept[j]] \in Subscript /\ IsSlice(ix[kept[j]])
      BY <1>3, <2>1 DEF Keeps
    <3> QED
      BY <2>1, <3>1, ExtentIs
  <2>2. CASE kept[j] \notin DOMAIN ix
    BY <1>3, <2>2
  <2> QED
    BY <2>1, <2>2
<1>5. ViewShape(a, ix) = [j \in 1 .. l |-> IF kept[j] \in DOMAIN ix THEN Extent(ix[kept[j]])
                                           ELSE a.shape[kept[j]]]
  BY <1>1, <1>2 DEF ViewShape
<1> QED
  BY <1>1, <1>2, <1>4, <1>5

LEMMA SourceIs ==
  ASSUME NEW a, a.shape \in Seq(Nat), NEW ix \in Seq(Subscript),
         \A d \in DOMAIN ix : Fits(ix[d], a.shape[d]), Len(ix) <= Len(a.shape),
         NEW i \in Indices(ViewShape(a, ix))
  PROVE  /\ Source(a, ix, i) \in Indices(a.shape)
         /\ \A j \in 1 .. Len(Kept(a, ix)) :
              Source(a, ix, i)[Kept(a, ix)[j]]
                = Base(ix, Kept(a, ix)[j]) + Pace(ix, Kept(a, ix)[j]) * i[j]
         /\ \A d \in 1 .. Len(a.shape) :
              ~Keeps(ix, d) => Source(a, ix, i)[d] = Base(ix, d)
<1>1. PICK kept \in Seq(Nat) : kept = Kept(a, ix)
  BY KeptFacts
<1>2. PICK l \in Nat : l = Len(kept) /\ DOMAIN kept = 1 .. l
  OBVIOUS
<1>3. PICK n \in Nat : n = Len(a.shape) /\ DOMAIN a.shape = 1 .. n
  OBVIOUS
<1>4. PICK src : src = Source(a, ix, i)
  OBVIOUS
<1>5. /\ \A j \in 1 .. l : kept[j] \in 1 .. n /\ Keeps(ix, kept[j])
      /\ \A j, m \in 1 .. l : j < m => kept[j] < kept[m]
      /\ \A d \in 1 .. n : Keeps(ix, d) => \E j \in 1 .. l : kept[j] = d
  <2>1. /\ \A j \in 1 .. Len(Kept(a, ix)) :
              Kept(a, ix)[j] \in 1 .. Len(a.shape) /\ Keeps(ix, Kept(a, ix)[j])
        /\ \A j, m \in 1 .. Len(Kept(a, ix)) : j < m => Kept(a, ix)[j] < Kept(a, ix)[m]
    BY KeptFacts
  <2>2. Complete(Kept(a, ix), Len(a.shape), ix)
    BY KeptFacts
  <2>3. Complete(kept, n, ix)
    BY <1>1, <1>3, <2>2
  <2>4. \A d \in 1 .. n : Keeps(ix, d) => \E j \in 1 .. l : kept[j] = d
    BY <1>2, <2>3 DEF Complete
  <2> QED
    BY ONLY <1>1, <1>2, <1>3, <2>1, <2>4
<1>6. \A j \in 1 .. l : i[j] \in Nat /\ i[j] < ViewShape(a, ix)[j]
  <2>1. ViewShape(a, ix) \in Seq(Nat) /\ Len(ViewShape(a, ix)) = l
    BY <1>1, <1>2, ViewShapeIs
  <2> QED
    BY <2>1, IndexIs
<1> DEFINE at(d) == CHOOSE j \in DOMAIN Kept(a, ix) : Kept(a, ix)[j] = d
<1>7. src = [d \in DOMAIN a.shape |->
               IF Contains(Kept(a, ix), d) THEN Base(ix, d) + Pace(ix, d) * i[at(d)]
               ELSE Base(ix, d)]
  BY <1>4 DEF Source
<1> HIDE DEF at
<1>8. ASSUME NEW j \in 1 .. l
      PROVE  src[kept[j]] = Base(ix, kept[j]) + Pace(ix, kept[j]) * i[j]
  <2>1. kept[j] \in 1 .. n /\ Contains(kept, kept[j])
    BY <1>2, <1>5 DEF Contains
  <2>2. PICK d \in 1 .. n : d = kept[j]
    BY <2>1
  <2>3. at(d) = j
    <3>1. \A m \in 1 .. l : kept[m] = kept[j] => m = j
      <4> TAKE m \in 1 .. l
      <4>1. m < j => kept[m] < kept[j]
        BY <1>5
      <4>2. j < m => kept[j] < kept[m]
        BY <1>5
      <4>3. kept[m] \in Nat /\ kept[j] \in Nat /\ m \in Nat /\ j \in Nat
        BY <1>5
      <4> QED
        BY <4>1, <4>2, <4>3
    <3>2. \A m \in DOMAIN Kept(a, ix) : Kept(a, ix)[m] = d <=> m = j
      BY <1>1, <1>2, <2>2, <3>1
    <3>3. j \in DOMAIN Kept(a, ix)
      BY <1>1, <1>2
    <3> QED
      BY ONLY <3>2, <3>3 DEF at
  <2>4. src[d] = IF Contains(Kept(a, ix), d) THEN Base(ix, d) + Pace(ix, d) * i[j]
                 ELSE Base(ix, d)
    BY <1>3, <1>7, <2>3
  <2> QED
    BY <1>1, <2>1, <2>2, <2>4
<1>9. ASSUME NEW d \in 1 .. n, ~Keeps(ix, d) PROVE src[d] = Base(ix, d)
  <2>1. ~Contains(kept, d)
    BY <1>2, <1>5, <1>9 DEF Contains
  <2> QED
    BY <1>1, <1>3, <1>7, <2>1
<1>10. ASSUME NEW d \in 1 .. n PROVE src[d] \in Nat /\ src[d] < a.shape[d]
  <2>1. CASE ~Keeps(ix, d)
    <3>1. d \in DOMAIN ix /\ ~IsSlice(ix[d]) /\ ix[d] \in Subscript
      BY <2>1 DEF Keeps
    <3>2. Base(ix, d) = ix[d].at /\ ix[d].at \in Nat
      BY <3>1, SubscriptIs DEF Base
    <3>3. ix[d].at < a.shape[d]
      BY <3>1 DEF Fits
    <3> QED
      BY <1>9, <2>1, <3>2, <3>3
  <2>2. CASE Keeps(ix, d) /\ d > Len(ix)
    <3>1. PICK j \in 1 .. l : kept[j] = d
      BY <1>5, <2>2
    <3>2. d \notin DOMAIN ix
      BY <2>2
    <3>3. ViewShape(a, ix)[j] = a.shape[d]
      BY <1>1, <1>2, <3>1, <3>2, ViewShapeIs
    <3>4. src[d] = 0 + 1 * i[j]
      BY <1>8, <3>1, <3>2 DEF Base, Pace
    <3> QED
      BY <1>6, <3>3, <3>4
  <2>3. CASE Keeps(ix, d) /\ ~(d > Len(ix))
    <3>1. PICK j \in 1 .. l : kept[j] = d
      BY <1>5, <2>3
    <3>2. d \in DOMAIN ix /\ IsSlice(ix[d]) /\ ix[d] \in Subscript
      BY <2>3 DEF Keeps
    <3>3. ViewShape(a, ix)[j] = Extent(ix[d])
      BY <1>1, <1>2, <3>1, <3>2, ViewShapeIs
    <3>4. src[d] = First(ix[d]) + Step(ix[d]) * i[j]
      BY <1>8, <3>1, <3>2 DEF Base, Pace
    <3>5. i[j] \in Nat /\ i[j] < Extent(ix[d])
      BY <1>6, <3>3
    <3>6. First(ix[d]) + Step(ix[d]) * i[j] < ix[d].hi
      BY <3>2, <3>5, WithinSlice
    <3>7. ix[d].hi <= a.shape[d]
      BY <3>2 DEF Fits
    <3>8. /\ ix[d].hi \in Nat /\ First(ix[d]) \in Nat /\ Step(ix[d]) \in Nat
          /\ a.shape[d] \in Nat
      BY <1>3, <3>2, SubscriptIs
    <3>9. Step(ix[d]) * i[j] \in Nat
      BY <3>5, <3>8
    <3>10. PICK x \in Nat : x = First(ix[d]) + Step(ix[d]) * i[j]
      BY ONLY <3>8, <3>9
    <3> QED
      BY ONLY <3>4, <3>6, <3>7, <3>8, <3>10
  <2> QED
    BY <2>1, <2>2, <2>3
<1>11. src \in [1 .. n -> Nat]
  <2>1. src = [d \in 1 .. n |-> src[d]]
    BY <1>3, <1>7
  <2> QED
    BY <1>10, <2>1
<1>12. src \in Indices(a.shape)
  BY <1>3, <1>10, <1>11, IndicesAre
<1> QED
  BY <1>1, <1>2, <1>3, <1>4, <1>8, <1>9, <1>12

\* Different places of a view are different elements of the array.
LEMMA SourceApart ==
  ASSUME NEW a, a.shape \in Seq(Nat), NEW ix \in Seq(Subscript),
         \A d \in DOMAIN ix : Fits(ix[d], a.shape[d]), Len(ix) <= Len(a.shape),
         NEW i \in Indices(ViewShape(a, ix)), NEW j \in Indices(ViewShape(a, ix)),
         Source(a, ix, i) = Source(a, ix, j)
  PROVE  i = j
<1>1. PICK l \in Nat : l = Len(Kept(a, ix)) /\ l = Len(ViewShape(a, ix))
  BY KeptFacts, ViewShapeIs
<1>2. i \in [1 .. l -> Int] /\ j \in [1 .. l -> Int]
  <2>1. ViewShape(a, ix) \in Seq(Nat)
    BY ViewShapeIs
  <2> QED
    BY <1>1, <2>1, IndexIs
<1>3. ASSUME NEW m \in 1 .. l PROVE i[m] = j[m]
  <2>1. PICK d \in Nat : d = Kept(a, ix)[m]
    <3>1. Kept(a, ix) \in Seq(Nat) /\ m \in 1 .. Len(Kept(a, ix))
      BY <1>1, KeptFacts
    <3> QED
      BY <3>1
  <2>2. /\ Source(a, ix, i)[d] = Base(ix, d) + Pace(ix, d) * i[m]
        /\ Source(a, ix, j)[d] = Base(ix, d) + Pace(ix, d) * j[m]
    <3>1. m \in 1 .. Len(Kept(a, ix))
      BY <1>1
    <3>2. \A k \in {i, j} : \A o \in 1 .. Len(Kept(a, ix)) :
            Source(a, ix, k)[Kept(a, ix)[o]]
              = Base(ix, Kept(a, ix)[o]) + Pace(ix, Kept(a, ix)[o]) * k[o]
      BY SourceIs
    <3> QED
      BY <2>1, <3>1, <3>2
  <2>3. PICK b \in Nat, p \in Nat : b = Base(ix, d) /\ p = Pace(ix, d) /\ p > 0
    BY Paces
  <2>4. b + p * i[m] = b + p * j[m]
    BY <2>2, <2>3
  <2>5. i[m] \in Int /\ j[m] \in Int
    BY <1>2
  <2>6. \A x, y \in Int : b + p * x = b + p * y => x = y
    <3>1. \A x, y \in Int : x < y => p * x < p * y /\ p * x \in Int /\ p * y \in Int
      BY <2>3
    <3> TAKE x, y \in Int
    <3>2. x < y => p * x < p * y
      BY <3>1
    <3>3. y < x => p * y < p * x
      BY <3>1
    <3>4. p * x \in Int /\ p * y \in Int
      BY <2>3
    <3>5. PICK v \in Int, w \in Int : v = p * x /\ w = p * y
      BY <3>4
    <3>6. b + v = b + w => v = w
      BY <2>3, <3>5
    <3> QED
      BY <3>2, <3>3, <3>5, <3>6
  <2> QED
    BY <2>4, <2>5, <2>6
<1> QED
  BY <1>2, <1>3

\* The address of an element of a view.
LEMMA ViewAddress ==
  ASSUME NEW a, a.shape \in Seq(Nat), a.data \in Int, NEW ix \in Seq(Subscript),
         \A d \in DOMAIN ix : Fits(ix[d], a.shape[d]), Len(ix) <= Len(a.shape),
         \A d \in 1 .. Len(a.shape) : a.strides[d] \in Int,
         NEW i \in Indices(ViewShape(a, ix)),
         NEW base, base = [d \in DOMAIN ix |-> First(ix[d])]
  PROVE  /\ At(a.data, base, a.strides) \in Int
         /\ At(a.data, Source(a, ix, i), a.strides)
              = At(At(a.data, base, a.strides), i, ViewStrides(a, ix))
<1>1. PICK n \in Nat : n = Len(a.shape)
  OBVIOUS
<1>2. PICK K : IsKept(K, n, ix)
  BY KeptExists
<1>3. Kept(a, ix) = K[n]
  BY <1>1, <1>2, KeptIs
<1>4. i \in [1 .. Len(K[n]) -> Int]
  <2>1. ViewShape(a, ix) \in Seq(Nat) /\ Len(ViewShape(a, ix)) = Len(Kept(a, ix))
    BY ViewShapeIs
  <2> QED
    BY <1>3, <2>1, IndexIs
<1>5. PICK src : src = Source(a, ix, i)
  OBVIOUS
<1>6. PICK u : u = ViewStrides(a, ix)
  OBVIOUS
<1>7. PICK t : t = a.strides
  OBVIOUS
<1>8. PICK data \in Int : data = a.data
  OBVIOUS
<1>9. src \in [1 .. n -> Int]
  <2>1. src \in Indices(a.shape)
    BY <1>5, SourceIs
  <2> QED
    BY <1>1, <2>1, IndexIs
<1>10. \A j \in 1 .. Len(K[n]) : src[K[n][j]] = Base(ix, K[n][j]) + Pace(ix, K[n][j]) * i[j]
  BY <1>3, <1>5, SourceIs
<1>11. \A d \in 1 .. n : ~Keeps(ix, d) => src[d] = Base(ix, d)
  BY <1>1, <1>5, SourceIs
<1>12. \A j \in 1 .. Len(K[n]) : u[j] = t[K[n][j]] * Pace(ix, K[n][j])
  <2>1. Kept(a, ix) \in Seq(Nat)
    BY KeptFacts
  <2>2. DOMAIN K[n] = 1 .. Len(K[n])
    BY <1>3, <2>1
  <2> QED
    BY <1>3, <1>6, <1>7, <2>2 DEF ViewStrides
<1>13. (\A d \in 1 .. n : t[d] \in Int) /\ Len(ix) <= n
  BY <1>1, <1>7
<1>14. /\ ix \in Seq(Subscript) /\ base \in [1 .. Len(ix) -> Int]
       /\ \A d \in 1 .. Len(ix) : base[d] = Base(ix, d)
  <2>1. \A d \in 1 .. Len(ix) : ix[d] \in Subscript
    OBVIOUS
  <2>2. \A d \in 1 .. Len(ix) : First(ix[d]) \in Nat
    BY <2>1, SubscriptIs
  <2> QED
    BY <2>2 DEF Base
<1>15. At(data, base, t) \in Int /\ At(data, src, t) = At(At(data, base, t), i, u)
  <2>1. ViewOf(n, ix, K, t, i, src, base, u)
    BY <1>2, <1>4, <1>9, <1>10, <1>11, <1>12, <1>13, <1>14, Zenon DEF ViewOf
  <2> QED
    BY <1>1, <1>8, <1>14, <2>1, ViewSum
<1> QED
  BY <1>5, <1>6, <1>7, <1>8, <1>15

KeepsFromTo(a, ix, f, g) ==
  /\ f >= 1 /\ f <= g + 1 /\ g <= Len(a.shape)
  /\ \A d \in 1 .. Len(a.shape) : Keeps(ix, d) <=> d \in f .. g

\* If the dimensions that are kept follow one another, the j-th kept is f + j - 1.
LEMMA KeptInterval ==
  ASSUME NEW a, a.shape \in Seq(Nat), NEW ix, NEW f \in Nat, NEW g \in Nat,
         KeepsFromTo(a, ix, f, g)
  PROVE  /\ Len(Kept(a, ix)) = g - f + 1
         /\ \A j \in 1 .. g - f + 1 : Kept(a, ix)[j] = f + j - 1
<1> USE DEF KeepsFromTo
<1>1. PICK n \in Nat : n = Len(a.shape)
  OBVIOUS
<1>2. PICK K : IsKept(K, n, ix)
  BY KeptExists
<1>3. Kept(a, ix) = K[n]
  BY <1>1, <1>2, KeptIs
<1> DEFINE l(d) == IF d < f THEN 0 ELSE IF d <= g THEN d - f + 1 ELSE g - f + 1
           S == {d \in 0 .. n : Len(K[d]) = l(d) /\ \A j \in 1 .. l(d) : K[d][j] = f + j - 1}
<1>4. 0 \in S
  <2>1. K[0] = <<>> /\ l(0) = 0
    BY <1>2 DEF IsKept
  <2>2. Len(<<>>) = 0 /\ 1 .. 0 = {} /\ 0 \in 0 .. n
    OBVIOUS
  <2> HIDE DEF l
  <2> QED
    BY <2>1, <2>2
<1>5. ASSUME NEW d \in 0 .. n - 1, d \in S PROVE d + 1 \in S
  <2>1. d + 1 \in 0 .. n /\ d + 1 \in 1 .. n /\ (d + 1) - 1 = d /\ d \in 0 .. n
    OBVIOUS
  <2>2. K[d + 1] = (IF Keeps(ix, d + 1) THEN Append(K[d], d + 1) ELSE K[d]) /\ K[d] \in Seq(Nat)
    BY <1>2, <2>1 DEF IsKept
  <2>3. Len(K[d]) = l(d) /\ \A j \in 1 .. l(d) : K[d][j] = f + j - 1
    BY <1>5
  <2>4. CASE d + 1 \in f .. g
    <3>1. l(d + 1) = d + 1 - f + 1 /\ l(d) = d - f + 1 /\ d - f + 1 \in Nat
      BY <1>1, <2>4
    <3>2. K[d + 1] = Append(K[d], d + 1)
      BY <1>1, <2>1, <2>2, <2>4
    <3>3. PICK e \in Nat : e = d - f + 1
      BY <3>1
    <3>4. l(d) = e /\ l(d + 1) = e + 1 /\ d + 1 = f + (e + 1) - 1
      BY <3>1, <3>3
    <3> HIDE DEF l
    <3>5. Len(K[d + 1]) = e + 1 /\ K[d + 1][e + 1] = d + 1 /\ \A j \in 1 .. e : K[d + 1][j] = K[d][j]
      BY <2>2, <2>3, <3>2, <3>4
    <3>6. \A j \in 1 .. e + 1 : K[d + 1][j] = f + j - 1
      <4> TAKE j \in 1 .. e + 1
      <4>1. CASE j \in 1 .. e
        BY <2>3, <3>4, <3>5, <4>1
      <4>2. CASE j = e + 1
        BY <3>4, <3>5, <4>2
      <4> QED
        BY <4>1, <4>2
    <3> QED
      BY <2>1, <3>4, <3>5, <3>6
  <2>5. CASE d + 1 \notin f .. g
    <3>1. l(d + 1) = l(d)
      BY <2>5
    <3>2. K[d + 1] = K[d]
      BY <1>1, <2>1, <2>2, <2>5
    <3> HIDE DEF l
    <3> QED
      BY <2>1, <2>3, <3>1, <3>2
  <2> QED
    BY <2>4, <2>5
<1>6. n \in S
  <2>1. \A d \in 0 .. n : d \in S
    <3> HIDE DEF S
    <3> QED
      BY <1>4, <1>5, Steps
  <2> QED
    BY <2>1
<1>7. l(n) = g - f + 1
  BY <1>1
<1> HIDE DEF l
<1> QED
  BY <1>3, <1>6, <1>7

\* A slice without a step takes one element after another.
LEMMA WholeSlice ==
  ASSUME NEW x \in Subscript, IsSlice(x), x.step = 0, NEW e \in Nat, Fits(x, e)
  PROVE  Step(x) = 1 /\ Extent(x) <= e
<1>1. Step(x) = 1 /\ x.lo \in Nat /\ x.hi \in Nat /\ x.hi <= e
  BY SubscriptIs DEF Step, Fits
<1>2. PICK lo \in Nat, hi \in Nat : lo = x.lo /\ hi = x.hi /\ hi <= e
  BY <1>1
<1>3. \A h, k \in Nat : h - k + 1 - 1 = h - k /\ h - k <= h /\ (h - k) * 1 = h - k
  OBVIOUS
<1>4. PICK w \in Int : w = hi - lo
  OBVIOUS
<1>5. hi - lo + 1 - 1 = w /\ w <= hi /\ w * 1 = w
  BY <1>3, <1>4
<1>6. (w * 1) \div 1 = w
  BY Quotient
<1>7. Extent(x) = IF lo < hi THEN (hi - lo + 1 - 1) \div 1 ELSE 0
  BY <1>1, <1>2 DEF Extent
<1>8. Extent(x) = IF lo < hi THEN w ELSE 0
  BY ONLY <1>5, <1>6, <1>7
<1> QED
  BY ONLY <1>1, <1>2, <1>5, <1>8

\* A view of a C array that stays contiguous keeps its last dimensions.
LEMMA RowView ==
  ASSUME NEW a, a.shape \in Seq(Nat), NEW ix \in Seq(Subscript), Len(ix) > 0,
         Len(ix) <= Len(a.shape), \A d \in DOMAIN ix : Fits(ix[d], a.shape[d]),
         Contiguous(ix[Len(ix)]), \A d \in 1 .. Len(ix) - 1 : ~IsSlice(ix[d]),
         NEW z \in Nat, \A d \in 1 .. Len(a.shape) : a.strides[d] \in Int,
         Follows(a.strides, a.shape, Times(RowMajor(a.shape), z))
  PROVE  Follows(ViewStrides(a, ix), ViewShape(a, ix), Times(RowMajor(ViewShape(a, ix)), z))
<1>1. PICK n \in Nat : n = Len(a.shape) /\ DOMAIN a.shape = 1 .. n
  OBVIOUS
<1>2. PICK m \in Nat : m = Len(ix) /\ DOMAIN ix = 1 .. m /\ m > 0 /\ m <= n
  BY <1>1
<1>3. PICK f \in Nat : f = (IF IsSlice(ix[m]) THEN m ELSE m + 1)
  OBVIOUS
<1>4. f >= 1 /\ f <= n + 1
  BY <1>2, <1>3
<1>5. \A d \in 1 .. n : Keeps(ix, d) <=> d \in f .. n
  <2> TAKE d \in 1 .. n
  <2>1. CASE d > m
    BY <1>2, <1>3, <2>1 DEF Keeps
  <2>2. CASE d = m
    BY <1>2, <1>3, <2>2 DEF Keeps
  <2>3. CASE d < m
    <3>1. d \in 1 .. Len(ix) - 1
      BY <1>2, <2>3
    <3>2. ~IsSlice(ix[d])
      BY <3>1
    <3> QED
      BY <1>2, <1>3, <2>3, <3>2 DEF Keeps
  <2> QED
    BY <2>1, <2>2, <2>3
<1>6. PICK l \in Nat : l = n - f + 1
  BY <1>4
<1>7. PICK kept : kept = Kept(a, ix)
  OBVIOUS
<1>8. Len(kept) = l /\ \A j \in 1 .. l : kept[j] = f + j - 1
  <2>1. KeepsFromTo(a, ix, f, n)
    BY <1>1, <1>4, <1>5 DEF KeepsFromTo
  <2>2. /\ Len(Kept(a, ix)) = n - f + 1
        /\ \A j \in 1 .. n - f + 1 : Kept(a, ix)[j] = f + j - 1
    BY <2>1, KeptInterval
  <2> QED
    BY ONLY <1>6, <1>7, <2>2
<1>9. PICK s \in Seq(Nat) : s = ViewShape(a, ix) /\ Len(s) = l /\ DOMAIN s = 1 .. l
  BY <1>7, <1>8, ViewShapeIs
<1>10. \A j \in 1 .. l : s[j] = IF kept[j] \in DOMAIN ix THEN Extent(ix[kept[j]])
                                ELSE a.shape[kept[j]]
  <2>1. \A j \in 1 .. Len(Kept(a, ix)) :
          ViewShape(a, ix)[j] = IF Kept(a, ix)[j] \in DOMAIN ix
                                THEN Extent(ix[Kept(a, ix)[j]])
                                ELSE a.shape[Kept(a, ix)[j]]
    BY ViewShapeIs
  <2> QED
    BY ONLY <1>7, <1>8, <1>9, <2>1
<1>11. ASSUME NEW j \in 1 .. l
       PROVE  /\ s[j] <= a.shape[f + j - 1] /\ Pace(ix, f + j - 1) = 1 /\ f + j - 1 \in 1 .. n
              /\ j > 1 => s[j] = a.shape[f + j - 1]
  <2>1. PICK d \in 1 .. n : d = f + j - 1 /\ d = kept[j]
    BY <1>4, <1>6, <1>8
  <2>2. CASE d \in DOMAIN ix
    <3>1. d = m /\ j = 1 /\ IsSlice(ix[m]) /\ ix[m] \in Subscript
      BY <1>2, <1>3, <2>1, <2>2
    <3>2. ix[m].step = 0
      BY <1>2, <3>1 DEF Contiguous
    <3>3. Fits(ix[m], a.shape[m]) /\ a.shape[m] \in Nat
      BY <1>1, <1>2, <3>1
    <3>4. Step(ix[m]) = 1
      BY <3>1, <3>2, <3>3, WholeSlice
    <3>5. Extent(ix[m]) <= a.shape[m]
      BY <3>1, <3>2, <3>3, WholeSlice
    <3>6. s[j] = Extent(ix[m])
      BY <1>10, <2>1, <2>2, <3>1
    <3> QED
      BY <2>1, <2>2, <3>1, <3>4, <3>5, <3>6 DEF Pace
  <2>3. CASE d \notin DOMAIN ix
    <3>1. s[j] = a.shape[d] /\ a.shape[d] \in Nat
      BY <1>1, <1>10, <2>1, <2>3
    <3> QED
      BY <2>1, <2>3, <3>1 DEF Pace
  <2> QED
    BY <2>2, <2>3
<1>12. PICK u : u = ViewStrides(a, ix)
  OBVIOUS
<1>15. \A j \in 1 .. l : u[j] = a.strides[f + j - 1]
  <2>1. DOMAIN Kept(a, ix) = 1 .. l
    BY <1>7, <1>8, KeptFacts
  <2>2. \A j \in 1 .. l : ViewStrides(a, ix)[j] = a.strides[f + j - 1] * 1
    BY <1>7, <1>8, <1>11, <2>1 DEF ViewStrides
  <2>3. \A j \in 1 .. l : a.strides[f + j - 1] \in Int
    BY <1>1, <1>11
  <2>4. \A x \in Int : x * 1 = x
    OBVIOUS
  <2> QED
    BY ONLY <1>12, <2>2, <2>3, <2>4
<1>13. CASE Product(a.shape) = 0
  <2>1. PICK d \in 1 .. n : a.shape[d] = 0
    BY <1>1, <1>13, ProductZero
  <2>2. d >= f
    <3>1. CASE d < f
      <4>1. d \in DOMAIN ix /\ ix[d] \in Subscript
        BY <1>2, <1>3, <3>1
      <4>2. ~IsSlice(ix[d])
        BY <1>2, <1>5, <3>1, <4>1 DEF Keeps
      <4>3. ix[d].at \in Nat /\ ix[d].at < a.shape[d]
        BY <4>1, <4>2, SubscriptIs DEF Fits
      <4> QED
        BY <2>1, <4>3
    <3> QED
      BY <3>1
  <2>3. PICK j \in 1 .. l : d = f + j - 1
    <3>1. d - f + 1 \in 1 .. l /\ d = f + (d - f + 1) - 1
      BY <1>6, <2>2
    <3> QED
      BY <3>1
  <2>4. s[j] <= 0 /\ s[j] \in Nat
    BY <1>9, <1>11, <2>1, <2>3
  <2>5. s[j] = 0
    BY <2>4
  <2>6. Product(s) = 0
    BY <1>9, <2>5, ProductZero
  <2> QED
    BY <1>9, <2>6 DEF Follows
<1>14. CASE Product(a.shape) # 0
  <2>1. \A j \in 1 .. l : RowMajor(s)[j] = RowMajor(a.shape)[f + j - 1]
    <3> TAKE j \in 1 .. l
    <3>1. PICK d \in 1 .. n : d = f + j - 1
      BY <1>11
    <3>2. RowMajor(s)[j] = Product(SubSeq(s, j + 1, l))
      BY <1>9 DEF RowMajor
    <3>3. RowMajor(a.shape)[d] = Product(SubSeq(a.shape, d + 1, n))
      BY <1>1 DEF RowMajor
    <3>4. /\ SubSeq(s, j + 1, l) \in Seq(Nat) /\ Len(SubSeq(s, j + 1, l)) = l - (j + 1) + 1
          /\ \A k \in 1 .. l - (j + 1) + 1 : SubSeq(s, j + 1, l)[k] = s[(j + 1) + k - 1]
      BY <1>9, PartOf
    <3>5. /\ SubSeq(a.shape, d + 1, n) \in Seq(Nat)
          /\ Len(SubSeq(a.shape, d + 1, n)) = n - (d + 1) + 1
          /\ \A k \in 1 .. n - (d + 1) + 1 : SubSeq(a.shape, d + 1, n)[k] = a.shape[(d + 1) + k - 1]
      BY <1>1, PartOf
    <3>6. PICK r \in Nat : r = l - (j + 1) + 1 /\ r = n - (d + 1) + 1
      BY <1>6, <3>1
    <3>7. ASSUME NEW k \in 1 .. r
          PROVE  SubSeq(s, j + 1, l)[k] = SubSeq(a.shape, d + 1, n)[k]
      <4>1. PICK o \in 1 .. l : o = (j + 1) + k - 1 /\ o > 1 /\ f + o - 1 = (d + 1) + k - 1
        BY <3>1, <3>6
      <4>2. s[o] = a.shape[f + o - 1]
        BY <1>11, <4>1
      <4> QED
        BY <3>4, <3>5, <3>6, <4>1, <4>2
    <3>8. SubSeq(s, j + 1, l) = SubSeq(a.shape, d + 1, n)
      <4>1. PICK p \in Seq(Nat) : p = SubSeq(s, j + 1, l) /\ Len(p) = r
        BY <3>4, <3>6
      <4>2. PICK q \in Seq(Nat) : q = SubSeq(a.shape, d + 1, n) /\ Len(q) = r
        BY <3>5, <3>6
      <4>3. \A k \in 1 .. Len(p) : p[k] = q[k]
        BY <3>7, <4>1, <4>2
      <4>4. p = q
        BY ONLY <4>1, <4>2, <4>3, SameSequence
      <4> QED
        BY ONLY <4>1, <4>2, <4>4
    <3> QED
      BY <3>1, <3>2, <3>3, <3>8
  <2>2. \A d \in 1 .. n : a.shape[d] > 1 => a.strides[d] = Times(RowMajor(a.shape), z)[d]
    BY <1>1, <1>14 DEF Follows
  <2>3. ASSUME NEW j \in 1 .. l, s[j] > 1
        PROVE  u[j] = Times(RowMajor(s), z)[j]
    <3>1. PICK d \in 1 .. n : d = f + j - 1
      BY <1>11
    <3>2. a.shape[d] > 1
      <4>1. s[j] <= a.shape[d]
        BY <1>11, <3>1
      <4>2. s[j] \in Nat
        BY <1>9
      <4>3. a.shape[d] \in Nat
        BY <1>1
      <4> QED
        BY ONLY <2>3, <4>1, <4>2, <4>3
    <3>3. u[j] = Times(RowMajor(a.shape), z)[d]
      BY <1>15, <2>2, <3>1, <3>2
    <3>4. /\ Times(RowMajor(a.shape), z)[d] = RowMajor(a.shape)[d] * z
          /\ Times(RowMajor(s), z)[j] = RowMajor(s)[j] * z
      <4>1. DOMAIN RowMajor(a.shape) = 1 .. n /\ DOMAIN RowMajor(s) = 1 .. l
        BY <1>1, <1>9 DEF RowMajor
      <4> QED
        BY <4>1 DEF Times
    <3> QED
      BY <2>1, <3>1, <3>3, <3>4
  <2> QED
    BY <1>9, <1>12, <1>15, <2>3 DEF Follows
<1> QED
  BY <1>13, <1>14

\* A view of an F array that stays contiguous keeps its first dimension alone.
LEMMA ColumnView ==
  ASSUME NEW a, a.shape \in Seq(Nat), NEW ix \in Seq(Subscript), Len(ix) > 0,
         Len(ix) = Len(a.shape), \A d \in DOMAIN ix : Fits(ix[d], a.shape[d]),
         Kept(a, ix) # <<>>, Contiguous(ix[1]), \A d \in 2 .. Len(ix) : ~IsSlice(ix[d]),
         NEW z \in Nat, \A d \in 1 .. Len(a.shape) : a.strides[d] \in Int,
         Follows(a.strides, a.shape, Times(ColumnMajor(a.shape), z))
  PROVE  Follows(ViewStrides(a, ix), ViewShape(a, ix), Times(ColumnMajor(ViewShape(a, ix)), z))
<1>1. PICK n \in Nat : n = Len(a.shape) /\ DOMAIN a.shape = 1 .. n /\ DOMAIN ix = 1 .. n /\ n > 0
  OBVIOUS
<1>2. 1 \in 1 .. n /\ ix[1] \in Subscript
  BY <1>1
<1>3. \A d \in 1 .. n : Keeps(ix, d) <=> d = 1 /\ IsSlice(ix[1])
  <2> TAKE d \in 1 .. n
  <2>1. CASE d = 1
    BY <1>1, <2>1 DEF Keeps
  <2>2. CASE d # 1
    <3>1. d \in 2 .. Len(ix)
      BY <1>1, <2>2
    <3>2. ~IsSlice(ix[d])
      BY <3>1
    <3> QED
      BY <1>1, <2>2, <3>1, <3>2 DEF Keeps
  <2> QED
    BY <2>1, <2>2
<1>4. IsSlice(ix[1])
  <2>1. CASE ~IsSlice(ix[1])
    <3>1. KeepsFromTo(a, ix, 1, 0)
      BY <1>1, <1>3, <2>1 DEF KeepsFromTo
    <3>2. Len(Kept(a, ix)) = 0 - 1 + 1
      BY <3>1, KeptInterval
    <3>3. Kept(a, ix) \in Seq(Nat)
      BY KeptFacts
    <3>4. \A q \in Seq(Nat) : Len(q) = 0 => q = <<>>
      OBVIOUS
    <3> QED
      BY <3>2, <3>3, <3>4
  <2> QED
    BY <2>1
<1>5. Len(Kept(a, ix)) = 1 /\ Kept(a, ix)[1] = 1
  <2>1. PICK f \in Nat : f = 1
    OBVIOUS
  <2>2. KeepsFromTo(a, ix, f, f)
    BY <1>1, <1>3, <1>4, <2>1 DEF KeepsFromTo
  <2>3. /\ Len(Kept(a, ix)) = f - f + 1
        /\ \A j \in 1 .. f - f + 1 : Kept(a, ix)[j] = f + j - 1
    BY <2>2, KeptInterval
  <2> QED
    BY ONLY <2>1, <2>3
<1>6. PICK s \in Seq(Nat) : s = ViewShape(a, ix) /\ Len(s) = 1 /\ DOMAIN s = {1}
  <2>1. ViewShape(a, ix) \in Seq(Nat) /\ Len(ViewShape(a, ix)) = 1
    BY <1>5, ViewShapeIs
  <2> QED
    BY <2>1
<1>14. s[1] \in Nat
  <2>1. s \in Seq(Nat) /\ 1 \in 1 .. Len(s)
    BY <1>6
  <2> QED
    BY ONLY <2>1
<1>7. s[1] = Extent(ix[1])
  <2>1. \A j \in 1 .. Len(Kept(a, ix)) :
          ViewShape(a, ix)[j] = IF Kept(a, ix)[j] \in DOMAIN ix
                                THEN Extent(ix[Kept(a, ix)[j]])
                                ELSE a.shape[Kept(a, ix)[j]]
    BY ViewShapeIs
  <2> QED
    BY ONLY <1>1, <1>2, <1>5, <1>6, <2>1
<1>8. Fits(ix[1], a.shape[1]) /\ a.shape[1] \in Nat /\ ix[1].step = 0
  BY <1>1, <1>2, <1>4 DEF Contiguous
<1>9. Step(ix[1]) = 1 /\ s[1] <= a.shape[1]
  BY <1>2, <1>4, <1>7, <1>8, WholeSlice
<1>10. ViewStrides(a, ix)[1] = a.strides[1]
  <2>1. DOMAIN Kept(a, ix) = {1}
    BY <1>5, KeptFacts
  <2>2. Pace(ix, 1) = 1
    BY <1>1, <1>2, <1>9 DEF Pace
  <2>3. ViewStrides(a, ix)[1] = a.strides[1] * 1
    BY <1>5, <2>1, <2>2 DEF ViewStrides
  <2>4. a.strides[1] \in Int
    BY <1>1, <1>2
  <2>5. \A x \in Int : x * 1 = x
    OBVIOUS
  <2> QED
    BY ONLY <2>3, <2>4, <2>5
<1>11. \A q \in Seq(Nat) : Len(q) > 0 => Times(ColumnMajor(q), z)[1] = 1 * z
  <2> TAKE q \in Seq(Nat)
  <2>1. DOMAIN ColumnMajor(q) = 1 .. Len(q)
    BY DEF ColumnMajor
  <2>2. Len(q) > 0 => 1 \in 1 .. Len(q) /\ ColumnMajor(q)[1] = 1
    BY ColumnMajorIs
  <2> QED
    BY <2>1, <2>2 DEF Times
<1>12. CASE Product(a.shape) = 0
  <2>1. PICK d \in 1 .. n : a.shape[d] = 0
    BY <1>1, <1>12, ProductZero
  <2>2. d = 1
    <3>1. CASE d # 1
      <4>0. d \in DOMAIN ix /\ d \in 2 .. Len(ix)
        BY <1>1, <3>1
      <4>1. ix[d] \in Subscript /\ ~IsSlice(ix[d]) /\ Fits(ix[d], a.shape[d])
        BY <4>0
      <4>2. ix[d].at \in Nat /\ ix[d].at < a.shape[d]
        BY <4>1, SubscriptIs DEF Fits
      <4> QED
        BY <2>1, <4>2
    <3> QED
      BY <3>1
  <2>3. s[1] \in Nat /\ a.shape[1] = 0 /\ s[1] <= a.shape[1]
    BY <1>9, <1>14, <2>1, <2>2
  <2>4. s[1] = 0 /\ 1 \in 1 .. Len(s)
    BY <1>6, <2>3
  <2>5. Product(s) = 0
    BY <2>4, ProductZero
  <2> QED
    BY <1>6, <2>5 DEF Follows
<1>13. CASE Product(a.shape) # 0
  <2>1. a.shape[1] > 1 => a.strides[1] = Times(ColumnMajor(a.shape), z)[1]
    BY <1>1, <1>2, <1>13 DEF Follows
  <2>2. s[1] > 1 => a.shape[1] > 1
    BY ONLY <1>8, <1>9, <1>14
  <2>3. Times(ColumnMajor(a.shape), z)[1] = Times(ColumnMajor(s), z)[1]
    <3>1. s \in Seq(Nat) /\ Len(s) > 0 /\ a.shape \in Seq(Nat) /\ Len(a.shape) > 0
      BY <1>1, <1>6
    <3> QED
      BY ONLY <1>11, <3>1
  <2>4. s[1] > 1 => ViewStrides(a, ix)[1] = Times(ColumnMajor(s), z)[1]
    BY <1>10, <2>1, <2>2, <2>3
  <2> QED
    BY <1>6, <2>4 DEF Follows
<1> QED
  BY <1>12, <1>13

----------------------------------------------------------------------------
(* Powers of 2, and integers modulo them *)

Twos == [k \in Nat |-> 2]
Powers(n) == CHOOSE p : IsProduct(p, n, Twos)

LEMMA PowersAre ==
  ASSUME NEW n \in Nat
  PROVE  /\ IsProduct(Powers(n), n, Twos)
         /\ Powers(n + 1)[n + 1] = 2 * Powers(n)[n]
         /\ Powers(n)[n] \in Nat
<1>1. \A m \in Nat : IsProduct(Powers(m), m, Twos)
  <2> TAKE m \in Nat
  <2>1. \A k \in 1 .. m : Twos[k] \in Nat
    BY DEF Twos
  <2>2. \E p : IsProduct(p, m, Twos)
    BY <2>1, ProductExists
  <2> QED
    BY <2>2 DEF Powers
<1>2. PICK p : p = Powers(n + 1)
  OBVIOUS
<1>3. IsProduct(p, n + 1, Twos) /\ n + 1 \in Nat
  BY <1>1, <1>2
<1>4. p[n + 1] = p[n] * 2 /\ p[n] \in Nat
  <2>1. n + 1 \in 1 .. n + 1 /\ (n + 1) - 1 = n /\ Twos[n + 1] = 2 /\ n \in 0 .. n + 1
    BY DEF Twos
  <2> QED
    BY <1>3, <2>1 DEF IsProduct
<1>5. PICK q : q = [k \in 0 .. n |-> p[k]]
  OBVIOUS
<1>6. IsProduct(q, n, Twos)
  <2>1. \A k \in 0 .. n : k \in 0 .. n + 1 /\ p[k] \in Nat
    BY <1>3 DEF IsProduct
  <2>2. \A k \in 1 .. n : k \in 1 .. n + 1 /\ k - 1 \in 0 .. n /\ k \in 0 .. n
    OBVIOUS
  <2>3. \A k \in 1 .. n : p[k] = p[k - 1] * Twos[k]
    BY <1>3, <2>2 DEF IsProduct
  <2>4. p[0] = 1 /\ 0 \in 0 .. n
    BY <1>3 DEF IsProduct
  <2> QED
    BY <1>5, <2>1, <2>2, <2>3, <2>4 DEF IsProduct
<1>7. \A k \in 0 .. n : q[k] = Powers(n)[k]
  <2>1. IsProduct(Powers(n), n, Twos) /\ \A k \in 1 .. n : Twos[k] = Twos[k]
    BY <1>1
  <2> QED
    BY <1>6, <2>1, ProductsAgree
<1>8. p[n] = Powers(n)[n]
  <2>1. n \in 0 .. n
    OBVIOUS
  <2> QED
    BY <1>5, <1>7, <2>1
<1>9. p[n] * 2 = 2 * p[n]
  BY <1>4
<1> QED
  BY <1>1, <1>2, <1>4, <1>8, <1>9

LEMMA Pow2Is ==
  /\ Pow2[0] = 1
  /\ \A n \in Nat : Pow2[n] \in Nat /\ Pow2[n + 1] = 2 * Pow2[n]
<1> DEFINE f == [n \in Nat |-> Powers(n)[n]]
<1>1. f[0] = 1
  <2>1. IsProduct(Powers(0), 0, Twos)
    BY PowersAre
  <2> QED
    BY <2>1 DEF IsProduct
<1>2. \A n \in Nat : f[n] \in Nat /\ f[n + 1] = 2 * f[n]
  BY PowersAre
<1>3. f = [n \in Nat |-> f[n]]
  OBVIOUS
<1> HIDE DEF f
<1>4. ASSUME NEW n \in Nat PROVE f[n] = IF n = 0 THEN 1 ELSE 2 * f[n - 1]
  <2>1. CASE n = 0
    BY <1>1, <2>1
  <2>2. CASE n # 0
    <3>1. PICK m \in Nat : m = n - 1 /\ n = m + 1
      BY <2>2
    <3> QED
      BY <1>2, <2>2, <3>1
  <2> QED
    BY <2>1, <2>2
<1>5. f = [n \in Nat |-> IF n = 0 THEN 1 ELSE 2 * f[n - 1]]
  BY <1>3, <1>4
<1>6. Pow2 = [n \in Nat |-> IF n = 0 THEN 1 ELSE 2 * Pow2[n - 1]]
  BY <1>5 DEF Pow2
<1>7. Pow2[0] = 1 /\ \A n \in Nat : Pow2[n + 1] = 2 * Pow2[n]
  <2>1. Pow2[0] = 1
    BY <1>6
  <2>2. ASSUME NEW n \in Nat PROVE Pow2[n + 1] = 2 * Pow2[n]
    <3>1. n + 1 \in Nat /\ n + 1 # 0 /\ (n + 1) - 1 = n
      OBVIOUS
    <3> QED
      BY <1>6, <3>1
  <2> QED
    BY <2>1, <2>2
<1>8. ASSUME NEW n \in Nat PROVE Pow2[n] \in Nat
  <2> DEFINE S == {k \in 0 .. n : Pow2[k] \in Nat}
  <2>1. 0 \in S
    BY <1>7
  <2>2. \A k \in 0 .. n - 1 : k \in S => k + 1 \in S
    BY <1>7
  <2>3. n \in S
    <3>1. \A k \in 0 .. n : k \in S
      <4> HIDE DEF S
      <4> QED
        BY <2>1, <2>2, Steps
    <3>2. n \in 0 .. n
      OBVIOUS
    <3> HIDE DEF S
    <3> QED
      BY <3>1, <3>2
  <2> QED
    BY <2>3
<1> QED
  BY <1>7, <1>8

LEMMA Pow2Sum ==
  ASSUME NEW m \in Nat, NEW n \in Nat
  PROVE  Pow2[m + n] = Pow2[m] * Pow2[n] /\ Pow2[n] > 0
<1> DEFINE S == {k \in 0 .. n : Pow2[m + k] = Pow2[m] * Pow2[k] /\ Pow2[k] > 0}
<1>1. 0 \in S
  BY Pow2Is
<1>2. ASSUME NEW k \in 0 .. n - 1, k \in S PROVE k + 1 \in S
  <2>1. PICK a \in Nat, b \in Nat : a = Pow2[m] /\ b = Pow2[k] /\ b > 0
    BY <1>2, Pow2Is
  <2>2. Pow2[m + k] = a * b
    BY <1>2, <2>1
  <2>3. Pow2[(m + k) + 1] = 2 * (a * b) /\ Pow2[k + 1] = 2 * b
    <3>1. m + k \in Nat /\ k \in Nat
      OBVIOUS
    <3> QED
      BY <2>1, <2>2, <3>1, Pow2Is
  <2>4. 2 * (a * b) = a * (2 * b) /\ 2 * b > 0
    BY <2>1
  <2>5. (m + k) + 1 = m + (k + 1) /\ k + 1 \in 0 .. n
    OBVIOUS
  <2> QED
    BY <2>1, <2>3, <2>4, <2>5
<1>3. n \in S
  <2>1. \A k \in 0 .. n : k \in S
    <3> HIDE DEF S
    <3> QED
      BY <1>1, <1>2, Steps
  <2>2. n \in 0 .. n
    OBVIOUS
  <2> HIDE DEF S
  <2> QED
    BY <2>1, <2>2
<1> QED
  BY <1>3

\* Remainders.
LEMMA Remainder ==
  ASSUME NEW a \in Int, NEW p \in Nat, p > 0
  PROVE  a % p \in 0 .. p - 1 /\ \E q \in Int : a = q * p + (a % p)
<1>1. PICK q : q = a \div p
  OBVIOUS
<1>2. q \in Int /\ a % p \in 0 .. p - 1
  BY <1>1
<1>3. a = p * q + (a % p)
  BY <1>1
<1>4. p * q = q * p
  BY <1>2
<1>5. a = q * p + (a % p)
  BY ONLY <1>3, <1>4
<1> QED
  BY ONLY <1>1, <1>2, <1>5

LEMMA OneRemainder ==
  ASSUME NEW p \in Nat, p > 0, NEW q \in Int, NEW r \in 0 .. p - 1
  PROVE  (q * p + r) % p = r
<1>1. PICK a \in Int : a = q * p + r
  OBVIOUS
<1>2. PICK u \in Int, v \in 0 .. p - 1 : v = a % p /\ a = u * p + v
  BY Remainder
<1>3. q * p \in Int /\ u * p \in Int
  OBVIOUS
<1>4. u < q => u * p + p <= q * p
  BY Raised
<1>5. q < u => q * p + p <= u * p
  BY Raised
<1>6. u = q
  BY <1>1, <1>2, <1>3, <1>4, <1>5
<1> QED
  BY <1>1, <1>2, <1>3, <1>6

\* A multiple of the divisor does not count.
LEMMA Congruent ==
  ASSUME NEW p \in Nat, p > 0, NEW a \in Int, NEW k \in Int
  PROVE  (a + k * p) % p = a % p
<1>1. PICK u \in Int, v \in 0 .. p - 1 : v = a % p /\ a = u * p + v
  BY Remainder
<1>2. a + k * p = (u + k) * p + v
  <2>1. (u + k) * p = u * p + k * p /\ u * p \in Int /\ k * p \in Int
    BY Distributive
  <2> QED
    BY <1>1, <2>1
<1>3. u + k \in Int
  OBVIOUS
<1>4. ((u + k) * p + v) % p = v
  BY <1>3, OneRemainder
<1> QED
  BY <1>1, <1>2, <1>4

LEMMA SignedIs ==
  ASSUME NEW m \in Int, NEW w \in Nat, w > 0
  PROVE  /\ Signed(m, w) \in Int /\ \E k \in Int : Signed(m, w) = m + k * Pow2[w]
         /\ -Pow2[w - 1] <= m /\ m < Pow2[w - 1] => Signed(m, w) = m
<1>1. PICK h \in Nat : h = Pow2[w - 1] /\ Pow2[w] = 2 * h /\ h > 0
  <2>1. w - 1 \in Nat /\ (w - 1) + 1 = w
    OBVIOUS
  <2>2. Pow2[w - 1] \in Nat /\ Pow2[w] = 2 * Pow2[w - 1]
    BY <2>1, Pow2Is
  <2>3. Pow2[w - 1] > 0
    BY <2>1, Pow2Sum
  <2> QED
    BY <2>2, <2>3
<1>2. PICK p \in Nat : p = Pow2[w] /\ p = 2 * h /\ p > 0
  BY <1>1
<1>3. m + h \in Int
  OBVIOUS
<1>4. PICK u \in Int, v \in 0 .. p - 1 : v = (m + h) % p /\ m + h = u * p + v
  BY <1>2, <1>3, Remainder
<1>5. Signed(m, w) = v - h
  BY <1>1, <1>2, <1>4 DEF Signed, Unsigned
<1>6. Signed(m, w) = m + (-u) * p
  <2>1. (-u) * p = -(u * p) /\ u * p \in Int
    OBVIOUS
  <2>2. PICK c \in Int : c = u * p
    OBVIOUS
  <2>3. v - h = m + -c
    <3>1. m + h = c + v
      BY <1>4, <2>2
    <3>2. m \in Int /\ h \in Int /\ c \in Int /\ v \in Int
      OBVIOUS
    <3> QED
      BY ONLY <3>1, <3>2
  <2> QED
    BY ONLY <1>5, <2>1, <2>2, <2>3
<1>7. -h <= m /\ m < h => Signed(m, w) = m
  <2>1. ASSUME -h <= m, m < h PROVE Signed(m, w) = m
    <3>1. m + h \in 0 .. p - 1 /\ 0 * p + (m + h) = m + h
      BY <1>2, <2>1
    <3>2. (0 * p + (m + h)) % p = m + h
      BY <1>2, <3>1, OneRemainder
    <3>3. v = m + h
      BY <1>4, <3>1, <3>2
    <3> QED
      BY <1>5, <3>3
  <2> QED
    BY <2>1
<1>8. -u \in Int /\ v - h \in Int
  OBVIOUS
<1> QED
  BY <1>1, <1>2, <1>5, <1>6, <1>7, <1>8

\* An integer that was cut to b bits is cut to fewer as it would have been before.
LEMMA SignedAgain ==
  ASSUME NEW m \in Int, NEW b \in Nat, NEW w \in Nat, w > 0, w <= b
  PROVE  /\ Signed(Signed(m, b), w) = Signed(m, w)
         /\ Unsigned(Signed(m, b), w) = Unsigned(m, w)
<1>1. PICK k \in Int : Signed(m, b) = m + k * Pow2[b]
  <2>1. b > 0
    OBVIOUS
  <2>2. \E k \in Int : Signed(m, b) = m + k * Pow2[b]
    BY <2>1, SignedIs
  <2> QED
    BY <2>2
<1>2. PICK p \in Nat, q \in Nat : p = Pow2[w] /\ q = Pow2[b - w] /\ p > 0
  <2>1. b - w \in Nat
    OBVIOUS
  <2> QED
    BY <2>1, Pow2Is, Pow2Sum
<1>3. Pow2[b] = q * p
  <2>1. b - w \in Nat /\ (b - w) + w = b
    OBVIOUS
  <2>2. Pow2[(b - w) + w] = Pow2[b - w] * Pow2[w]
    BY <2>1, Pow2Sum
  <2> QED
    BY <1>2, <2>1, <2>2
<1>4. PICK c \in Int : c = k * q
  OBVIOUS
<1>5. Signed(m, b) = m + c * p
  <2>1. k * (q * p) = (k * q) * p
    BY Associative
  <2> QED
    BY <1>1, <1>3, <1>4, <2>1
<1>6. (m + c * p) % p = m % p
  BY <1>2, Congruent
<1>7. PICK h \in Int : h = Pow2[w - 1]
  <2>1. w - 1 \in Nat
    OBVIOUS
  <2> QED
    BY <2>1, Pow2Is
<1>8. ((m + c * p) + h) % p = (m + h) % p
  <2>1. m + h \in Int /\ c * p \in Int
    OBVIOUS
  <2>2. ((m + h) + c * p) % p = (m + h) % p
    BY <1>2, <2>1, Congruent
  <2>3. (m + h) + c * p = (m + c * p) + h
    BY <2>1
  <2> QED
    BY <2>2, <2>3
<1> QED
  BY <1>2, <1>5, <1>6, <1>7, <1>8 DEF Signed, Unsigned

LEMMA TruncatedIs ==
  ASSUME NEW x \in Int
  PROVE  Truncated(2 * x) = x /\ Truncated(x) \in Int
<1>1. (x * 2) \div 2 = x
  BY Quotient
<1>2. -x \in Int /\ ((-x) * 2) \div 2 = -x
  BY Quotient
<1>3. x * 2 = 2 * x /\ (-x) * 2 = -(2 * x) /\ (2 * x < 0 <=> x < 0)
  OBVIOUS
<1>4. Truncated(2 * x) = IF 2 * x < 0 THEN -((-(2 * x)) \div 2) ELSE (2 * x) \div 2
  BY DEF Truncated
<1>5. (2 * x) \div 2 = x /\ (-(2 * x)) \div 2 = -x
  BY ONLY <1>1, <1>2, <1>3
<1>6. -(-x) = x
  OBVIOUS
<1>7. Truncated(2 * x) = x
  BY ONLY <1>4, <1>5, <1>6
<1>8. Truncated(x) \in Int
  <2>1. x \div 2 \in Int /\ (-x) \div 2 \in Int
    OBVIOUS
  <2> QED
    BY <2>1 DEF Truncated
<1> QED
  BY <1>7, <1>8

----------------------------------------------------------------------------
(* Fills *)

Passing == {"int64", "uint64", "float64"}

\* The bits of a value, as an integer of 64 bits.
LEMMA RawIs ==
  ASSUME NEW v \in Values, v.ty \in Passing
  PROVE  /\ v.ty = "float64" => Raw(v) = v.num
         /\ v.ty # "float64" => \E m \in Int : /\ v.num = 2 * m /\ v.num \div 2 = m
                                               /\ Raw(v) = 2 * Signed(m, Bits[3])
                                               /\ v.ty = "int64" => Signed(m, Bits[3]) = m
<1>1. v.ty = "float64" => Raw(v) = v.num
  BY DEF Raw
<1>2. PICK b \in Nat : b = Bits[3] /\ b > 0
  BY ArrayAssumption
<1>3. ASSUME v.ty # "float64"
      PROVE  \E m \in Int : /\ v.num = 2 * m /\ v.num \div 2 = m
                            /\ Raw(v) = 2 * Signed(m, b)
                            /\ v.ty = "int64" => Signed(m, b) = m
  <2>1. PICK h \in Nat, p \in Nat : h = Pow2[b - 1] /\ p = Pow2[b]
    <3>1. b - 1 \in Nat
      BY <1>2
    <3> QED
      BY <3>1, Pow2Is
  <2>2. PICK m \in Int : v.num = 2 * m /\ (v.ty = "int64" => -h <= m /\ m < h)
    <3>1. CASE v.ty = "int64"
      <4>1. PICK m \in -h .. h - 1 : v.num = 2 * m
        BY <1>2, <2>1, <3>1 DEF Values
      <4>2. m \in Int /\ -h <= m /\ m < h
        BY <4>1
      <4> QED
        BY <4>1, <4>2
    <3>2. CASE v.ty = "uint64"
      <4>1. PICK m \in 0 .. p - 1 : v.num = 2 * m
        BY <1>2, <2>1, <3>2 DEF Values
      <4>2. m \in Int
        BY <4>1
      <4> QED
        BY <3>2, <4>1, <4>2
    <3> QED
      BY <1>3, <3>1, <3>2 DEF Passing
  <2>3. v.num \div 2 = m
    <3>1. (m * 2) \div 2 = m /\ m * 2 = 2 * m
      BY Quotient
    <3> QED
      BY <2>2, <3>1
  <2>4. Raw(v) = 2 * Signed(m, b)
    BY <1>2, <1>3, <2>3 DEF Raw
  <2>5. v.ty = "int64" => Signed(m, b) = m
    BY <1>2, <2>1, <2>2, SignedIs
  <2> QED
    BY <2>2, <2>3, <2>4, <2>5
<1> QED
  BY <1>1, <1>2, <1>3

\* What the pattern holds is what was asked for, wherever the fill can hold it.
LEMMA FillHolds ==
  ASSUME NEW t \in Dtypes, NEW v \in Values, v.ty \in Passing, ~FillFails(t),
         NEW b, b.asked = v, b.fill = Pattern(t, v), Fillable(b, t)
  PROVE  Asked(t, v) \in Decode(t, b.fill)
<1>1. t.exp \in 0 .. 3 /\ t.kind \in {"int", "uint", "float", "complex"}
  BY DEF FillFails, Dtypes
<1>2. PICK w \in Nat, z \in Nat : w = Bits[t.exp] /\ z = Bits[3] /\ w > 0 /\ w <= z /\ z > 0
  BY <1>1, ArrayAssumption
<1>3. v.num \in Int
  BY DEF Values
<1>4. PICK n \in Int : n = Truncated(Raw(v))
  <2>1. CASE v.ty = "float64"
    BY <1>3, <2>1, RawIs, TruncatedIs
  <2>2. CASE v.ty # "float64"
    <3>1. PICK m \in Int : Raw(v) = 2 * Signed(m, z)
      BY <1>2, <2>2, RawIs
    <3>2. Signed(m, z) \in Int
      BY <1>2, SignedIs
    <3> QED
      BY <3>1, <3>2, TruncatedIs
  <2> QED
    BY <2>1, <2>2
<1>5. PICK p : p = Pattern(t, v)
  OBVIOUS
<1>6. CASE t.kind = "float"
  <2>1. p = [as |-> "float", num |-> Raw(v)]
    BY <1>5, <1>6 DEF Pattern
  <2>2. Decode(t, p) = {Raw(v)}
    BY <1>6, <2>1 DEF Decode
  <2>3. Raw(v) = v.num
    <3>1. CASE v.ty = "float64"
      BY <3>1, RawIs
    <3>2. CASE v.ty # "float64"
      <4>1. PICK m \in Int : /\ v.num = 2 * m /\ v.num \div 2 = m /\ Raw(v) = 2 * Signed(m, z)
                             /\ v.ty = "int64" => Signed(m, z) = m
        BY <1>2, <3>2, RawIs
      <4>2. CASE v.ty = "int64"
        BY <4>1, <4>2
      <4>3. CASE v.ty = "uint64"
        <5>1. PICK h \in Nat : h = Pow2[z - 1]
          <6>1. z - 1 \in Nat
            BY <1>2
          <6> QED
            BY <6>1, Pow2Is
        <5>2. m < h
          BY <1>2, <1>6, <4>1, <4>3, <5>1 DEF Fillable
        <5>3. m >= 0
          <6>1. PICK k \in 0 .. Pow2[Bits[3]] - 1 : v.num = 2 * k
            BY <4>3 DEF Values
          <6>2. k \in Int /\ k >= 0
            BY <1>2, <6>1, Pow2Is
          <6> QED
            BY <4>1, <6>1, <6>2
        <5>4. -h <= m
          BY <5>1, <5>3
        <5>5. Signed(m, z) = m
          BY <1>2, <5>1, <5>2, <5>4, SignedIs
        <5> QED
          BY <4>1, <5>5
      <4> QED
        BY <3>2, <4>2, <4>3 DEF Passing
    <3> QED
      BY <3>1, <3>2
  <2> QED
    BY <1>5, <1>6, <2>2, <2>3 DEF Asked
<1>7. CASE t.kind # "float"
  <2>1. PICK s \in Int : s = Signed(n, w)
    BY <1>2, SignedIs
  <2>2. p = IF v.ty # "float64" \/ s = n THEN [as |-> "int", num |-> s]
            ELSE [as |-> "anything", num |-> 0]
    BY <1>2, <1>4, <1>5, <1>7, <2>1 DEF Pattern
  <2>3. /\ s = Signed(Truncated(v.num), w)
        /\ Unsigned(s, w) = Unsigned(Truncated(v.num), w)
        /\ v.num = 0 => s = 0 /\ n = 0
    <3>0. Signed(0, w) = 0 /\ Signed(0, z) = 0
      <4>1. \A x \in Nat : x > 0 => Signed(0, x) = 0
        <5> TAKE x \in Nat
        <5>1. x > 0 => Pow2[x - 1] \in Nat /\ Pow2[x - 1] > 0
          <6>1. x > 0 => x - 1 \in Nat
            OBVIOUS
          <6> QED
            BY <6>1, Pow2Is, Pow2Sum
        <5>2. x > 0 => -Pow2[x - 1] <= 0 /\ 0 < Pow2[x - 1]
          BY <5>1
        <5> QED
          BY <5>2, SignedIs
      <4> QED
        BY <1>2, <4>1
    <3>1. CASE v.ty = "float64"
      <4>1. Raw(v) = v.num
        BY <3>1, RawIs
      <4>2. n = Truncated(v.num)
        BY <1>4, <4>1
      <4>3. Unsigned(s, w) = Unsigned(n, w)
        BY <1>2, <2>1, SignedAgain
      <4>4. v.num = 0 => n = 0
        <5>1. Truncated(2 * 0) = 0 /\ 2 * 0 = 0
          BY TruncatedIs
        <5> QED
          BY <4>2, <5>1
      <4> QED
        BY <2>1, <3>0, <4>2, <4>3, <4>4
    <3>2. CASE v.ty # "float64"
      <4>1. PICK m \in Int : v.num = 2 * m /\ Raw(v) = 2 * Signed(m, z)
        BY <1>2, <3>2, RawIs
      <4>2. Signed(m, z) \in Int
        BY <1>2, SignedIs
      <4>3. n = Signed(m, z) /\ Truncated(v.num) = m
        BY <1>4, <4>1, <4>2, TruncatedIs
      <4>4. s = Signed(m, w)
        BY <1>2, <2>1, <4>3, SignedAgain
      <4>5. Unsigned(s, w) = Unsigned(m, w)
        BY <1>2, <4>4, SignedAgain
      <4>6. v.num = 0 => m = 0
        BY <4>1
      <4> QED
        BY <3>0, <4>3, <4>4, <4>5, <4>6
    <3> QED
      BY <3>1, <3>2
  <2>4. CASE t.kind = "complex"
    <3>1. v.num = 0
      BY <2>4 DEF Fillable
    <3>2. p = [as |-> "int", num |-> 0]
      BY <2>2, <2>3, <3>1
    <3>3. Decode(t, p) = {0}
      BY <2>4, <3>2 DEF Decode
    <3> QED
      BY <1>5, <2>4, <3>1, <3>3 DEF Asked
  <2>5. CASE t.kind \in {"int", "uint"}
    <3>1. p = [as |-> "int", num |-> s]
      <4>1. CASE v.ty = "float64"
        <5>1. Signed(Truncated(v.num), w) = Truncated(v.num)
          BY <1>2, <2>5, <4>1 DEF Fillable
        <5>2. n = Truncated(v.num)
          BY <1>4, <4>1, RawIs
        <5> QED
          BY <2>1, <2>2, <5>1, <5>2
      <4>2. CASE v.ty # "float64"
        BY <2>2, <4>2
      <4> QED
        BY <4>1, <4>2
    <3>2. CASE t.kind = "int"
      <4>1. Decode(t, p) = {2 * s}
        BY <3>1, <3>2 DEF Decode
      <4> QED
        BY <1>2, <1>5, <2>3, <3>2, <4>1 DEF Asked
    <3>3. CASE t.kind = "uint"
      <4>1. Decode(t, p) = {2 * Unsigned(s, w)}
        BY <1>2, <3>1, <3>3 DEF Decode
      <4> QED
        BY <1>2, <1>5, <2>3, <3>3, <4>1 DEF Asked
    <3> QED
      BY <2>5, <3>2, <3>3
  <2> QED
    BY <1>1, <1>7, <2>4, <2>5
<1> QED
  BY <1>6, <1>7

----------------------------------------------------------------------------
(* The inductive invariant *)

\* Distinct items of a block.
Apart(means, z, size) ==
  \A i \in DOMAIN means :
    /\ means[i] \in 0 .. size - z
    /\ \A j \in DOMAIN means \ {i} : means[j] >= means[i] + z \/ means[i] >= means[j] + z

\* Whether the program's own arrays have each element in a place of its own: those
\* that dpctl broadcasts do not.
ItemsApart ==
  \A n \in DOMAIN Arguments :
    LET o == Arguments[n]
        z == ItemSize(o.dtype)
    IN  Apart([i \in Indices(o.shape) |-> At(o.data, i, Times(o.strides, z))], z, o.size)

MeansOf == UNION {[Indices(s) -> Int] : s \in Seq(Nat)}
Arrays ==
  [class : Classes, dtype : Dtypes, layout : Layouts, block : Nat, data : Int, shape : Seq(Nat),
   strides : Seq(Int), itemsize : Nat, parent : Nat, queue : {"queue", "null"}, means : MeansOf]
Objects ==
  [class : Classes, block : Nat, data : Int, shape : Seq(Nat), dtype : Dtypes,
   strides : Seq(Int), means : MeansOf]
Fills == [as : {"float", "int", "anything"}, num : Int]
Blocks ==
  [size : Nat, fill : {NoFill}]
    \cup [size : Nat, fill : Fills, item : Nat, count : Nat, asked : Values]

\* A block that was filled as items of type t.
FilledAs(b, t) ==
  /\ b.asked \in Values /\ b.asked.ty \in Passing /\ ~FillFails(t)
  /\ b.fill = Pattern(t, b.asked) /\ b.item = ItemSize(t) /\ b.count = FillCount(b.size, t)

\* The elements of an array in its block.
ElementsIn(t, means, b) ==
  /\ b.fill # NoFill =>
       /\ FilledAs(b, t)
       /\ \A i \in DOMAIN means : /\ means[i] \in 0 .. b.size - ItemSize(t)
                                  /\ means[i] % ItemSize(t) = 0
  /\ ItemsApart => Apart(means, ItemSize(t), b.size)

Shaped(a) ==
  /\ Len(a.shape) > 0 /\ Len(a.strides) = Len(a.shape) /\ a.itemsize = ItemSize(a.dtype)
  /\ \A d \in 1 .. Len(a.shape) : a.strides[d] = (a.strides[d] \div a.itemsize) * a.itemsize
  /\ a.layout = "C" => Follows(a.strides, a.shape, Times(RowMajor(a.shape), a.itemsize))
  /\ a.layout = "F" => Follows(a.strides, a.shape, Times(ColumnMajor(a.shape), a.itemsize))
  /\ a.means = [i \in Indices(a.shape) |-> At(a.data, i, a.strides)]

ArrayOK(a, objs, bs) ==
  /\ a \in Arrays /\ Shaped(a)
  /\ a.block \in DOMAIN bs /\ ElementsIn(a.dtype, a.means, bs[a.block])
  /\ a.parent # 0 => a.parent \in DOMAIN objs /\ objs[a.parent].dtype = a.dtype

ObjectOK(o, bs) ==
  /\ o \in Objects /\ (o.strides # Null => Len(o.strides) = Len(o.shape))
  /\ o.means = [i \in Indices(o.shape) |-> PythonAddress(o, i)]
  /\ o.block \in DOMAIN bs /\ ElementsIn(o.dtype, o.means, bs[o.block])

ReturnedOK(r, objs) ==
  r # Nothing => /\ r.object \in DOMAIN objs
                 /\ objs[r.object].means = r.means /\ objs[r.object].dtype = r.dtype

IInv ==
  /\ objects # <<>> /\ objects \in Seq(Objects) /\ blocks \in Seq(Blocks) /\ frame \in Seq(Arrays)
  /\ \A n \in DOMAIN objects : ObjectOK(objects[n], blocks)
  /\ \A n \in DOMAIN frame : ArrayOK(frame[n], objects, blocks)
  /\ ReturnedOK(returned, objects)
  /\ raised \in Errors \cup {"none"}

LEMMA ItemSizeIs ==
  ASSUME NEW t \in Dtypes
  PROVE  ItemSize(t) \in Nat /\ ItemSize(t) > 0
<1>1. t.exp \in Nat
  BY DEF Dtypes
<1> QED
  BY <1>1, Pow2Is, Pow2Sum DEF ItemSize

LEMMA TimesIs ==
  ASSUME NEW s \in Seq(Int), NEW z \in Int
  PROVE  /\ Times(s, z) \in Seq(Int) /\ Len(Times(s, z)) = Len(s)
         /\ \A d \in 1 .. Len(s) : Times(s, z)[d] = s[d] * z /\ s[d] * z \in Int
<1>1. PICK n \in Nat : n = Len(s) /\ DOMAIN s = 1 .. n
  OBVIOUS
<1>2. \A d \in 1 .. n : s[d] * z \in Int
  BY <1>1
<1>3. Times(s, z) = [d \in 1 .. n |-> s[d] * z]
  BY <1>1 DEF Times
<1> QED
  BY <1>1, <1>2, <1>3

\* The strides of both layouts are sequences.
LEMMA OrdersAre ==
  ASSUME NEW s \in Seq(Nat)
  PROVE  /\ RowMajor(s) \in Seq(Int) /\ Len(RowMajor(s)) = Len(s)
         /\ ColumnMajor(s) \in Seq(Int) /\ Len(ColumnMajor(s)) = Len(s)
<1>1. RowMajor(s) \in [1 .. Len(s) -> Nat] /\ ColumnMajor(s) \in [1 .. Len(s) -> Nat]
  BY RowMajorIs, ColumnMajorIs
<1>2. \A n \in Nat : \A f \in [1 .. n -> Nat] : f \in Seq(Int) /\ Len(f) = n
  OBVIOUS
<1>3. Len(s) \in Nat
  OBVIOUS
<1> QED
  BY ONLY <1>1, <1>2, <1>3

LEMMA FollowsTimes ==
  ASSUME NEW s \in Seq(Nat), NEW t \in Seq(Int), NEW u \in Seq(Int), Len(t) = Len(s),
         Len(u) = Len(s), NEW z \in Int, Follows(t, s, u)
  PROVE  Follows(Times(t, z), s, Times(u, z))
<1>1. CASE Product(s) = 0
  BY <1>1 DEF Follows
<1>2. CASE Product(s) # 0
  <2>4. DOMAIN s = 1 .. Len(s)
    OBVIOUS
  <2>1. \A d \in 1 .. Len(s) : s[d] > 1 => t[d] = u[d]
    BY <1>2, <2>4 DEF Follows
  <2>2. \A d \in 1 .. Len(s) : Times(t, z)[d] = t[d] * z /\ Times(u, z)[d] = u[d] * z
    BY TimesIs
  <2>3. \A d \in 1 .. Len(s) : s[d] > 1 => Times(t, z)[d] = Times(u, z)[d]
    BY <2>1, <2>2
  <2> QED
    BY <2>3, <2>4 DEF Follows
<1> QED
  BY <1>1, <1>2

\* Addresses are integers.
LEMMA AddressIs ==
  ASSUME NEW s \in Seq(Nat), NEW data \in Int, NEW t \in Seq(Int), Len(t) = Len(s)
  PROVE  [i \in Indices(s) |-> At(data, i, t)] \in MeansOf
<1>1. ASSUME NEW i \in Indices(s) PROVE At(data, i, t) \in Int
  <2>1. PICK n \in Nat : n = Len(s)
    OBVIOUS
  <2>2. i \in [1 .. n -> Int] /\ \A d \in 1 .. n : t[d] \in Int
    BY <2>1, IndexIs
  <2>3. \A d \in 1 .. n : i[d] \in Int /\ t[d] \in Int
    BY <2>2
  <2>4. PICK q : IsSum(q, n, data, i, t)
    BY <2>3, SumExists
  <2> QED
    BY <2>2, <2>4, AtIs
<1>2. [i \in Indices(s) |-> At(data, i, t)] \in [Indices(s) -> Int]
  BY <1>1
<1> QED
  BY <1>2 DEF MeansOf

LEMMA ArrayFields ==
  ASSUME NEW a \in Arrays
  PROVE  /\ a.class \in Classes /\ a.dtype \in Dtypes /\ a.layout \in Layouts /\ a.block \in Nat
         /\ a.data \in Int /\ a.shape \in Seq(Nat) /\ a.strides \in Seq(Int)
         /\ a.itemsize \in Nat /\ a.parent \in Nat /\ a.queue \in {"queue", "null"}
         /\ a.means \in MeansOf
  BY DEF Arrays

MultipleOf(x, a) ==
  \E d \in 1 .. Len(a.shape), p \in Int : a.strides[d] \in Int /\ x = a.strides[d] * p

LEMMA ViewStridesAre ==
  ASSUME NEW a, a.shape \in Seq(Nat), a.strides \in Seq(Int), Len(a.strides) = Len(a.shape),
         NEW ix \in Seq(Subscript)
  PROVE  /\ ViewStrides(a, ix) \in Seq(Int)
         /\ Len(ViewStrides(a, ix)) = Len(Kept(a, ix))
         /\ \A j \in 1 .. Len(Kept(a, ix)) : MultipleOf(ViewStrides(a, ix)[j], a)
<1>1. PICK kept \in Seq(Nat) : kept = Kept(a, ix)
  BY KeptFacts
<1>2. PICK l \in Nat : l = Len(kept) /\ DOMAIN kept = 1 .. l
  OBVIOUS
<1>3. ASSUME NEW j \in 1 .. l
      PROVE  /\ MultipleOf(a.strides[kept[j]] * Pace(ix, kept[j]), a)
             /\ a.strides[kept[j]] * Pace(ix, kept[j]) \in Int
  <2>1. PICK d \in 1 .. Len(a.shape) : d = kept[j]
    BY <1>1, <1>2, KeptFacts
  <2>2. d \in Nat /\ a.strides[d] \in Int
    BY <2>1
  <2>3. PICK p \in Int : p = Pace(ix, d)
    BY <2>2, Paces
  <2>4. a.strides[d] * p \in Int
    BY <2>2, <2>3
  <2> QED
    BY <2>1, <2>2, <2>3, <2>4 DEF MultipleOf
<1>4. ViewStrides(a, ix) = [j \in 1 .. l |-> a.strides[kept[j]] * Pace(ix, kept[j])]
  BY <1>1, <1>2 DEF ViewStrides
<1>5. \A j \in 1 .. l : ViewStrides(a, ix)[j] \in Int /\ MultipleOf(ViewStrides(a, ix)[j], a)
  BY <1>3, <1>4
<1>6. ViewStrides(a, ix) \in [1 .. l -> Int]
  BY <1>4, <1>5
<1>7. ViewStrides(a, ix) \in Seq(Int) /\ Len(ViewStrides(a, ix)) = l
  <2>1. \A m \in Nat : \A f \in [1 .. m -> Int] : f \in Seq(Int) /\ Len(f) = m
    OBVIOUS
  <2>2. l \in Nat
    OBVIOUS
  <2> QED
    BY ONLY <1>6, <2>1, <2>2
<1> QED
  BY ONLY <1>1, <1>2, <1>5, <1>7

\* Whether a view is an array of the kind that its layout says.
LEMMA ViewShaped ==
  ASSUME NEW a \in Arrays, Shaped(a), NEW ix \in Seq(Subscript), Len(ix) > 0,
         Len(ix) <= Len(a.shape), \A d \in DOMAIN ix : Fits(ix[d], a.shape[d]),
         Kept(a, ix) # <<>>, NEW queue \in {"queue", "null"}
  PROVE  /\ View(a, ix, queue) \in Arrays /\ Shaped(View(a, ix, queue))
         /\ View(a, ix, queue).means
              = [i \in Indices(ViewShape(a, ix)) |-> a.means[Source(a, ix, i)]]
<1>1. PICK v : v = View(a, ix, queue)
  OBVIOUS
<1>2. PICK base : base = [d \in DOMAIN ix |-> First(ix[d])]
  OBVIOUS
<1>3. PICK s \in Seq(Nat) : s = ViewShape(a, ix)
  BY ArrayFields, ViewShapeIs
<1>4. PICK u \in Seq(Int) : u = ViewStrides(a, ix)
  BY ArrayFields, ViewStridesAre DEF Shaped
<1>5. Len(s) = Len(Kept(a, ix)) /\ Len(u) = Len(s) /\ Len(s) > 0
  <2>1. Kept(a, ix) \in Seq(Nat)
    BY ArrayFields, KeptFacts
  <2>2. Len(Kept(a, ix)) > 0
    BY <2>1
  <2>3. Len(u) = Len(Kept(a, ix))
    BY <1>4, ArrayFields, ViewStridesAre DEF Shaped
  <2>4. Len(s) = Len(Kept(a, ix))
    BY <1>3, ArrayFields, ViewShapeIs
  <2> QED
    BY <2>2, <2>3, <2>4
<1>6. PICK z \in Nat : z = a.itemsize /\ z > 0 /\ z = ItemSize(a.dtype)
  BY ArrayFields, ItemSizeIs DEF Shaped
<1>7. PICK data \in Int : data = At(a.data, base, a.strides)
  <2>1. PICK n \in Nat : n = Len(a.shape) /\ Len(ix) <= n
    OBVIOUS
  <2>2. \A d \in 1 .. Len(ix) : ix[d] \in Subscript
    OBVIOUS
  <2>3. \A d \in 1 .. Len(ix) : First(ix[d]) \in Nat
    BY <2>2, SubscriptIs
  <2>4. base \in [1 .. Len(ix) -> Int]
    BY <1>2, <2>3
  <2>5. \A d \in 1 .. Len(ix) : a.strides[d] \in Int
    <3>1. a.strides \in Seq(Int) /\ Len(a.strides) = n
      BY <2>1, ArrayFields DEF Shaped
    <3> QED
      BY <2>1, <3>1
  <2>6. \A d \in 1 .. Len(ix) : base[d] \in Int /\ a.strides[d] \in Int
    BY <2>4, <2>5
  <2>7. a.data \in Int /\ Len(ix) \in Nat
    BY ArrayFields
  <2>8. PICK q : IsSum(q, Len(ix), a.data, base, a.strides)
    BY <2>6, <2>7, SumExists
  <2>9. At(a.data, base, a.strides) \in Int
    BY ONLY <2>4, <2>5, <2>7, <2>8, AtIs
  <2> QED
    BY <2>9
<1>8. PICK means : means = [i \in Indices(s) |-> a.means[Source(a, ix, i)]]
  OBVIOUS
<1>9. v = [a EXCEPT !.layout = ViewLayout(a, ix), !.data = data, !.shape = s, !.strides = u,
                    !.queue = queue, !.means = means]
  BY <1>1, <1>2, <1>3, <1>4, <1>7, <1>8 DEF View
<1>10. /\ v.class = a.class /\ v.dtype = a.dtype /\ v.layout = ViewLayout(a, ix)
       /\ v.block = a.block /\ v.data = data /\ v.shape = s /\ v.strides = u
       /\ v.itemsize = a.itemsize /\ v.parent = a.parent /\ v.queue = queue /\ v.means = means
  BY <1>9 DEF Arrays
<1>11. means = [i \in Indices(s) |-> At(data, i, u)]
  <2>1. ASSUME NEW i \in Indices(s) PROVE a.means[Source(a, ix, i)] = At(data, i, u)
    <3>1. /\ \A d \in 1 .. Len(a.shape) : a.strides[d] \in Int
          /\ a.shape \in Seq(Nat) /\ a.data \in Int
      <4>1. a.shape \in Seq(Nat) /\ a.data \in Int /\ a.strides \in Seq(Int)
            /\ Len(a.strides) = Len(a.shape)
        BY ArrayFields DEF Shaped
      <4> QED
        BY <4>1
    <3>2. Source(a, ix, i) \in Indices(a.shape)
      BY <1>3, <3>1, SourceIs
    <3>3. At(a.data, Source(a, ix, i), a.strides)
            = At(At(a.data, base, a.strides), i, ViewStrides(a, ix))
      BY <1>2, <1>3, <3>1, ViewAddress
    <3>4. a.means = [k \in Indices(a.shape) |-> At(a.data, k, a.strides)]
      BY DEF Shaped
    <3>5. a.means[Source(a, ix, i)] = At(a.data, Source(a, ix, i), a.strides)
      BY <3>2, <3>4
    <3> QED
      BY <1>4, <1>7, <3>3, <3>5
  <2> QED
    BY <1>8, <2>1
<1>12. v \in Arrays
  <2>1. means \in MeansOf
    BY <1>5, <1>11, AddressIs
  <2>2. ViewLayout(a, ix) \in Layouts
    BY DEF ViewLayout, Layouts
  <2> QED
    BY <1>9, <2>1, <2>2 DEF Arrays
<1>13. \A d \in 1 .. Len(s) : u[d] = (u[d] \div z) * z
  <2> TAKE j \in 1 .. Len(s)
  <2>1. PICK d \in 1 .. Len(a.shape), p \in Int :
          a.strides[d] \in Int /\ u[j] = a.strides[d] * p
    <3>1. \A k \in 1 .. Len(Kept(a, ix)) : MultipleOf(ViewStrides(a, ix)[k], a)
      BY ArrayFields, ViewStridesAre DEF Shaped
    <3>2. MultipleOf(u[j], a)
      BY <1>4, <1>5, <3>1
    <3> QED
      BY <3>2 DEF MultipleOf
  <2>2. PICK q \in Int : a.strides[d] = q * z
    <3>1. a.strides[d] = (a.strides[d] \div z) * z
      BY <1>6 DEF Shaped
    <3>2. a.strides[d] \div z \in Int
      BY <1>6, <2>1
    <3> QED
      BY <3>1, <3>2
  <2>3. PICK c \in Int : c = q * p
    OBVIOUS
  <2>4. u[j] = c * z
    <3>1. (q * z) * p = (q * p) * z
      OBVIOUS
    <3> QED
      BY <2>1, <2>2, <2>3, <3>1
  <2>5. (c * z) \div z = c
    BY <1>6, Quotient
  <2> QED
    BY <2>4, <2>5
<1>14. v.layout = "C" => Follows(u, s, Times(RowMajor(s), z))
  <2>1. SUFFICES ASSUME v.layout = "C" PROVE Follows(u, s, Times(RowMajor(s), z))
    OBVIOUS
  <2>2. a.layout = "C" /\ Contiguous(ix[Len(ix)]) /\ \A d \in 1 .. Len(ix) - 1 : ~IsSlice(ix[d])
    BY <1>10, <2>1 DEF ViewLayout
  <2>3. Follows(a.strides, a.shape, Times(RowMajor(a.shape), z))
    BY <1>6, <2>2 DEF Shaped
  <2>4. a.shape \in Seq(Nat) /\ \A d \in 1 .. Len(a.shape) : a.strides[d] \in Int
    <3>1. a.shape \in Seq(Nat) /\ a.strides \in Seq(Int) /\ Len(a.strides) = Len(a.shape)
      BY ArrayFields DEF Shaped
    <3> QED
      BY <3>1
  <2>5. Follows(ViewStrides(a, ix), ViewShape(a, ix), Times(RowMajor(ViewShape(a, ix)), z))
    BY <2>2, <2>3, <2>4, RowView
  <2> QED
    BY <1>3, <1>4, <2>5
<1>15. v.layout = "F" => Follows(u, s, Times(ColumnMajor(s), z))
  <2>1. SUFFICES ASSUME v.layout = "F" PROVE Follows(u, s, Times(ColumnMajor(s), z))
    OBVIOUS
  <2>2. a.layout = "F" /\ Len(ix) = Len(a.shape)
        /\ Contiguous(ix[1]) /\ \A d \in 2 .. Len(ix) : ~IsSlice(ix[d])
    BY <1>10, <2>1 DEF ViewLayout
  <2>3. Follows(a.strides, a.shape, Times(ColumnMajor(a.shape), z))
    BY <1>6, <2>2 DEF Shaped
  <2>4. a.shape \in Seq(Nat) /\ \A d \in 1 .. Len(a.shape) : a.strides[d] \in Int
    <3>1. a.shape \in Seq(Nat) /\ a.strides \in Seq(Int) /\ Len(a.strides) = Len(a.shape)
      BY ArrayFields DEF Shaped
    <3> QED
      BY <3>1
  <2>5. Follows(ViewStrides(a, ix), ViewShape(a, ix), Times(ColumnMajor(ViewShape(a, ix)), z))
    BY <2>2, <2>3, <2>4, ColumnView
  <2> QED
    BY <1>3, <1>4, <2>5
<1>16. Shaped(v)
  BY <1>5, <1>6, <1>10, <1>11, <1>13, <1>14, <1>15 DEF Shaped
<1> QED
  BY <1>1, <1>3, <1>8, <1>10, <1>12, <1>16

\* The elements of a view are some of those of its array.
LEMMA ViewElements ==
  ASSUME NEW a \in Arrays, Shaped(a), NEW ix \in Seq(Subscript), Len(ix) <= Len(a.shape),
         \A d \in DOMAIN ix : Fits(ix[d], a.shape[d]),
         NEW b, ElementsIn(a.dtype, a.means, b)
  PROVE  ElementsIn(a.dtype, [i \in Indices(ViewShape(a, ix)) |-> a.means[Source(a, ix, i)]], b)
<1>1. PICK s : s = Indices(ViewShape(a, ix))
  OBVIOUS
<1>2. PICK means : means = [i \in s |-> a.means[Source(a, ix, i)]]
  OBVIOUS
<1>3. PICK z : z = ItemSize(a.dtype)
  OBVIOUS
<1>4. a.shape \in Seq(Nat) /\ DOMAIN a.means = Indices(a.shape)
  BY ArrayFields DEF Shaped
<1>5. \A i \in s : Source(a, ix, i) \in DOMAIN a.means
  BY <1>1, <1>4, SourceIs
<1>6. \A i, j \in s : i # j => Source(a, ix, i) # Source(a, ix, j)
  BY <1>1, <1>4, SourceApart
<1>7. ASSUME Apart(a.means, z, b.size) PROVE Apart(means, z, b.size)
  <2>1. \A i \in DOMAIN a.means :
          /\ a.means[i] \in 0 .. b.size - z
          /\ \A j \in DOMAIN a.means :
               i # j => a.means[j] >= a.means[i] + z \/ a.means[i] >= a.means[j] + z
    BY <1>7 DEF Apart
  <2>2. ASSUME NEW i \in s
        PROVE  /\ means[i] \in 0 .. b.size - z
               /\ \A j \in s \ {i} : means[j] >= means[i] + z \/ means[i] >= means[j] + z
    <3>1. means[i] \in 0 .. b.size - z
      BY <1>2, <1>5, <2>1
    <3>2. ASSUME NEW j \in s \ {i} PROVE means[j] >= means[i] + z \/ means[i] >= means[j] + z
      <4>1. /\ Source(a, ix, i) \in DOMAIN a.means /\ Source(a, ix, j) \in DOMAIN a.means
            /\ Source(a, ix, i) # Source(a, ix, j)
        BY <1>5, <1>6
      <4>2. means[i] = a.means[Source(a, ix, i)] /\ means[j] = a.means[Source(a, ix, j)]
        BY <1>2
      <4> QED
        BY ONLY <2>1, <4>1, <4>2
    <3> QED
      BY <3>1, <3>2
  <2>3. DOMAIN means = s
    BY <1>2
  <2> QED
    BY <2>2, <2>3 DEF Apart
<1>8. ASSUME b.fill # NoFill
      PROVE  /\ FilledAs(b, a.dtype)
             /\ \A i \in DOMAIN means : means[i] \in 0 .. b.size - z /\ means[i] % z = 0
  <2>1. /\ FilledAs(b, a.dtype)
        /\ \A i \in DOMAIN a.means : a.means[i] \in 0 .. b.size - z /\ a.means[i] % z = 0
    BY <1>3, <1>8 DEF ElementsIn
  <2>2. DOMAIN means = s /\ \A i \in s : means[i] = a.means[Source(a, ix, i)]
    BY <1>2
  <2> QED
    BY <1>5, <2>1, <2>2
<1>9. ItemsApart => Apart(means, z, b.size)
  BY <1>3, <1>7 DEF ElementsIn
<1> QED
  BY <1>1, <1>2, <1>3, <1>8, <1>9 DEF ElementsIn

LEMMA ViewOK ==
  ASSUME NEW a, NEW objs, NEW bs, ArrayOK(a, objs, bs), NEW ix \in Seq(Subscript),
         Len(ix) > 0, Len(ix) <= Len(a.shape), \A d \in DOMAIN ix : Fits(ix[d], a.shape[d]),
         Kept(a, ix) # <<>>, NEW queue \in {"queue", "null"}
  PROVE  ArrayOK(View(a, ix, queue), objs, bs)
<1>1. a \in Arrays /\ Shaped(a)
  BY DEF ArrayOK
<1>2. PICK v : v = View(a, ix, queue)
  OBVIOUS
<1>3. /\ v \in Arrays /\ Shaped(v)
      /\ v.means = [i \in Indices(ViewShape(a, ix)) |-> a.means[Source(a, ix, i)]]
  BY <1>1, <1>2, ViewShaped
<1>4. v.dtype = a.dtype /\ v.block = a.block /\ v.parent = a.parent
  BY <1>1, <1>2 DEF View, Arrays
<1>5. ElementsIn(v.dtype, v.means, bs[v.block])
  BY <1>1, <1>3, <1>4, ViewElements DEF ArrayOK
<1> QED
  BY <1>2, <1>3, <1>4, <1>5 DEF ArrayOK

----------------------------------------------------------------------------
(* Unboxing, constructors and boxing *)

LEMMA ObjectFields ==
  ASSUME NEW o \in Objects
  PROVE  /\ o.class \in Classes /\ o.block \in Nat /\ o.data \in Int /\ o.shape \in Seq(Nat)
         /\ o.dtype \in Dtypes /\ o.strides \in Seq(Int) /\ o.means \in MeansOf
  BY DEF Objects

\* The strides that an object is unboxed with find its elements as Python does.
LEMMA UnboxedIs ==
  ASSUME NEW o \in Objects, o.strides # Null => Len(o.strides) = Len(o.shape)
  PROVE  /\ UnboxedStrides(o) \in Seq(Int) /\ Len(UnboxedStrides(o)) = Len(o.shape)
         /\ UnboxedStrides(o)
              = Times(IF o.strides = Null THEN RowMajor(o.shape) ELSE o.strides, ItemSize(o.dtype))
         /\ \A i \in Indices(o.shape) : PythonAddress(o, i) = At(o.data, i, UnboxedStrides(o))
<1>1. PICK z \in Nat : z = ItemSize(o.dtype)
  BY ObjectFields, ItemSizeIs
<1>2. PICK t \in Seq(Int) : /\ t = IF o.strides = Null THEN RowMajor(o.shape) ELSE o.strides
                            /\ Len(t) = Len(o.shape)
  BY ObjectFields, OrdersAre
<1>3. UnboxedStrides(o) = Times(t, z)
  <2>1. CASE o.strides = Null
    BY <1>1, <1>2, <2>1, ObjectFields, UnboxedC
  <2>2. CASE o.strides # Null
    BY <1>1, <1>2, <2>2 DEF UnboxedStrides
  <2> QED
    BY <2>1, <2>2
<1>4. Times(t, z) \in Seq(Int) /\ Len(Times(t, z)) = Len(o.shape)
  BY <1>2, TimesIs
<1>5. \A i \in Indices(o.shape) : PythonAddress(o, i) = At(o.data, i, Times(t, z))
  BY <1>1, <1>2 DEF PythonAddress
<1> QED
  BY <1>1, <1>2, <1>3, <1>4, <1>5

Unboxed(o, n) ==
  [class |-> o.class, dtype |-> o.dtype, layout |-> MapLayout(o), block |-> o.block,
   data |-> o.data, shape |-> o.shape, strides |-> UnboxedStrides(o),
   itemsize |-> ItemSize(o.dtype), parent |-> n, queue |-> "queue", means |-> o.means]

LEMMA UnboxOK ==
  ASSUME NEW objs, NEW bs, NEW n \in Nat, n \in DOMAIN objs, ObjectOK(objs[n], bs),
         objs[n].shape # <<>>
  PROVE  ArrayOK(Unboxed(objs[n], n), objs, bs)
<1>1. PICK o \in Objects : o = objs[n] /\ (o.strides # Null => Len(o.strides) = Len(o.shape))
  BY DEF ObjectOK
<1>2. PICK s \in Seq(Nat) : s = o.shape /\ Len(s) > 0
  <2>1. o.shape \in Seq(Nat) /\ o.shape # <<>>
    BY <1>1, ObjectFields
  <2> QED
    BY <2>1
<1>3. PICK z \in Nat : z = ItemSize(o.dtype) /\ z > 0
  BY ObjectFields, ItemSizeIs
<1>4. PICK t \in Seq(Int) : /\ t = IF o.strides = Null THEN RowMajor(o.shape) ELSE o.strides
                            /\ Len(t) = Len(o.shape)
  BY <1>1, ObjectFields, OrdersAre
<1>5. PICK u \in Seq(Int) : u = UnboxedStrides(o) /\ u = Times(t, z) /\ Len(u) = Len(s)
  <2>1. /\ UnboxedStrides(o) \in Seq(Int) /\ Len(UnboxedStrides(o)) = Len(o.shape)
        /\ UnboxedStrides(o)
             = Times(IF o.strides = Null THEN RowMajor(o.shape) ELSE o.strides, ItemSize(o.dtype))
    BY <1>1, UnboxedIs
  <2> QED
    BY ONLY <1>2, <1>3, <1>4, <2>1
<1>6. PICK a : a = Unboxed(o, n)
  OBVIOUS
<1>7. /\ a.class = o.class /\ a.dtype = o.dtype /\ a.layout = MapLayout(o)
      /\ a.block = o.block /\ a.data = o.data /\ a.shape = s /\ a.strides = u
      /\ a.itemsize = z /\ a.parent = n /\ a.means = o.means
  BY <1>2, <1>3, <1>5, <1>6 DEF Unboxed
<1>8. a \in Arrays
  <2>1. MapLayout(o) \in Layouts
    BY DEF MapLayout, Layouts
  <2> QED
    BY <1>2, <1>3, <1>5, <1>6, <2>1, ObjectFields DEF Unboxed, Arrays
<1>9. \A d \in 1 .. Len(s) : u[d] = (u[d] \div z) * z
  <2> TAKE d \in 1 .. Len(s)
  <2>1. t[d] \in Int /\ u[d] = t[d] * z
    <3>1. t \in Seq(Int) /\ d \in 1 .. Len(t) /\ z \in Int
      BY <1>2, <1>4
    <3>2. Times(t, z)[d] = t[d] * z
      BY ONLY <3>1, TimesIs
    <3>3. t[d] \in Int
      BY ONLY <3>1
    <3> QED
      BY <1>5, <3>2, <3>3
  <2>2. (t[d] * z) \div z = t[d]
    BY <1>3, <2>1, Quotient
  <2> QED
    BY <2>1, <2>2
<1>10. MapLayout(o) = "C" => Follows(u, s, Times(RowMajor(s), z))
  <2>1. MapLayout(o) = "C" => o.strides = Null
    BY DEF MapLayout
  <2>2. MapLayout(o) = "C" => u = Times(RowMajor(s), z)
    BY <1>2, <1>4, <1>5, <2>1
  <2> QED
    BY <2>2 DEF Follows
<1>11. MapLayout(o) = "F" => Follows(u, s, Times(ColumnMajor(s), z))
  <2>1. SUFFICES ASSUME MapLayout(o) = "F" PROVE Follows(u, s, Times(ColumnMajor(s), z))
    OBVIOUS
  <2>2. Follows(t, s, ColumnMajor(s))
    BY <1>2, <1>4, <2>1 DEF MapLayout
  <2>3. ColumnMajor(s) \in Seq(Int) /\ Len(ColumnMajor(s)) = Len(s) /\ Len(t) = Len(s)
    BY <1>2, <1>4, OrdersAre
  <2> QED
    BY <1>5, <2>2, <2>3, FollowsTimes
<1>12. a.means = [i \in Indices(s) |-> At(o.data, i, u)]
  <2>1. o.means = [i \in Indices(o.shape) |-> PythonAddress(o, i)]
    BY <1>1 DEF ObjectOK
  <2>2. \A i \in Indices(o.shape) : PythonAddress(o, i) = At(o.data, i, UnboxedStrides(o))
    BY <1>1, UnboxedIs
  <2> QED
    BY <1>2, <1>5, <1>7, <2>1, <2>2
<1>13. Shaped(a)
  BY <1>2, <1>3, <1>5, <1>7, <1>9, <1>10, <1>11, <1>12 DEF Shaped
<1>14. a.block \in DOMAIN bs /\ ElementsIn(a.dtype, a.means, bs[a.block])
  BY <1>1, <1>7 DEF ObjectOK
<1> QED
  BY <1>1, <1>6, <1>7, <1>8, <1>13, <1>14 DEF ArrayOK

LEMMA FromPtrOK ==
  ASSUME NEW class \in Classes, NEW block \in Nat, NEW data \in Int, NEW shape \in Seq(Nat),
         NEW strides \in Seq(Int), Len(strides) = Len(shape), NEW dtype \in Dtypes, NEW means,
         means = [i \in Indices(shape) |-> At(data, i, Times(strides, ItemSize(dtype)))],
         NEW bs, block \in DOMAIN bs, ElementsIn(dtype, means, bs[block])
  PROVE  ObjectOK(MakeFromPtr(class, block, data, shape, strides, dtype, means), bs)
<1>1. PICK o : o = MakeFromPtr(class, block, data, shape, strides, dtype, means)
  OBVIOUS
<1>2. PICK z \in Nat : z = ItemSize(dtype)
  BY ItemSizeIs
<1>3. /\ o.class = class /\ o.block = block /\ o.data = data /\ o.shape = shape
      /\ o.dtype = dtype /\ o.means = means
      /\ o.strides = IF Follows(strides, shape, RowMajor(shape)) THEN Null ELSE strides
  BY <1>1 DEF MakeFromPtr
<1>4. o.strides \in Seq(Int) /\ (o.strides # Null => Len(o.strides) = Len(o.shape))
  BY <1>3 DEF Null
<1>5. Times(strides, z) \in Seq(Int) /\ Len(Times(strides, z)) = Len(shape)
  BY TimesIs
<1>6. means \in MeansOf
  BY <1>2, <1>5, AddressIs
<1>7. o \in Objects
  BY <1>1, <1>4, <1>3, <1>6 DEF MakeFromPtr, Objects
<1>8. ASSUME NEW i \in Indices(shape)
      PROVE  At(data, i, Times(strides, z)) = PythonAddress(o, i)
  <2>1. CASE Follows(strides, shape, RowMajor(shape))
    <3>1. RowMajor(shape) \in Seq(Int) /\ Len(RowMajor(shape)) = Len(shape)
      BY OrdersAre
    <3>2. Follows(Times(strides, z), shape, Times(RowMajor(shape), z))
      BY <2>1, <3>1, FollowsTimes
    <3>3. Times(RowMajor(shape), z) \in Seq(Int) /\ Len(Times(RowMajor(shape), z)) = Len(shape)
      BY <3>1, TimesIs
    <3>4. \A d \in 1 .. Len(shape) :
            Times(strides, z)[d] \in Int /\ Times(RowMajor(shape), z)[d] \in Int
      BY <1>5, <3>3
    <3>5. At(data, i, Times(strides, z)) = At(data, i, Times(RowMajor(shape), z))
      BY <3>2, <3>4, FollowsAddress
    <3>6. PythonAddress(o, i) = At(data, i, Times(RowMajor(shape), z))
      BY <1>2, <1>3, <2>1 DEF PythonAddress
    <3> QED
      BY <3>5, <3>6
  <2>2. CASE ~Follows(strides, shape, RowMajor(shape))
    <3>1. strides # Null
      <4>1. CASE strides = Null
        <5>1. Len(strides) = 0
          BY <4>1 DEF Null
        <5>2. Len(shape) = 0
          BY <5>1
        <5>3. DOMAIN shape = {}
          BY <5>2
        <5> QED
          BY <2>2, <5>3 DEF Follows
      <4> QED
        BY <4>1
    <3> QED
      BY <1>2, <1>3, <2>2, <3>1 DEF PythonAddress
  <2> QED
    BY <2>1, <2>2
<1>9. o.means = [i \in Indices(o.shape) |-> PythonAddress(o, i)]
  BY <1>2, <1>3, <1>8
<1> QED
  BY <1>1, <1>3, <1>4, <1>7, <1>9 DEF ObjectOK

LEMMA BoxOK ==
  ASSUME NEW a, NEW objs, NEW bs, ArrayOK(a, objs, bs)
  PROVE  ObjectOK(MakeFromPtr("dpnp", a.block, a.data, a.shape,
                              [d \in DOMAIN a.strides |-> a.strides[d] \div a.itemsize],
                              a.dtype, a.means), bs)
<1>1. a \in Arrays /\ Shaped(a)
  BY DEF ArrayOK
<1>2. PICK z \in Nat : z = a.itemsize /\ z = ItemSize(a.dtype) /\ z > 0
  BY <1>1, ArrayFields, ItemSizeIs DEF Shaped
<1>3. PICK t : t = [d \in DOMAIN a.strides |-> a.strides[d] \div a.itemsize]
  OBVIOUS
<1>4. PICK n \in Nat : n = Len(a.shape) /\ a.strides \in Seq(Int) /\ Len(a.strides) = n
  BY <1>1, ArrayFields DEF Shaped
<1>5. DOMAIN a.strides = 1 .. n /\ \A d \in 1 .. n : a.strides[d] \in Int
  BY <1>4
<1>6. \A d \in 1 .. n : t[d] = a.strides[d] \div z /\ t[d] \in Int
  <2> TAKE d \in 1 .. n
  <2>1. t[d] = a.strides[d] \div z /\ a.strides[d] \in Int
    BY <1>2, <1>3, <1>5
  <2>2. \A x \in Int : x \div z \in Int
    BY <1>2
  <2> QED
    BY ONLY <2>1, <2>2
<1>7. t \in [1 .. n -> Int]
  BY <1>3, <1>5, <1>6
<1>8. t \in Seq(Int) /\ Len(t) = n /\ DOMAIN t = 1 .. n
  <2>1. \A m \in Nat : \A f \in [1 .. m -> Int] : f \in Seq(Int) /\ Len(f) = m /\ DOMAIN f = 1 .. m
    OBVIOUS
  <2>2. n \in Nat
    OBVIOUS
  <2> QED
    BY ONLY <1>7, <2>1, <2>2
<1>9. Times(t, z) = a.strides
  <2>1. \A d \in 1 .. n : a.strides[d] = (a.strides[d] \div z) * z
    BY <1>1, <1>2, <1>4 DEF Shaped
  <2>2. Times(t, z) = [d \in 1 .. n |-> t[d] * z]
    BY <1>8 DEF Times
  <2>3. a.strides = [d \in 1 .. n |-> a.strides[d]]
    BY <1>4
  <2> QED
    BY <1>6, <2>1, <2>2, <2>3
<1>10. a.means = [i \in Indices(a.shape) |-> At(a.data, i, Times(t, ItemSize(a.dtype)))]
  BY <1>1, <1>2, <1>9 DEF Shaped
<1>11. /\ "dpnp" \in Classes /\ a.block \in Nat /\ a.data \in Int /\ a.shape \in Seq(Nat)
       /\ a.dtype \in Dtypes
  BY <1>1, ArrayFields DEF Classes
<1>12. a.block \in DOMAIN bs /\ ElementsIn(a.dtype, a.means, bs[a.block])
  BY DEF ArrayOK
<1>13. ObjectOK(MakeFromPtr("dpnp", a.block, a.data, a.shape, t, a.dtype, a.means), bs)
  BY <1>4, <1>8, <1>10, <1>11, <1>12, FromPtrOK
<1> QED
  BY <1>3, <1>13

\* An array that is still its parent has its parent's elements.
LEMMA ParentOK ==
  ASSUME NEW a, NEW objs, NEW bs, ArrayOK(a, objs, bs), a.parent # 0,
         ObjectOK(objs[a.parent], bs), objs[a.parent].data = a.data,
         objs[a.parent].shape = a.shape, UnboxedStrides(objs[a.parent]) = a.strides
  PROVE  /\ a.parent \in DOMAIN objs
         /\ objs[a.parent].means = a.means /\ objs[a.parent].dtype = a.dtype
<1>1. PICK o \in Objects : o = objs[a.parent] /\ (o.strides # Null => Len(o.strides) = Len(o.shape))
  BY DEF ObjectOK
<1>2. o.means = [i \in Indices(o.shape) |-> PythonAddress(o, i)]
  BY <1>1 DEF ObjectOK
<1>3. \A i \in Indices(o.shape) : PythonAddress(o, i) = At(o.data, i, UnboxedStrides(o))
  BY <1>1, UnboxedIs
<1>4. a.means = [i \in Indices(a.shape) |-> At(a.data, i, a.strides)]
  BY DEF ArrayOK, Shaped
<1>5. o.means = a.means
  BY <1>1, <1>2, <1>3, <1>4
<1> QED
  BY <1>1, <1>5 DEF ArrayOK

----------------------------------------------------------------------------
(* New arrays *)

LEMMA ValueIs ==
  ASSUME NEW c, c.value \in Values
  PROVE  Value(c) \in Values
<1>1. PICK h \in Nat : h = Pow2[Bits[3] - 1] /\ h >= 2
  <2>1. PICK k \in Nat : Bits[3] - 1 = k + 1
    <3>1. Bits[3] \in Nat /\ Bits[3] > 1
      BY ArrayAssumption
    <3>2. Bits[3] - 2 \in Nat /\ Bits[3] - 1 = (Bits[3] - 2) + 1
      BY <3>1
    <3> QED
      BY <3>2
  <2>2. Pow2[k + 1] = 2 * Pow2[k] /\ Pow2[k] \in Nat /\ Pow2[k] > 0
    BY Pow2Is, Pow2Sum
  <2>3. 2 * Pow2[k] \in Nat /\ 2 * Pow2[k] >= 2
    BY <2>2
  <2> QED
    BY <2>1, <2>2, <2>3
<1>2. \A m \in {0, 1} : [ty |-> "int64", num |-> 2 * m] \in Values
  <2> TAKE m \in {0, 1}
  <2>1. m \in -h .. h - 1 /\ 2 * m \in Int
    BY <1>1
  <2>2. \E n \in -Pow2[Bits[3] - 1] .. Pow2[Bits[3] - 1] - 1 : 2 * m = 2 * n
    BY <1>1, <2>1
  <2>3. PICK x \in Int : x = 2 * m
    BY <2>1
  <2>4. PICK v : v = [ty |-> "int64", num |-> x]
    OBVIOUS
  <2>5. v \in [ty : ValueTypes, num : Int] /\ v.ty = "int64" /\ v.num = x /\ v.ty # "uint64"
    BY ONLY <2>4 DEF ValueTypes
  <2>6. v \in Values
    BY <2>2, <2>3, <2>5 DEF Values
  <2> QED
    BY <2>3, <2>4, <2>6
<1>3. 2 * 0 = 0 /\ 2 * 1 = 2
  OBVIOUS
<1>4. [ty |-> "int64", num |-> 0] \in Values /\ [ty |-> "int64", num |-> 2] \in Values
  BY <1>2, <1>3
<1> QED
  BY <1>4 DEF Value

NewArray(n, t, layout, shape) ==
  [class |-> "dpnp", dtype |-> t, layout |-> layout, block |-> n, data |-> 0, shape |-> shape,
   strides |-> NewStrides(layout, shape, t), itemsize |-> ItemSize(t), parent |-> 0,
   queue |-> "queue",
   means |-> [i \in Indices(shape) |-> At(0, i, NewStrides(layout, shape, t))]]

\* A block that is filled for an array, and the array.
LEMMA FilledIs ==
  ASSUME NEW c, c.value \in Values, NEW t \in Dtypes, NEW size \in Nat,
         c.fn # "empty" => Value(c).ty \in Passing /\ ~FillFails(t)
  PROVE  /\ Filled(c, t, size) \in Blocks /\ Filled(c, t, size).size = size
         /\ Filled(c, t, size).fill # NoFill => FilledAs(Filled(c, t, size), t)
<1>1. PICK b : b = Filled(c, t, size)
  OBVIOUS
<1>2. CASE c.fn = "empty"
  BY <1>1, <1>2 DEF Filled, Blocks
<1>3. CASE c.fn # "empty"
  <2>1. PICK v \in Values : v = Value(c) /\ v.ty \in Passing
    BY <1>3, ValueIs
  <2>2. b = [size |-> size, fill |-> Pattern(t, v), item |-> ItemSize(t),
             count |-> FillCount(size, t), asked |-> v]
    BY <1>1, <1>3, <2>1 DEF Filled
  <2>3. ItemSize(t) \in Nat /\ FillCount(size, t) \in Nat
    <3>1. PICK z \in Nat : z = ItemSize(t) /\ z > 0
      BY ItemSizeIs
    <3>2. PICK m \in Nat : m = Pow2[CountBits] /\ m > 0
      BY ArrayAssumption, Pow2Is, Pow2Sum
    <3>3. size \div z \in Nat
      BY <3>1
    <3>4. (size \div z) % m \in 0 .. m - 1
      BY <3>2, <3>3, Remainder
    <3> QED
      BY <3>1, <3>2, <3>4 DEF FillCount
  <2>4. Pattern(t, v) \in Fills
    <3>1. Raw(v) \in Int
      <4>1. CASE v.ty = "float64"
        BY <2>1, <4>1, RawIs DEF Values
      <4>2. CASE v.ty # "float64"
        <5>1. PICK m \in Int : Raw(v) = 2 * Signed(m, Bits[3])
          BY <2>1, <4>2, RawIs
        <5>2. Signed(m, Bits[3]) \in Int
          BY ArrayAssumption, SignedIs
        <5> QED
          BY <5>1, <5>2
      <4> QED
        BY <4>1, <4>2
    <3>2. Signed(Truncated(Raw(v)), Bits[t.exp]) \in Int
      <4>1. Truncated(Raw(v)) \in Int
        BY <3>1, TruncatedIs
      <4>2. Bits[t.exp] \in Nat /\ Bits[t.exp] > 0
        BY <1>3, ArrayAssumption DEF FillFails
      <4> QED
        BY <4>1, <4>2, SignedIs
    <3>3. \/ Pattern(t, v) = [as |-> "float", num |-> Raw(v)]
          \/ Pattern(t, v) = [as |-> "int", num |-> Signed(Truncated(Raw(v)), Bits[t.exp])]
          \/ Pattern(t, v) = [as |-> "anything", num |-> 0]
      BY DEF Pattern
    <3>4. \A x \in Int : \A as \in {"float", "int", "anything"} : [as |-> as, num |-> x] \in Fills
      BY DEF Fills
    <3>5. 0 \in Int
      OBVIOUS
    <3> QED
      BY ONLY <3>1, <3>2, <3>3, <3>4, <3>5
  <2>5. b \in Blocks
    BY <2>1, <2>2, <2>3, <2>4 DEF Blocks
  <2>6. b.size = size /\ FilledAs(b, t)
    BY <1>3, <2>1, <2>2 DEF FilledAs
  <2> QED
    BY <1>1, <2>5, <2>6
<1> QED
  BY <1>2, <1>3

LEMMA NewOK ==
  ASSUME NEW c, c.value \in Values, NEW t \in Dtypes, NEW layout \in {"C", "F"},
         NEW shape \in Seq(Nat), Len(shape) > 0, NEW objs, NEW bs \in Seq(Blocks),
         c.fn # "empty" => Value(c).ty \in Passing /\ ~FillFails(t)
  PROVE  /\ Filled(c, t, AllocSize(shape, t)) \in Blocks
         /\ ArrayOK(NewArray(Len(bs) + 1, t, layout, shape), objs,
                    Append(bs, Filled(c, t, AllocSize(shape, t))))
<1>1. PICK z \in Nat : z = ItemSize(t) /\ z > 0
  BY ItemSizeIs
<1>2. PICK w \in Seq(Int) : /\ w \in {RowMajor(shape), ColumnMajor(shape)}
                            /\ w = IF layout = "C" THEN RowMajor(shape) ELSE ColumnMajor(shape)
                            /\ Len(w) = Len(shape)
  BY OrdersAre
<1>3. PICK u \in Seq(Int) : u = NewStrides(layout, shape, t) /\ u = Times(w, z) /\ Len(u) = Len(shape)
  <2>1. NewStrides(layout, shape, t) = Times(w, z)
    BY <1>1, <1>2 DEF NewStrides
  <2>2. Times(w, z) \in Seq(Int) /\ Len(Times(w, z)) = Len(shape)
    BY <1>2, TimesIs
  <2> QED
    BY <2>1, <2>2
<1>4. PICK size \in Nat : size = AllocSize(shape, t) /\ size = Product(shape) * z
  <2>1. Product(shape) \in Nat
    BY ProductNat
  <2>2. Product(shape) * z \in Nat
    BY <2>1
  <2> QED
    BY <1>1, <2>2 DEF AllocSize
<1>5. PICK b \in Blocks : /\ b = Filled(c, t, size) /\ b.size = size
                          /\ b.fill # NoFill => FilledAs(b, t)
  BY FilledIs
<1>6. PICK means : means = [i \in Indices(shape) |-> At(0, i, u)]
  OBVIOUS
<1>7. PICK n \in Nat : n = Len(bs) + 1
  OBVIOUS
<1>8. PICK a : a = NewArray(n, t, layout, shape)
  OBVIOUS
<1>9. /\ a.dtype = t /\ a.layout = layout /\ a.block = n /\ a.data = 0 /\ a.shape = shape
      /\ a.strides = u /\ a.itemsize = z /\ a.parent = 0 /\ a.means = means
  BY <1>1, <1>3, <1>6, <1>8 DEF NewArray
<1>10. a \in Arrays
  <2>1. means \in MeansOf
    BY <1>3, <1>6, AddressIs
  <2>2. a = [class |-> "dpnp", dtype |-> t, layout |-> layout, block |-> n, data |-> 0,
             shape |-> shape, strides |-> u, itemsize |-> z, parent |-> 0,
             queue |-> "queue", means |-> means]
    BY <1>1, <1>3, <1>6, <1>8 DEF NewArray
  <2> QED
    BY <2>1, <2>2 DEF Arrays, Classes, Layouts
<1>11. Shaped(a)
  <2>1. \A d \in 1 .. Len(shape) : u[d] = (u[d] \div z) * z
    <3> TAKE d \in 1 .. Len(shape)
    <3>1. w \in Seq(Int) /\ d \in 1 .. Len(w) /\ z \in Int
      BY <1>2
    <3>2. Times(w, z)[d] = w[d] * z /\ w[d] \in Int
      BY ONLY <3>1, TimesIs
    <3>3. (w[d] * z) \div z = w[d]
      BY <1>1, <3>2, Quotient
    <3> QED
      BY <1>3, <3>2, <3>3
  <2>2. layout = "C" => Follows(u, shape, Times(RowMajor(shape), z))
    BY <1>2, <1>3 DEF Follows
  <2>3. layout = "F" => Follows(u, shape, Times(ColumnMajor(shape), z))
    BY <1>2, <1>3 DEF Follows
  <2> QED
    BY <1>1, <1>3, <1>6, <1>9, <2>1, <2>2, <2>3 DEF Shaped
<1>12. ElementsIn(t, means, b)
  <2>1. ASSUME NEW i \in Indices(shape)
        PROVE  means[i] = At(0, i, Times(w, z)) /\ means[i] \in 0 .. size - z /\ means[i] % z = 0
    <3>1. At(0, i, Times(w, z)) \in 0 .. Product(shape) * z - z /\ At(0, i, Times(w, z)) % z = 0
      BY <1>1, <1>2, Within
    <3> QED
      BY <1>3, <1>4, <1>6, <3>1
  <2>2. ASSUME NEW i \in Indices(shape), NEW j \in Indices(shape), i # j
        PROVE  means[j] >= means[i] + z \/ means[i] >= means[j] + z
    <3>1. \/ At(0, j, Times(w, z)) >= At(0, i, Times(w, z)) + z
          \/ At(0, i, Times(w, z)) >= At(0, j, Times(w, z)) + z
      BY <1>1, <1>2, <2>2, Dense
    <3> QED
      BY <2>1, <3>1
  <2>3. DOMAIN means = Indices(shape)
    BY <1>6
  <2>4. Apart(means, z, size)
    BY <2>1, <2>2, <2>3 DEF Apart
  <2> QED
    BY <1>1, <1>5, <2>1, <2>3, <2>4 DEF ElementsIn
<1>13. n \in DOMAIN Append(bs, b) /\ Append(bs, b)[n] = b
  BY <1>7
<1> QED
  BY <1>4, <1>5, <1>7, <1>8, <1>9, <1>10, <1>11, <1>12, <1>13 DEF ArrayOK

\* Arrays and objects stay what they are when blocks and objects are added.
LEMMA ArrayKept ==
  ASSUME NEW a, NEW objs, NEW bs \in Seq(Blocks), NEW b \in Blocks, ArrayOK(a, objs, bs)
  PROVE  ArrayOK(a, objs, Append(bs, b))
<1>1. a.block \in DOMAIN Append(bs, b) /\ Append(bs, b)[a.block] = bs[a.block]
  BY DEF ArrayOK
<1> QED
  BY <1>1 DEF ArrayOK

LEMMA ObjectKept ==
  ASSUME NEW o, NEW bs \in Seq(Blocks), NEW b \in Blocks, ObjectOK(o, bs)
  PROVE  ObjectOK(o, Append(bs, b))
<1>1. o.block \in DOMAIN Append(bs, b) /\ Append(bs, b)[o.block] = bs[o.block]
  BY DEF ObjectOK
<1> QED
  BY <1>1 DEF ObjectOK

LEMMA FirstOf ==
  ASSUME NEW S, NEW s \in Seq(S), NEW m \in Nat, m <= Len(s)
  PROVE  /\ SubSeq(s, 1, m) \in Seq(S) /\ DOMAIN SubSeq(s, 1, m) = 1 .. m
         /\ \A k \in 1 .. m : SubSeq(s, 1, m)[k] = s[k]
<1>1. PICK l \in Nat : l = Len(s) /\ DOMAIN s = 1 .. l /\ m <= l
  OBVIOUS
<1>2. \A k \in 1 .. m : s[k] \in S
  BY <1>1
<1>3. SubSeq(s, 1, m) = [k \in 1 .. m |-> s[k]]
  BY <1>1
<1> QED
  BY <1>2, <1>3

\* The memory of the objects outlives the call.
LEMMA Outlives ==
  ASSUME NEW objs \in Seq(Objects), objs # <<>>, NEW bs \in Seq(Blocks),
         \A n \in DOMAIN objs : ObjectOK(objs[n], bs), NEW kept,
         kept = SubSeq(bs, 1, Max({objs[n].block : n \in DOMAIN objs}))
  PROVE  kept \in Seq(Blocks) /\ \A n \in DOMAIN objs : ObjectOK(objs[n], kept)
<1> DEFINE T == {objs[n].block : n \in DOMAIN objs}
<1>1. PICK l \in Nat : l = Len(bs) /\ DOMAIN bs = 1 .. l
  OBVIOUS
<1>2. \A n \in DOMAIN objs : objs[n].block \in 1 .. l
  BY <1>1 DEF ObjectOK
<1>3. T \subseteq Nat /\ T # {} /\ \A y \in T : y <= l
  <2>1. \E n \in DOMAIN objs : TRUE
    <3>1. 1 \in DOMAIN objs
      BY DEF Objects
    <3> QED
      BY <3>1
  <2> QED
    BY <1>2, <2>1
<1>4. PICK m \in Nat : m = Max(T) /\ m <= l /\ \A y \in T : y <= m
  BY <1>3, MaxIs
<1>5. kept = SubSeq(bs, 1, m)
  BY <1>4
<1>6. kept \in Seq(Blocks) /\ DOMAIN kept = 1 .. m /\ \A k \in 1 .. m : kept[k] = bs[k]
  <2>1. m \in Nat /\ m <= Len(bs)
    BY <1>1, <1>4
  <2> QED
    BY ONLY bs \in Seq(Blocks), <1>5, <2>1, FirstOf
<1>7. ASSUME NEW n \in DOMAIN objs PROVE ObjectOK(objs[n], kept)
  <2>1. objs[n].block \in 1 .. m
    BY <1>2, <1>4
  <2>2. objs[n].block \in DOMAIN kept /\ kept[objs[n].block] = bs[objs[n].block]
    BY <1>6, <2>1
  <2> QED
    BY <2>2 DEF ObjectOK
<1> QED
  BY <1>6, <1>7

----------------------------------------------------------------------------
(* Checks *)

\* A list of checks gives the error of one that fails, or none does.
LEMMA FirstFailedIs ==
  ASSUME NEW n \in Nat, NEW checks, DOMAIN checks = 1 .. n
  PROVE  \/ FirstFailed(checks) = "none" /\ \A k \in 1 .. n : checks[k][1]
         \/ \E k \in 1 .. n : FirstFailed(checks) = checks[k][2]
<1> DEFINE failed == {k \in DOMAIN checks : ~checks[k][1]}
<1>1. CASE failed = {}
  <2>1. \A k \in 1 .. n : checks[k][1]
    BY <1>1
  <2> QED
    BY <1>1, <2>1 DEF FirstFailed
<1>2. CASE failed # {}
  <2>1. failed \subseteq Nat
    OBVIOUS
  <2>2. \E x \in failed : \A y \in failed : x <= y
    <3> HIDE DEF failed
    <3> QED
      BY <1>2, <2>1, Least
  <2>3. Min(failed) \in failed
    <3> HIDE DEF failed
    <3> QED
      BY <2>2 DEF Min
  <2>4. FirstFailed(checks) = checks[Min(failed)][2]
    BY <1>2 DEF FirstFailed
  <2>5. Min(failed) \in 1 .. n
    BY <2>3
  <2> QED
    BY <2>4, <2>5
<1> QED
  BY <1>1, <1>2

LEMMA CreationChecked ==
  ASSUME NEW c
  PROVE  /\ CreationError(c) \in Errors \cup {"none"}
         /\ CreationError(c) = "none" =>
              LayoutOf(c.order) \in {"C", "F"} /\ c.shape # <<>> /\ ValuePasses(c)
<1> DEFINE checks == << <<LayoutOf(c.order) \in Layouts, "NumbaValueError">>,
                        <<c.shape # <<>>, "TypingError">>,
                        <<LayoutOf(c.order) # "A", "NotImplementedError">>,
                        <<ValuePasses(c), "RuntimeError">> >>
<1>1. DOMAIN checks = 1 .. 4
  OBVIOUS
<1>2. ASSUME checks[1][1], checks[2][1], checks[3][1], checks[4][1]
      PROVE  /\ LayoutOf(c.order) \in Layouts /\ c.shape # <<>> /\ LayoutOf(c.order) # "A"
             /\ ValuePasses(c)
  BY <1>2, Zenon
<1>3. \A k \in 1 .. 4 : checks[k][2] \in Errors
  BY DEF Errors
<1>4. FirstFailed(checks) = CreationError(c)
  BY DEF CreationError
<1> HIDE DEF checks
<1>5. \/ FirstFailed(checks) = "none" /\ \A k \in 1 .. 4 : checks[k][1]
      \/ \E k \in 1 .. 4 : FirstFailed(checks) = checks[k][2]
  BY <1>1, FirstFailedIs
<1>6. "none" \notin Errors
  BY DEF Errors
<1>7. CASE FirstFailed(checks) = "none" /\ \A k \in 1 .. 4 : checks[k][1]
  <2>1. checks[1][1] /\ checks[2][1] /\ checks[3][1] /\ checks[4][1]
    BY <1>7
  <2> QED
    BY <1>2, <1>4, <1>7, <2>1 DEF Layouts
<1>8. CASE \E k \in 1 .. 4 : FirstFailed(checks) = checks[k][2]
  BY <1>3, <1>4, <1>6, <1>8
<1> QED
  BY <1>5, <1>7, <1>8

LEMMA LikeChecked ==
  ASSUME NEW c, NEW a
  PROVE  /\ LikeError(c, a) \in Errors \cup {"none"}
         /\ LikeError(c, a) = "none" => c.order = Default /\ ValuePasses(c)
<1> DEFINE checks == << <<c.shape = Absent, "TypingError">>,
                        <<a.class = "dpnp" \/ c.fn = "full", "TypingError">>,
                        <<c.order = Default, "NumbaValueError">>,
                        <<ValuePasses(c), "RuntimeError">> >>
<1>1. DOMAIN checks = 1 .. 4
  OBVIOUS
<1>2. ASSUME checks[3][1], checks[4][1]
      PROVE  c.order = Default /\ ValuePasses(c)
  BY <1>2, Zenon
<1>3. \A k \in 1 .. 4 : checks[k][2] \in Errors
  BY DEF Errors
<1>4. FirstFailed(checks) = LikeError(c, a)
  BY DEF LikeError
<1> HIDE DEF checks
<1>5. \/ FirstFailed(checks) = "none" /\ \A k \in 1 .. 4 : checks[k][1]
      \/ \E k \in 1 .. 4 : FirstFailed(checks) = checks[k][2]
  BY <1>1, FirstFailedIs
<1>6. "none" \notin Errors
  BY DEF Errors
<1>7. CASE FirstFailed(checks) = "none" /\ \A k \in 1 .. 4 : checks[k][1]
  <2>1. checks[3][1] /\ checks[4][1]
    BY <1>7
  <2> QED
    BY <1>2, <1>4, <1>7, <2>1
<1>8. CASE \E k \in 1 .. 4 : FirstFailed(checks) = checks[k][2]
  BY <1>3, <1>4, <1>6, <1>8
<1> QED
  BY <1>5, <1>7, <1>8

LEMMA RunChecked ==
  ASSUME NEW c, NEW t, NEW shape, NEW queue, NEW allocated
  PROVE  /\ RunError(c, t, shape, queue, allocated) \in Errors \cup {"none"}
         /\ RunError(c, t, shape, queue, allocated) = "none" => c.fn = "empty" \/ ~FillFails(t)
<1> DEFINE checks ==
      << <<AllocSize(shape, t) <= MaxBytes, "ValueError">>,
         <<queue # "null" /\ (AllocSize(shape, t) > 0 \/ allocated), "MemoryError">>,
         <<c.fn = "empty" \/ ~FillFails(t), "MemoryError">> >>
<1>1. DOMAIN checks = 1 .. 3
  OBVIOUS
<1>2. ASSUME checks[3][1] PROVE c.fn = "empty" \/ ~FillFails(t)
  BY <1>2, Zenon
<1>3. \A k \in 1 .. 3 : checks[k][2] \in Errors
  BY DEF Errors
<1>4. FirstFailed(checks) = RunError(c, t, shape, queue, allocated)
  BY DEF RunError
<1> HIDE DEF checks
<1>5. \/ FirstFailed(checks) = "none" /\ \A k \in 1 .. 3 : checks[k][1]
      \/ \E k \in 1 .. 3 : FirstFailed(checks) = checks[k][2]
  BY <1>1, FirstFailedIs
<1>6. "none" \notin Errors
  BY DEF Errors
<1>7. CASE FirstFailed(checks) = "none" /\ \A k \in 1 .. 3 : checks[k][1]
  <2>1. checks[3][1]
    BY <1>7
  <2> QED
    BY <1>2, <1>4, <1>7, <2>1
<1>8. CASE \E k \in 1 .. 3 : FirstFailed(checks) = checks[k][2]
  BY <1>3, <1>4, <1>6, <1>8
<1> QED
  BY <1>5, <1>7, <1>8

\* What a call is made with.
LEMMA Called ==
  /\ Subscripts \subseteq Seq(Subscript)
  /\ \A c \in Creations : /\ c.shape \in Seq(Nat) /\ c.value \in Values
                          /\ CreatedDtype(c) \in Dtypes
  /\ \A c \in Likes : c.value \in Values
<1>1. Subscripts \subseteq Seq(Subscript)
  BY CallAssumption DEF Subscript
<1>2. ASSUME NEW c \in Creations PROVE CreatedDtype(c) \in Dtypes
  <2>1. c.dtype \in Dtypes \cup {DefaultDtype}
    BY CallAssumption
  <2>2. Float64 \in Dtypes /\ Int64 \in Dtypes /\ [kind |-> "uint", exp |-> 3] \in Dtypes
    BY DEF Float64, Int64, Dtypes
  <2>3. ValueDtype(c.value) \in Dtypes
    BY <2>2 DEF ValueDtype
  <2> QED
    BY <2>1, <2>2, <2>3 DEF CreatedDtype
<1> QED
  BY <1>1, <1>2, CallAssumption

LEMMA Passes ==
  ASSUME NEW c, ValuePasses(c), c.fn # "empty"
  PROVE  Value(c).ty \in Passing
  BY DEF ValuePasses, Passing

----------------------------------------------------------------------------
(* The invariant is inductive *)

LEMMA BlockFields ==
  /\ \A b \in Blocks : b.size \in Nat
  /\ \A n \in Nat : [size |-> n, fill |-> NoFill] \in Blocks
  BY DEF Blocks

Argument ==
  [class : Classes, data : Int, shape : Seq(Nat), strides : Seq(Int), dtype : Dtypes, size : Nat]

LEMMA ArgumentFields ==
  ASSUME NEW o \in Argument
  PROVE  /\ o.class \in Classes /\ o.data \in Int /\ o.shape \in Seq(Nat)
         /\ o.strides \in Seq(Int) /\ o.dtype \in Dtypes /\ o.size \in Nat
  BY DEF Argument

LEMMA ArgumentsAre ==
  /\ Arguments \in Seq(Argument) /\ Arguments # <<>>
  /\ \A n \in DOMAIN Arguments :
       /\ n \in Nat /\ Arguments[n] \in Argument
       /\ Len(Arguments[n].strides) = Len(Arguments[n].shape)
<1>1. Arguments \in Seq(Argument) /\ Arguments # <<>>
  BY CallAssumption, Zenon DEF Argument
<1>2. \A n \in DOMAIN Arguments : Len(Arguments[n].strides) = Len(Arguments[n].shape)
  BY CallAssumption, Zenon
<1>3. \A n \in DOMAIN Arguments : n \in Nat /\ Arguments[n] \in Argument
  BY ONLY <1>1
<1> QED
  BY <1>1, <1>2, <1>3

LEMMA ArgumentOK ==
  ASSUME Init, NEW n \in DOMAIN Arguments
  PROVE  n \in DOMAIN objects /\ ObjectOK(objects[n], blocks)
<1>1. PICK o : o = Arguments[n]
  OBVIOUS
<1>2. /\ o.class \in Classes /\ o.data \in Int /\ o.shape \in Seq(Nat) /\ o.strides \in Seq(Int)
      /\ o.dtype \in Dtypes /\ o.size \in Nat /\ Len(o.strides) = Len(o.shape)
  <2>1. o \in Argument /\ Len(o.strides) = Len(o.shape)
    BY <1>1, ArgumentsAre
  <2> QED
    BY <2>1, ArgumentFields
<1>3. PICK means : means = [i \in Indices(o.shape) |->
                              At(o.data, i, Times(o.strides, ItemSize(o.dtype)))]
  OBVIOUS
<1>4. /\ n \in DOMAIN objects
      /\ objects[n] = MakeFromPtr(o.class, n, o.data, o.shape, o.strides, o.dtype, means)
  BY <1>1, <1>3 DEF Init
<1>5. n \in DOMAIN blocks /\ blocks[n] = [size |-> o.size, fill |-> NoFill]
  BY <1>1 DEF Init
<1>6. blocks[n].fill = NoFill /\ blocks[n].size = o.size
  BY <1>5
<1>7. ASSUME ItemsApart PROVE Apart(means, ItemSize(o.dtype), o.size)
  BY <1>1, <1>3, <1>7 DEF ItemsApart
<1>8. ElementsIn(o.dtype, means, blocks[n])
  BY <1>6, <1>7 DEF ElementsIn
<1>9. n \in Nat
  BY ArgumentsAre
<1>10. n \in DOMAIN blocks
  BY <1>5
<1>11. ObjectOK(MakeFromPtr(o.class, n, o.data, o.shape, o.strides, o.dtype, means), blocks)
  BY ONLY <1>2, <1>3, <1>8, <1>9, <1>10, FromPtrOK
<1> QED
  BY <1>4, <1>11

LEMMA InitOK ==
  Init => IInv
<1> SUFFICES ASSUME Init PROVE IInv
  OBVIOUS
<1>1. \E l \in Nat : DOMAIN Arguments = 1 .. l /\ l > 0
  <2>1. Arguments \in Seq(Argument) /\ Arguments # <<>>
    BY ArgumentsAre
  <2>2. PICK l \in Nat : l = Len(Arguments)
    BY ONLY <2>1
  <2>3. DOMAIN Arguments = 1 .. l /\ l > 0
    BY ONLY <2>1, <2>2
  <2> QED
    BY <2>3
<1>0. PICK l \in Nat : DOMAIN Arguments = 1 .. l /\ l > 0
  BY <1>1
<1>2. DOMAIN objects = 1 .. l /\ DOMAIN blocks = 1 .. l
  BY <1>0 DEF Init
<1>3. \A n \in DOMAIN objects : ObjectOK(objects[n], blocks)
  BY <1>0, <1>2, ArgumentOK
<1>4. \A n \in 1 .. l : objects[n] \in Objects
  BY <1>2, <1>3 DEF ObjectOK
<1>5. \A n \in 1 .. l : blocks[n] \in Blocks
  <2> TAKE n \in 1 .. l
  <2>1. Arguments[n].size \in Nat
    BY <1>0, ArgumentsAre, ArgumentFields
  <2>2. blocks[n] = [size |-> Arguments[n].size, fill |-> NoFill]
    BY <1>0 DEF Init
  <2> QED
    BY <2>1, <2>2, BlockFields
<1>6. objects \in Seq(Objects) /\ objects # <<>>
  <2>1. objects = [n \in 1 .. l |-> objects[n]]
    BY <1>0 DEF Init
  <2> QED
    BY <1>0, <1>2, <1>4, <2>1
<1>7. blocks \in Seq(Blocks)
  <2>1. blocks = [n \in 1 .. l |-> blocks[n]]
    BY <1>0 DEF Init
  <2> QED
    BY <1>0, <1>2, <1>5, <2>1
<1>8. frame \in Seq(Arrays) /\ \A n \in DOMAIN frame : FALSE
  BY DEF Init
<1>9. ReturnedOK(returned, objects) /\ raised \in Errors \cup {"none"}
  BY DEF Init, ReturnedOK
<1> QED
  BY <1>3, <1>6, <1>7, <1>8, <1>9 DEF IInv

LEMMA Grown ==
  ASSUME NEW S, NEW s \in Seq(S), NEW x \in S
  PROVE  /\ Append(s, x) \in Seq(S) /\ Append(s, x) # <<>>
         /\ \A n \in DOMAIN s : n \in DOMAIN Append(s, x) /\ Append(s, x)[n] = s[n]
         /\ \A n \in DOMAIN Append(s, x) :
              (n \in DOMAIN s /\ Append(s, x)[n] = s[n]) \/ Append(s, x)[n] = x
         /\ Len(s) + 1 \in DOMAIN Append(s, x) /\ Append(s, x)[Len(s) + 1] = x
  OBVIOUS

\* A function gets one more array.
LEMMA EnterOK ==
  ASSUME IInv, NEW a, ArrayOK(a, objects, blocks), Enter(a), Stay
  PROVE  IInv'
<1>1. a \in Arrays
  BY DEF ArrayOK
<1>2. /\ frame' \in Seq(Arrays)
      /\ \A n \in DOMAIN frame' : (n \in DOMAIN frame /\ frame'[n] = frame[n]) \/ frame'[n] = a
  <2>1. frame \in Seq(Arrays) /\ frame' = Append(frame, a)
    BY DEF IInv, Enter
  <2> QED
    BY ONLY <1>1, <2>1, Grown
<1>3. UNCHANGED <<objects, blocks, returned, raised>>
  BY DEF Stay
<1>4. \A n \in DOMAIN frame' : ArrayOK(frame'[n], objects', blocks')
  <2>1. \A n \in DOMAIN frame : ArrayOK(frame[n], objects, blocks)
    BY DEF IInv
  <2> QED
    BY <1>2, <1>3, <2>1
<1> QED
  BY <1>2, <1>3, <1>4 DEF IInv

\* A call ends.
LEMMA EndOK ==
  ASSUME IInv, End, objects' \in Seq(Objects), objects' # <<>>,
         \A n \in DOMAIN objects' : ObjectOK(objects'[n], blocks),
         ReturnedOK(returned', objects'), raised' \in Errors \cup {"none"}
  PROVE  IInv'
<1>1. blocks \in Seq(Blocks)
  BY DEF IInv
<1>2. frame' = <<>> /\ blocks' = SubSeq(blocks, 1, Max({objects'[n].block : n \in DOMAIN objects'}))
  BY DEF End
<1>3. PICK objs : objs = objects'
  OBVIOUS
<1>4. blocks' \in Seq(Blocks) /\ \A n \in DOMAIN objects' : ObjectOK(objects'[n], blocks')
  <2>1. blocks' \in Seq(Blocks) /\ \A n \in DOMAIN objs : ObjectOK(objs[n], blocks')
    BY <1>1, <1>2, <1>3, Outlives
  <2> QED
    BY <1>3, <2>1
<1>5. frame' \in Seq(Arrays) /\ \A n \in DOMAIN frame' : FALSE
  BY <1>2
<1> QED
  BY <1>4, <1>5 DEF IInv

LEMMA RaiseOK ==
  ASSUME IInv, NEW e \in Errors, Raise(e)
  PROVE  IInv'
<1>1. raised' = e /\ UNCHANGED <<objects, returned>> /\ End
  BY DEF Raise
<1>2. /\ objects \in Seq(Objects) /\ objects # <<>>
      /\ \A n \in DOMAIN objects : ObjectOK(objects[n], blocks) /\ ReturnedOK(returned, objects)
  BY DEF IInv
<1>3. ReturnedOK(returned', objects')
  BY <1>1 DEF IInv
<1> QED
  BY <1>1, <1>2, <1>3, EndOK

LEMMA UnboxStep ==
  ASSUME IInv, NEW n \in DOMAIN objects, Unbox(n)
  PROVE  IInv'
<1>1. ObjectOK(objects[n], blocks) /\ n \in Nat
  BY DEF IInv
<1>2. objects[n].shape # <<>> /\ Enter(Unboxed(objects[n], n)) /\ Stay
  BY DEF Unbox, Unboxed
<1>3. ArrayOK(Unboxed(objects[n], n), objects, blocks)
  BY <1>1, <1>2, UnboxOK
<1> QED
  BY <1>2, <1>3, EnterOK

LEMMA GetitemStep ==
  ASSUME IInv, NEW n \in DOMAIN frame, NEW ix \in Subscripts, Getitem(n, ix) \/ GetitemTuple(n, ix)
  PROVE  IInv'
<1>1. ArrayOK(frame[n], objects, blocks)
  BY DEF IInv
<1>2. ix \in Seq(Subscript)
  BY Called
<1>3. PICK queue : Enter(View(frame[n], ix, queue)) /\ queue \in {frame[n].queue, "null"}
  BY DEF Getitem, GetitemTuple
<1>4. Subscriptable(n, ix) /\ Len(ix) > 0 /\ Stay
  BY DEF Getitem, GetitemTuple
<1>5. queue \in {"queue", "null"}
  <2>1. frame[n] \in Arrays
    BY <1>1 DEF ArrayOK
  <2> QED
    BY <1>3, <2>1, ArrayFields
<1>6. /\ Len(ix) <= Len(frame[n].shape) /\ Kept(frame[n], ix) # <<>>
      /\ \A d \in DOMAIN ix : Fits(ix[d], frame[n].shape[d])
  BY <1>4 DEF Subscriptable
<1>7. ArrayOK(View(frame[n], ix, queue), objects, blocks)
  BY <1>1, <1>2, <1>4, <1>5, <1>6, ViewOK
<1> QED
  BY <1>3, <1>4, <1>7, EnterOK

\* A constructor makes an array.
LEMMA MakeOK ==
  ASSUME IInv, NEW c, c.value \in Values, NEW t \in Dtypes, NEW layout \in {"C", "F"},
         NEW shape \in Seq(Nat), shape # <<>>, ValuePasses(c), c.fn = "empty" \/ ~FillFails(t),
         Make(c, t, layout, shape)
  PROVE  IInv'
<1> DEFINE b == Filled(c, t, AllocSize(shape, t))
           a == NewArray(Len(blocks) + 1, t, layout, shape)
<1>1. /\ blocks' = Append(blocks, b) /\ frame' = Append(frame, a)
      /\ UNCHANGED <<objects, returned, raised>>
  BY DEF Make, Enter, NewArray
<1>2. /\ objects # <<>> /\ objects \in Seq(Objects) /\ blocks \in Seq(Blocks) /\ frame \in Seq(Arrays)
      /\ \A n \in DOMAIN objects : ObjectOK(objects[n], blocks)
      /\ \A n \in DOMAIN frame : ArrayOK(frame[n], objects, blocks)
      /\ ReturnedOK(returned, objects) /\ raised \in Errors \cup {"none"}
  BY DEF IInv
<1>3. c.fn # "empty" => Value(c).ty \in Passing /\ ~FillFails(t)
  BY Passes
<1>4. Len(shape) > 0
  OBVIOUS
<1>5. b \in Blocks /\ ArrayOK(a, objects, Append(blocks, b))
  BY <1>2, <1>3, <1>4, NewOK
<1> HIDE DEF a, b
<1>6. blocks' \in Seq(Blocks)
  BY <1>1, <1>2, <1>5
<1>7. \A n \in DOMAIN objects' : ObjectOK(objects'[n], blocks')
  BY <1>1, <1>2, <1>5, ObjectKept
<1>8. a \in Arrays
  BY <1>5 DEF ArrayOK
<1>9. /\ frame' \in Seq(Arrays)
      /\ \A n \in DOMAIN frame' : (n \in DOMAIN frame /\ frame'[n] = frame[n]) \/ frame'[n] = a
  BY ONLY <1>1, <1>2, <1>8, Grown
<1>10. \A n \in DOMAIN frame' : ArrayOK(frame'[n], objects', blocks')
  <2> TAKE n \in DOMAIN frame'
  <2>1. CASE n \in DOMAIN frame /\ frame'[n] = frame[n]
    BY <1>1, <1>2, <1>5, <2>1, ArrayKept
  <2>2. CASE frame'[n] = a
    BY <1>1, <1>5, <2>2
  <2> QED
    BY <1>9, <2>1, <2>2
<1> QED
  BY <1>1, <1>2, <1>6, <1>7, <1>9, <1>10 DEF IInv

LEMMA CreateStep ==
  ASSUME IInv, NEW c \in Creations, Create(c) \/ CreateRefused(c)
  PROVE  IInv'
<1>1. c.shape \in Seq(Nat) /\ c.value \in Values /\ CreatedDtype(c) \in Dtypes
  BY Called
<1>2. CASE CreateRefused(c)
  <2>1. CreationError(c) \in Errors
    BY <1>2, CreationChecked DEF CreateRefused
  <2> QED
    BY <1>2, <2>1, RaiseOK DEF CreateRefused
<1>3. CASE Create(c)
  <2>1. LayoutOf(c.order) \in {"C", "F"} /\ c.shape # <<>> /\ ValuePasses(c)
    BY <1>3, CreationChecked DEF Create
  <2>2. PICK e : /\ e \in Errors \cup {"none"}
                 /\ e = "none" => c.fn = "empty" \/ ~FillFails(CreatedDtype(c))
                 /\ IF e = "none" THEN Make(c, CreatedDtype(c), LayoutOf(c.order), c.shape)
                    ELSE Raise(e)
    <3>1. PICK allocated \in BOOLEAN :
            LET e == RunError(c, CreatedDtype(c), c.shape, "queue", allocated)
            IN IF e = "none" THEN Make(c, CreatedDtype(c), LayoutOf(c.order), c.shape)
               ELSE Raise(e)
      BY <1>3 DEF Create
    <3> QED
      BY <3>1, RunChecked
  <2>3. CASE e = "none"
    BY <1>1, <2>1, <2>2, <2>3, MakeOK
  <2>4. CASE e # "none"
    BY <2>2, <2>4, RaiseOK
  <2> QED
    BY <2>3, <2>4
<1> QED
  BY <1>2, <1>3

LEMMA CreateLikeStep ==
  ASSUME IInv, NEW n \in DOMAIN frame, NEW c \in Likes,
         CreateLike(c, n) \/ CreateLikeRefused(c, n)
  PROVE  IInv'
<1>1. c.value \in Values
  BY Called
<1>2. PICK a : /\ a = frame[n] /\ a.shape \in Seq(Nat) /\ a.shape # <<>> /\ a.dtype \in Dtypes
  <2>1. frame[n] \in Arrays /\ Len(frame[n].shape) > 0
    BY DEF IInv, ArrayOK, Shaped
  <2>2. frame[n].shape \in Seq(Nat) /\ frame[n].dtype \in Dtypes
    BY <2>1, ArrayFields
  <2> QED
    BY <2>1, <2>2
<1>3. CASE CreateLikeRefused(c, n)
  <2>1. LikeError(c, a) \in Errors
    BY <1>2, <1>3, LikeChecked DEF CreateLikeRefused
  <2> QED
    BY <1>2, <1>3, <2>1, RaiseOK DEF CreateLikeRefused
<1>4. CASE CreateLike(c, n)
  <2>1. c.order = Default /\ ValuePasses(c)
    BY <1>2, <1>4, LikeChecked DEF CreateLike
  <2>2. LayoutOf(c.order) = "C"
    BY <2>1 DEF LayoutOf
  <2>3. PICK e : /\ e \in Errors \cup {"none"}
                 /\ e = "none" => c.fn = "empty" \/ ~FillFails(a.dtype)
                 /\ IF e = "none" THEN Make(c, a.dtype, LayoutOf(c.order), a.shape) ELSE Raise(e)
    <3>1. PICK allocated \in BOOLEAN :
            LET e == RunError(c, a.dtype, a.shape, a.queue, allocated)
            IN IF e = "none" THEN Make(c, a.dtype, LayoutOf(c.order), a.shape) ELSE Raise(e)
      BY <1>2, <1>4 DEF CreateLike
    <3> QED
      BY <3>1, RunChecked
  <2>4. CASE e = "none"
    BY <1>1, <1>2, <2>1, <2>2, <2>3, <2>4, MakeOK
  <2>5. CASE e # "none"
    BY <2>3, <2>5, RaiseOK
  <2> QED
    BY <2>4, <2>5
<1> QED
  BY <1>3, <1>4

LEMMA ReturnStep ==
  ASSUME IInv, NEW n \in DOMAIN frame, ReturnParent(n) \/ ReturnNew(n) \/ ReturnFails(n)
  PROVE  IInv'
<1>1. PICK a : a = frame[n] /\ ArrayOK(a, objects, blocks)
  BY DEF IInv
<1>2. /\ objects \in Seq(Objects) /\ objects # <<>> /\ raised \in Errors \cup {"none"}
      /\ \A m \in DOMAIN objects : ObjectOK(objects[m], blocks)
  BY DEF IInv
<1>3. CASE ReturnParent(n)
  <2>1. /\ a.parent # 0 /\ objects[a.parent].data = a.data
        /\ objects[a.parent].shape = a.shape /\ UnboxedStrides(objects[a.parent]) = a.strides
    BY <1>1, <1>3 DEF ReturnParent, SameAsParent
  <2>2. a.parent \in DOMAIN objects
    BY <1>1, <2>1 DEF ArrayOK
  <2>3. objects[a.parent].means = a.means /\ objects[a.parent].dtype = a.dtype
    BY <1>1, <1>2, <2>1, <2>2, ParentOK
  <2>4. /\ UNCHANGED <<objects, raised>> /\ End
        /\ returned' = [object |-> a.parent, means |-> a.means, dtype |-> a.dtype]
    BY <1>1, <1>3 DEF ReturnParent, Leave
  <2>5. ReturnedOK(returned', objects')
    BY <2>2, <2>3, <2>4 DEF ReturnedOK
  <2> QED
    BY <1>2, <2>4, <2>5, EndOK
<1>4. CASE ReturnNew(n)
  <2>1. PICK o : o = MakeFromPtr("dpnp", a.block, a.data, a.shape,
                       [d \in DOMAIN a.strides |-> a.strides[d] \div a.itemsize], a.dtype, a.means)
    OBVIOUS
  <2>2. ObjectOK(o, blocks)
    BY <1>1, <2>1, BoxOK
  <2>3. o \in Objects
    BY <2>2 DEF ObjectOK
  <2>4. /\ objects' = Append(objects, o) /\ UNCHANGED raised /\ End
        /\ returned' = [object |-> Len(objects) + 1, means |-> a.means, dtype |-> a.dtype]
    BY <1>1, <1>4, <2>1 DEF ReturnNew, Leave
  <2>5. /\ objects' \in Seq(Objects) /\ objects' # <<>>
        /\ \A m \in DOMAIN objects' :
             (m \in DOMAIN objects /\ objects'[m] = objects[m]) \/ objects'[m] = o
        /\ Len(objects) + 1 \in DOMAIN objects' /\ objects'[Len(objects) + 1] = o
    BY ONLY <1>2, <2>3, <2>4, Grown
  <2>6. \A m \in DOMAIN objects' : ObjectOK(objects'[m], blocks)
    BY <1>2, <2>2, <2>5
  <2>7. o.means = a.means /\ o.dtype = a.dtype
    BY <2>1 DEF MakeFromPtr
  <2>8. ReturnedOK(returned', objects')
    BY <2>4, <2>5, <2>7 DEF ReturnedOK
  <2> QED
    BY <1>2, <2>4, <2>5, <2>6, <2>8, EndOK
<1>5. CASE ReturnFails(n)
  <2>1. Raise("ValueError") /\ "ValueError" \in Errors
    BY <1>5 DEF ReturnFails, Errors
  <2> QED
    BY <2>1, RaiseOK
<1> QED
  BY <1>3, <1>4, <1>5

LEMMA StepOK ==
  IInv /\ [Next]_vars => IInv'
<1> SUFFICES ASSUME IInv, [Next]_vars PROVE IInv'
  OBVIOUS
<1>1. ASSUME NEW n \in DOMAIN objects, Unbox(n) PROVE IInv'
  BY <1>1, UnboxStep
<1>2. ASSUME NEW n \in DOMAIN objects, UnboxFails(n) PROVE IInv'
  <2>1. Raise("TypeError") /\ "TypeError" \in Errors
    BY <1>2 DEF UnboxFails, Errors
  <2> QED
    BY <2>1, RaiseOK
<1>3. ASSUME NEW n \in DOMAIN frame, NEW ix \in Subscripts, Getitem(n, ix) \/ GetitemTuple(n, ix)
      PROVE  IInv'
  BY <1>3, GetitemStep
<1>4. ASSUME NEW c \in Creations, Create(c) \/ CreateRefused(c) PROVE IInv'
  BY <1>4, CreateStep
<1>5. ASSUME NEW n \in DOMAIN frame, NEW c \in Likes, CreateLike(c, n) \/ CreateLikeRefused(c, n)
      PROVE  IInv'
  BY <1>5, CreateLikeStep
<1>6. ASSUME NEW n \in DOMAIN frame, ReturnParent(n) \/ ReturnNew(n) \/ ReturnFails(n)
      PROVE  IInv'
  BY <1>6, ReturnStep
<1>7. CASE Drop
  <2>1. UNCHANGED <<objects, returned, raised>> /\ End
    BY <1>7 DEF Drop
  <2>2. /\ objects \in Seq(Objects) /\ objects # <<>> /\ raised \in Errors \cup {"none"}
        /\ \A n \in DOMAIN objects : ObjectOK(objects[n], blocks)
        /\ ReturnedOK(returned, objects)
    BY DEF IInv
  <2> QED
    BY <2>1, <2>2, EndOK
<1>8. CASE GoOn
  BY <1>8 DEF GoOn, IInv
<1>9. CASE UNCHANGED vars
  BY <1>9 DEF vars, IInv
<1> QED
  BY <1>1, <1>2, <1>3, <1>4, <1>5, <1>6, <1>7, <1>8, <1>9 DEF Next

----------------------------------------------------------------------------
(* Theorems *)

\* Whatever the program's arrays, calls and subscripts are, the invariant holds.
THEOREM Invariance == Spec => []IInv
<1>1. Init => IInv
  BY InitOK
<1>2. IInv /\ [Next]_vars => IInv'
  BY StepOK
<1> QED
  BY <1>1, <1>2, PTL DEF Spec

\* Arrays and objects are in allocations, have as many strides as extents, and
\* their items are of the size of their type: after any calls of dpjit functions.
THEOREM TypeCorrect == Spec => []TypeOK
<1>1. IInv => TypeOK
  <2> SUFFICES ASSUME IInv PROVE TypeOK
    OBVIOUS
  <2>1. ASSUME NEW n \in DOMAIN frame
        PROVE  LET a == frame[n] IN
               /\ a.block \in DOMAIN blocks /\ a.parent \in {0} \cup DOMAIN objects
               /\ a.layout \in Layouts /\ a.queue \in {"queue", "null"}
               /\ Len(a.strides) = Len(a.shape) /\ Len(a.shape) > 0
               /\ a.itemsize = ItemSize(a.dtype)
               /\ DOMAIN a.means = Indices(a.shape)
    <3>1. PICK a : a = frame[n] /\ ArrayOK(a, objects, blocks)
      BY DEF IInv
    <3>2. a.layout \in Layouts /\ a.queue \in {"queue", "null"}
      BY <3>1, ArrayFields DEF ArrayOK
    <3>3. /\ a.block \in DOMAIN blocks /\ a.parent \in {0} \cup DOMAIN objects
          /\ Len(a.strides) = Len(a.shape) /\ Len(a.shape) > 0 /\ a.itemsize = ItemSize(a.dtype)
      BY <3>1 DEF ArrayOK, Shaped
    <3>4. DOMAIN a.means = Indices(a.shape)
      BY <3>1 DEF ArrayOK, Shaped
    <3> QED
      BY <3>1, <3>2, <3>3, <3>4
  <2>2. ASSUME NEW n \in DOMAIN objects
        PROVE  /\ objects[n].block \in DOMAIN blocks
               /\ objects[n].strides # Null => Len(objects[n].strides) = Len(objects[n].shape)
               /\ DOMAIN objects[n].means = Indices(objects[n].shape)
    <3>1. ObjectOK(objects[n], blocks)
      BY DEF IInv
    <3> QED
      BY <3>1 DEF ObjectOK
  <2>3. returned # Nothing => returned.object \in DOMAIN objects
    BY DEF IInv, ReturnedOK
  <2>4. raised \in Errors \cup {"none"}
    BY DEF IInv
  <2> QED
    BY <2>1, <2>2, <2>3, <2>4 DEF TypeOK
<1> QED
  BY <1>1, Invariance, PTL

\* Compiled code finds an element of an array where the array means it to be.
LEMMA NativeIs ==
  ASSUME NEW a \in Arrays, Shaped(a), NEW i \in Indices(a.shape)
  PROVE  NativeAddress(a, i) = a.means[i]
<1>1. /\ a.data \in Int /\ a.shape \in Seq(Nat) /\ a.strides \in Seq(Int) /\ a.layout \in Layouts
      /\ a.itemsize \in Nat /\ Len(a.strides) = Len(a.shape)
  BY ArrayFields DEF Shaped
<1>2. a.means[i] = At(a.data, i, a.strides)
  BY DEF Shaped
<1>3. /\ Times(RowMajor(a.shape), a.itemsize) \in Seq(Int)
      /\ Len(Times(RowMajor(a.shape), a.itemsize)) = Len(a.shape)
      /\ Times(ColumnMajor(a.shape), a.itemsize) \in Seq(Int)
      /\ Len(Times(ColumnMajor(a.shape), a.itemsize)) = Len(a.shape)
  BY <1>1, OrdersAre, TimesIs
<1>4. ASSUME NEW u \in Seq(Int), Len(u) = Len(a.shape), Follows(a.strides, a.shape, u)
      PROVE  At(a.data, i, u) = At(a.data, i, a.strides)
  <2>1. \A d \in 1 .. Len(a.shape) : a.strides[d] \in Int /\ u[d] \in Int
    BY <1>1, <1>4
  <2> QED
    BY <1>1, <1>4, <2>1, FollowsAddress
<1>5. CASE a.layout = "C"
  BY <1>2, <1>3, <1>4, <1>5 DEF NativeAddress, Shaped
<1>6. CASE a.layout = "F"
  BY <1>2, <1>3, <1>4, <1>6 DEF NativeAddress, Shaped
<1>7. CASE a.layout = "A"
  BY <1>2, <1>7 DEF NativeAddress
<1> QED
  BY <1>1, <1>5, <1>6, <1>7 DEF Layouts

\* The part of ElementsExact that is about addresses.
AddressesExact ==
  /\ \A n \in DOMAIN frame : \A i \in Indices(frame[n].shape) :
       NativeAddress(frame[n], i) = frame[n].means[i]
  /\ \A n \in DOMAIN objects : \A i \in Indices(objects[n].shape) :
       PythonAddress(objects[n], i) = objects[n].means[i]
  /\ returned # Nothing => LET o == objects[returned.object]
                           IN o.means = returned.means /\ o.dtype = returned.dtype

LEMMA AddressesAre == IInv => AddressesExact
<1> SUFFICES ASSUME IInv PROVE AddressesExact
  OBVIOUS
<1>1. ASSUME NEW n \in DOMAIN frame, NEW i \in Indices(frame[n].shape)
      PROVE  NativeAddress(frame[n], i) = frame[n].means[i]
  BY NativeIs DEF IInv, ArrayOK
<1>2. ASSUME NEW n \in DOMAIN objects, NEW i \in Indices(objects[n].shape)
      PROVE  PythonAddress(objects[n], i) = objects[n].means[i]
  BY DEF IInv, ObjectOK
<1>3. returned # Nothing => LET o == objects[returned.object]
                            IN o.means = returned.means /\ o.dtype = returned.dtype
  BY DEF IInv, ReturnedOK
<1> QED
  BY <1>1, <1>2, <1>3 DEF AddressesExact

\* Through unboxing, views of views, constructors and boxing, compiled code and
\* Python find each element of an array where it is, whatever the number of
\* dimensions and the strides of the program's own arrays.
THEOREM AddressesCorrect == Spec => []AddressesExact
  BY AddressesAre, Invariance, PTL

\* Besides, no two elements of an array share a byte and all are inside their
\* allocation, if that is so for the arrays that the program made before: dpctl
\* broadcasts an array over one element.
THEOREM ElementsCorrect ==
  ASSUME ItemsApart
  PROVE  Spec => []ElementsExact
<1>1. IInv => ElementsExact
  <2> SUFFICES ASSUME IInv PROVE ElementsExact
    OBVIOUS
  <2>1. AddressesExact
    BY AddressesAre
  <2>2. ASSUME NEW n \in DOMAIN frame
        PROVE  Separate(frame[n].block, frame[n].means, frame[n].itemsize)
    <3>1. PICK a : a = frame[n] /\ ArrayOK(a, objects, blocks)
      BY DEF IInv
    <3>2. Apart(a.means, a.itemsize, blocks[a.block].size)
      BY <3>1, ItemsApart DEF ArrayOK, ElementsIn, Shaped
    <3> QED
      BY <3>1, <3>2 DEF Apart, Separate
  <2> QED
    BY <2>1, <2>2 DEF AddressesExact, ElementsExact
<1> QED
  BY <1>1, Invariance, PTL

\* An element of an array holds what its block was filled with.
LEMMA ElementHolds ==
  ASSUME NEW b \in Blocks, NEW t \in Dtypes, NEW means, NEW i \in DOMAIN means,
         ElementsIn(t, means, b), b.fill # NoFill, Fillable(b, t)
  PROVE  Asked(t, b.asked) \in Read(b, means[i], t)
<1>1. FilledAs(b, t) /\ means[i] \in 0 .. b.size - ItemSize(t) /\ means[i] % ItemSize(t) = 0
  BY DEF ElementsIn
<1>2. Asked(t, b.asked) \in Decode(t, b.fill)
  BY <1>1, FillHolds DEF FilledAs
<1>3. PICK z \in Nat : z = ItemSize(t) /\ z > 0
  BY ItemSizeIs
<1>4. b.size \in Nat
  BY BlockFields
<1>5. PICK q : q = b.size \div z
  OBVIOUS
<1>6. q \in Nat /\ means[i] \div z < q
  <2>1. \A m, s \in Nat : m <= s - z /\ m % z = 0 => s \div z \in Nat /\ m \div z < s \div z
    BY <1>3
  <2> QED
    BY <1>1, <1>3, <1>4, <1>5, <2>1
<1>7. b.count = q
  <2>1. q < Pow2[CountBits]
    BY <1>3, <1>5 DEF Fillable
  <2>2. b.count = q % Pow2[CountBits]
    BY <1>1, <1>3, <1>5 DEF FilledAs, FillCount
  <2>3. Pow2[CountBits] \in Nat
    BY ArrayAssumption, Pow2Is
  <2> QED
    BY ONLY <1>6, <2>1, <2>2, <2>3
<1>8. b.item = z
  BY <1>1, <1>3 DEF FilledAs
<1> QED
  BY <1>1, <1>2, <1>3, <1>6, <1>7, <1>8 DEF Read

\* Every element of an array that zeros, ones or full made, seen through any view
\* of it and by Python, holds the value that the program gave, where a fill can
\* hold it: whatever the widths of the integers and of the count of elements.
THEOREM FilledCorrect == Spec => []FilledAsAsked
<1>1. IInv => FilledAsAsked
  <2> SUFFICES ASSUME IInv PROVE FilledAsAsked
    OBVIOUS
  <2> DEFINE Holds(block, t, address) ==
        blocks[block].fill # NoFill /\ Fillable(blocks[block], t) =>
          Asked(t, blocks[block].asked) \in Read(blocks[block], address, t)
  <2>1. \A k \in DOMAIN blocks : blocks[k] \in Blocks
    BY DEF IInv
  <2>2. ASSUME NEW n \in DOMAIN frame, NEW i \in Indices(frame[n].shape)
        PROVE  Holds(frame[n].block, frame[n].dtype, NativeAddress(frame[n], i))
    <3>1. PICK a : a = frame[n] /\ ArrayOK(a, objects, blocks)
      BY DEF IInv
    <3>2. /\ a \in Arrays /\ Shaped(a) /\ a.block \in DOMAIN blocks
          /\ ElementsIn(a.dtype, a.means, blocks[a.block])
      BY <3>1 DEF ArrayOK
    <3>3. a.dtype \in Dtypes
      BY <3>2, ArrayFields
    <3>4. i \in DOMAIN a.means /\ NativeAddress(a, i) = a.means[i]
      BY <3>1, <3>2, NativeIs DEF Shaped
    <3> QED
      BY <2>1, <3>1, <3>2, <3>3, <3>4, ElementHolds
  <2>3. ASSUME NEW n \in DOMAIN objects, NEW i \in Indices(objects[n].shape)
        PROVE  Holds(objects[n].block, objects[n].dtype, PythonAddress(objects[n], i))
    <3>1. PICK o : o = objects[n] /\ ObjectOK(o, blocks)
      BY DEF IInv
    <3>2. /\ o \in Objects /\ o.block \in DOMAIN blocks
          /\ ElementsIn(o.dtype, o.means, blocks[o.block])
          /\ i \in DOMAIN o.means /\ PythonAddress(o, i) = o.means[i]
      BY <3>1 DEF ObjectOK
    <3>3. o.dtype \in Dtypes
      BY <3>2, ObjectFields
    <3> QED
      BY <2>1, <3>1, <3>2, <3>3, ElementHolds
  <2> QED
    BY <2>2, <2>3 DEF FilledAsAsked
<1> QED
  BY <1>1, Invariance, PTL

================================================================================
