-------------------------- MODULE MpcField_proofs ---------------------------
(***************************************************************************)
(* Facts about the arithmetic of mpc_field.c and the sums that             *)
(* mpc_share.c, mpc_runner.c and the operator build with it, for every     *)
(* modulus, word size and number of summands.                              *)
(*                                                                         *)
(* The sums are recursive functions, so the facts about them need          *)
(* induction.  It is done with sets: SetInduction says that a set of       *)
(* naturals with 0 in it, closed under successor, holds all of them, and   *)
(* each inductive proof defines the set of the n for which its claim holds.*)
(***************************************************************************)
EXTENDS MpcField, TLAPS, WellFoundedInduction

(* Induction over Nat for a set in place of a predicate.                   *)
LEMMA SetInduction ==
  ASSUME NEW S, 0 \in S, \A n \in S : n \in Nat => n + 1 \in S
  PROVE  Nat \subseteq S
<1> DEFINE T == Nat \ S
<1>1. ASSUME T # {} PROVE FALSE
  <2>1. IsWellFoundedOn(OpToRel(<, Nat), Nat)
    BY NatLessThanWellFounded, Zenon
  <2>2. PICK x \in T : \A y \in T : ~(<<y, x>> \in OpToRel(<, Nat))
    BY <1>1, <2>1, WFMin
  <2>3. \A y \in T : ~(y < x)
    BY <2>2 DEF OpToRel
  <2>4. x # 0 /\ x - 1 \in Nat /\ x - 1 < x
    OBVIOUS
  <2>5. x - 1 \in S
    BY <2>3, <2>4
  <2>6. QED
    BY <2>4, <2>5
<1>2. QED
  BY <1>1

-----------------------------------------------------------------------------
(* field_add never wraps: on field elements it is addition with one        *)
(* conditional subtraction, whatever the word size beyond 2P.              *)
LEMMA AddValue ==
  ASSUME NEW a \in Field, NEW b \in Field
  PROVE  field_add(a, b) = IF a + b >= P THEN a + b - P ELSE a + b
<1>1. a + b \in 0 .. (Word - 1)
  BY FieldAssumption DEF Field
<1>2. (a + b) % Word = a + b
  BY <1>1, FieldAssumption
<1>3. QED
  BY <1>2, FieldAssumption DEF field_add, U32, Field

(* field_sub never wraps either.                                           *)
LEMMA SubValue ==
  ASSUME NEW a \in Field, NEW b \in Field
  PROVE  field_sub(a, b) = IF a >= b THEN a - b ELSE a + P - b
<1>1. CASE a >= b
  BY <1>1 DEF field_sub
<1>2. CASE ~(a >= b)
  <2>1. a + P - b \in 0 .. (Word - 1)
    BY <1>2, FieldAssumption DEF Field
  <2>2. (a + P - b) % Word = a + P - b
    BY <2>1, FieldAssumption
  <2>3. QED
    BY <1>2, <2>2 DEF field_sub, U32
<1>3. QED
  BY <1>1, <1>2

(* field_mul never wraps: the product of two words fits into 64 bits.      *)
LEMMA MulValue ==
  ASSUME NEW a \in Field, NEW b \in Field
  PROVE  /\ field_mul(a, b) = (a * b) % P
         /\ a * b \in Nat
<1>1. a \in Nat /\ b \in Nat /\ a < Word /\ b < Word /\ Word \in Nat
  BY FieldAssumption DEF Field
<1>2. a * b \in Nat /\ a * b <= a * Word /\ a * Word < Word * Word
  <2>1. a * b \in Nat
    BY <1>1
  <2>2. a * Word = a * b + a * (Word - b) /\ a * (Word - b) >= 0
    BY <1>1
  <2>3. Word * Word = a * Word + (Word - a) * Word /\ (Word - a) * Word > 0
    BY <1>1
  <2>4. a * Word \in Nat /\ a * (Word - b) \in Nat
    BY <1>1, <2>2
  <2>5. Word * Word \in Nat /\ (Word - a) * Word \in Nat
    BY <1>1, <2>3
  <2>6. QED
    BY <2>1, <2>2, <2>3, <2>4, <2>5
<1> DEFINE x == a * b
           W == Word * Word
<1>3. x \in Nat /\ W \in Nat /\ x < W
  <2>1. a * Word \in Nat /\ Word * Word \in Nat
    BY <1>1
  <2>2. QED
    BY <1>2, <2>1
<1>4. U64(a * b) = x % W
  BY DEF U64
<1> HIDE DEF x, W
<1>5. x % W = x
  BY <1>3
<1>6. field_mul(a, b) = x % P
  BY <1>4, <1>5 DEF field_mul
<1>7. QED
  BY <1>2, <1>6 DEF x

(* "field_add(a, b) -- (a + b) mod p", "field_sub(a, b) -- (a - b) mod p"  *)
(* and "field_mul(a, b) -- (a * b) mod p" (mpc_field.h): the results are in*)
(* the field and are those residues.                                       *)
THEOREM FieldArithmetic ==
  ASSUME NEW a \in Field, NEW b \in Field
  PROVE  /\ field_add(a, b) \in Field
         /\ field_add(a, b) = (a + b) % P
         /\ field_sub(a, b) \in Field
         /\ field_sub(a, b) = (a - b) % P
         /\ field_mul(a, b) \in Field
         /\ field_mul(a, b) = (a * b) % P
<1>1. a \in 0 .. (P - 1) /\ b \in 0 .. (P - 1) /\ P \in Nat \ {0}
  BY FieldAssumption DEF Field
<1>2. field_add(a, b) \in Field /\ field_add(a, b) = (a + b) % P
  <2>1. field_add(a, b) = IF a + b >= P THEN a + b - P ELSE a + b
    BY AddValue
  <2>2. CASE a + b >= P
    <3>1. a + b - P \in 0 .. (P - 1) /\ a + b = 1 * P + (a + b - P)
      BY <1>1, <2>2
    <3>2. (a + b) % P = a + b - P
      BY <1>1, <3>1
    <3>3. QED
      BY <2>1, <2>2, <3>1, <3>2 DEF Field
  <2>3. CASE ~(a + b >= P)
    BY <1>1, <2>1, <2>3 DEF Field
  <2>4. QED
    BY <2>2, <2>3
<1>3. field_sub(a, b) \in Field /\ field_sub(a, b) = (a - b) % P
  <2>1. field_sub(a, b) = IF a >= b THEN a - b ELSE a + P - b
    BY SubValue
  <2>2. CASE a >= b
    BY <1>1, <2>1, <2>2 DEF Field
  <2>3. CASE ~(a >= b)
    <3>1. a + P - b \in 0 .. (P - 1) /\ a - b = -1 * P + (a + P - b)
      BY <1>1, <2>3
    <3>2. (a - b) % P = a + P - b
      BY <1>1, <3>1
    <3>3. QED
      BY <2>1, <2>3, <3>1, <3>2 DEF Field
  <2>4. QED
    BY <2>2, <2>3
<1>4. field_mul(a, b) \in Field /\ field_mul(a, b) = (a * b) % P
  <2>1. field_mul(a, b) = (a * b) % P /\ a * b \in Nat
    BY MulValue
  <2> DEFINE x == a * b
  <2>2. x \in Nat
    BY <2>1
  <2> HIDE DEF x
  <2>3. x % P \in 0 .. (P - 1)
    BY <1>1, <2>2
  <2>4. field_mul(a, b) = x % P
    BY <2>1 DEF x
  <2>5. QED
    BY <2>1, <2>3, <2>4 DEF Field
<1>5. QED
  BY <1>2, <1>3, <1>4

(* field_rand returns the elements of the field, each of them, and nothing *)
(* else (mpc_field.c:87-112): two_p does not wrap, and a word below it is  *)
(* folded by at most one subtraction.  This is why the protocol's model    *)
(* draws its randomness from Field.                                        *)
THEOREM RandomDraws == RandResults = Field
<1>1. two_p = 2 * P /\ P \in Nat /\ P > 0 /\ Word \in Nat /\ 2 * P < Word
  <2>1. 2 * P \in 0 .. (Word - 1) /\ P \in Nat /\ P > 0 /\ Word \in Nat
    BY FieldAssumption
  <2>2. (2 * P) % Word = 2 * P
    BY <2>1
  <2>3. QED
    BY <2>1, <2>2, FieldAssumption DEF two_p, U32
<1>2. ASSUME NEW w \in 0 .. (Word - 1), RandAccepts(w)
      PROVE  RandFold(w) \in Field
  BY <1>1, <1>2 DEF RandAccepts, RandFold, Field
<1>3. ASSUME NEW x \in Field
      PROVE  x \in 0 .. (Word - 1) /\ RandAccepts(x) /\ RandFold(x) = x
  BY <1>1 DEF RandAccepts, RandFold, Field
<1>4. RandResults \subseteq Field
  BY <1>2 DEF RandResults
<1>5. Field \subseteq RandResults
  BY <1>3 DEF RandResults
<1>6. QED
  BY <1>4, <1>5

(* The laws of an abelian group that the sums below need.                  *)
LEMMA AddType ==
  ASSUME NEW a \in Field, NEW b \in Field
  PROVE  field_add(a, b) \in Field
BY FieldArithmetic

LEMMA AddComm ==
  ASSUME NEW a \in Field, NEW b \in Field
  PROVE  field_add(a, b) = field_add(b, a)
<1>1. /\ field_add(a, b) = IF a + b >= P THEN a + b - P ELSE a + b
      /\ field_add(b, a) = IF b + a >= P THEN b + a - P ELSE b + a
  BY AddValue
<1>2. QED
  BY <1>1, FieldAssumption DEF Field

LEMMA AddZero ==
  ASSUME NEW a \in Field
  PROVE  0 \in Field /\ field_add(a, 0) = a /\ field_add(0, a) = a
<1>1. 0 \in Field
  BY FieldAssumption DEF Field
<1>2. QED
  BY <1>1, AddValue, FieldAssumption DEF Field

LEMMA AddAssoc ==
  ASSUME NEW a \in Field, NEW b \in Field, NEW c \in Field
  PROVE  field_add(field_add(a, b), c) = field_add(a, field_add(b, c))
<1>1. field_add(a, b) \in Field /\ field_add(b, c) \in Field
  BY AddType
<1>2. /\ field_add(field_add(a, b), c) =
           IF field_add(a, b) + c >= P
           THEN field_add(a, b) + c - P ELSE field_add(a, b) + c
      /\ field_add(a, field_add(b, c)) =
           IF a + field_add(b, c) >= P
           THEN a + field_add(b, c) - P ELSE a + field_add(b, c)
  BY <1>1, AddValue
<1>3. /\ field_add(a, b) = IF a + b >= P THEN a + b - P ELSE a + b
      /\ field_add(b, c) = IF b + c >= P THEN b + c - P ELSE b + c
  BY AddValue
<1>4. QED
  BY <1>2, <1>3, FieldAssumption DEF Field

(* What field_sub takes away field_add gives back.                         *)
LEMMA SubAdd ==
  ASSUME NEW s \in Field, NEW a \in Field
  PROVE  field_add(a, field_sub(s, a)) = s
<1>1. field_sub(s, a) \in Field
  BY FieldArithmetic
<1>2. field_add(a, field_sub(s, a)) =
        IF a + field_sub(s, a) >= P
        THEN a + field_sub(s, a) - P ELSE a + field_sub(s, a)
  BY <1>1, AddValue
<1>3. QED
  BY <1>2, SubValue, FieldAssumption DEF Field

(* Interchange: (a + b) + (c + d) = (a + c) + (b + d).                     *)
LEMMA AddSwap ==
  ASSUME NEW a \in Field, NEW b \in Field, NEW c \in Field, NEW d \in Field
  PROVE  field_add(field_add(a, b), field_add(c, d)) =
         field_add(field_add(a, c), field_add(b, d))
<1>1. /\ field_add(b, c) \in Field /\ field_add(c, d) \in Field
      /\ field_add(b, d) \in Field /\ field_add(c, b) \in Field
  BY AddType
<1>2. field_add(field_add(a, b), field_add(c, d)) =
      field_add(a, field_add(b, field_add(c, d)))
  BY <1>1, AddAssoc
<1>3. field_add(b, field_add(c, d)) = field_add(c, field_add(b, d))
  BY AddAssoc, AddComm
<1>4. field_add(a, field_add(c, field_add(b, d))) =
      field_add(field_add(a, c), field_add(b, d))
  BY <1>1, AddAssoc
<1>5. QED
  BY <1>2, <1>3, <1>4

-----------------------------------------------------------------------------
(* The recursion of FieldFold has a solution ...                           *)
LEMMA FoldExists ==
  ASSUME NEW init, NEW f
  PROVE  \E g : g = [k \in Nat |-> IF k = 0 THEN init
                                   ELSE field_add(g[k - 1], f[k - 1])]
<1> DEFINE Up(g, n) == /\ g[0] = init
                       /\ \A k \in 1 .. n : g[k] = field_add(g[k - 1], f[k - 1])
           S == {n \in Nat : \E g : Up(g, n)}
<1>1. Nat \subseteq S
  <2>1. 0 \in S
    <3>1. Up([k \in {0} |-> init], 0)
      OBVIOUS
    <3>2. QED
      BY <3>1
  <2>2. ASSUME NEW n \in S, n \in Nat PROVE n + 1 \in S
    <3>1. PICK g : Up(g, n)
      OBVIOUS
    <3> DEFINE h == [k \in 0 .. (n + 1) |->
                       IF k = n + 1 THEN field_add(g[n], f[n]) ELSE g[k]]
    <3>2. h[0] = init
      BY <3>1, <2>2
    <3>3. ASSUME NEW k \in 1 .. (n + 1)
          PROVE  h[k] = field_add(h[k - 1], f[k - 1])
      <4>1. CASE k = n + 1
        BY <4>1, <2>2
      <4>2. CASE k # n + 1
        BY <4>2, <3>1, <2>2
      <4>3. QED
        BY <4>1, <4>2
    <3>4. Up(h, n + 1)
      BY <3>2, <3>3
    <3> HIDE DEF h
    <3>5. QED
      BY <3>4, <2>2
  <2>3. QED
    BY <2>1, <2>2, SetInduction
<1>2. ASSUME NEW n \in Nat, NEW m \in Nat, m <= n,
             NEW g, NEW h, Up(g, n), Up(h, m)
      PROVE  g[m] = h[m]
  <2> DEFINE A == {k \in Nat : k <= m => g[k] = h[k]}
  <2>1. 0 \in A
    BY <1>2
  <2>2. ASSUME NEW k \in A, k \in Nat PROVE k + 1 \in A
    <3>1. ASSUME k + 1 <= m PROVE g[k + 1] = h[k + 1]
      <4>1. k + 1 \in 1 .. n /\ k + 1 \in 1 .. m /\ (k + 1) - 1 = k
        BY <3>1, <1>2, <2>2
      <4>2. g[k] = h[k]
        BY <3>1, <2>2
      <4>3. g[k + 1] = field_add(g[k], f[k]) /\ h[k + 1] = field_add(h[k], f[k])
        BY <4>1, <1>2
      <4>4. QED
        BY <4>2, <4>3
    <3>2. QED
      BY <3>1, <2>2
  <2>3. Nat \subseteq A
    BY <2>1, <2>2, SetInduction
  <2>4. QED
    BY <2>3
<1> DEFINE G(n) == CHOOSE g : Up(g, n)
           acc == [n \in Nat |-> G(n)[n]]
<1>3. \A n \in Nat : Up(G(n), n)
  BY <1>1
<1> HIDE DEF G
<1>4. ASSUME NEW k \in Nat
      PROVE  acc[k] = IF k = 0 THEN init ELSE field_add(acc[k - 1], f[k - 1])
  <2>1. CASE k = 0
    BY <2>1, <1>3
  <2>2. CASE k # 0
    <3>1. k - 1 \in Nat /\ k - 1 <= k /\ k \in 1 .. k
      BY <2>2
    <3>2. G(k)[k] = field_add(G(k)[k - 1], f[k - 1])
      BY <3>1, <1>3
    <3>3. Up(G(k), k) /\ Up(G(k - 1), k - 1)
      BY <3>1, <1>3
    <3>4. G(k)[k - 1] = G(k - 1)[k - 1]
      BY <3>1, <3>3, <1>2
    <3>5. acc[k] = G(k)[k] /\ acc[k - 1] = G(k - 1)[k - 1]
      BY <3>1
    <3>6. QED
      BY <3>2, <3>4, <3>5, <2>2
  <2>3. QED
    BY <2>1, <2>2
<1>5. acc = [k \in Nat |-> IF k = 0 THEN init ELSE field_add(acc[k - 1], f[k - 1])]
  <2> DEFINE rhs == [k \in Nat |-> IF k = 0 THEN init
                                   ELSE field_add(acc[k - 1], f[k - 1])]
  <2>1. acc = [k \in Nat |-> acc[k]]
    OBVIOUS
  <2> HIDE DEF acc
  <2>2. QED
    BY <2>1, <1>4
<1>6. QED
  BY <1>5

(* ... so the fold of n + 1 summands is the fold of n plus the next.       *)
LEMMA FoldStep ==
  ASSUME NEW init, NEW f
  PROVE  /\ FieldFold(init, f, 0) = init
         /\ \A n \in Nat :
              FieldFold(init, f, n + 1) = field_add(FieldFold(init, f, n), f[n])
<1> DEFINE R(h) == h = [k \in Nat |-> IF k = 0 THEN init
                                     ELSE field_add(h[k - 1], f[k - 1])]
           acc == CHOOSE h : R(h)
<1>1. R(acc)
  BY FoldExists
<1>2. \A n \in Nat : FieldFold(init, f, n) = acc[n]
  BY DEF FieldFold
<1> HIDE DEF acc
<1>3. acc[0] = init
  BY <1>1
<1>4. ASSUME NEW n \in Nat PROVE acc[n + 1] = field_add(acc[n], f[n])
  <2>1. n + 1 \in Nat /\ n + 1 # 0 /\ (n + 1) - 1 = n
    OBVIOUS
  <2>2. QED
    BY <1>1, <2>1
<1>5. QED
  BY <1>2, <1>3, <1>4

LEMMA FoldNext ==
  ASSUME NEW init, NEW f, NEW n \in Nat
  PROVE  FieldFold(init, f, n + 1) = field_add(FieldFold(init, f, n), f[n])
BY FoldStep

(* A fold of field elements is a field element.                            *)
LEMMA FoldType ==
  ASSUME NEW init \in Field, NEW f, NEW n \in Nat,
         \A k \in 0 .. (n - 1) : f[k] \in Field
  PROVE  FieldFold(init, f, n) \in Field
<1> DEFINE S == {m \in Nat : m <= n => FieldFold(init, f, m) \in Field}
<1>1. 0 \in S
  BY FoldStep
<1>2. ASSUME NEW m \in S, m \in Nat PROVE m + 1 \in S
  <2>1. ASSUME m + 1 <= n PROVE FieldFold(init, f, m + 1) \in Field
    <3>1. f[m] \in Field /\ FieldFold(init, f, m) \in Field
      BY <2>1, <1>2
    <3>2. FieldFold(init, f, m + 1) = field_add(FieldFold(init, f, m), f[m])
      BY ONLY FoldNext, <1>2
    <3>3. QED
      BY <3>1, <3>2, AddType
  <2>2. QED
    BY <2>1, <1>2
<1>3. Nat \subseteq S
  BY <1>1, <1>2, SetInduction
<1>4. QED
  BY <1>3

(* Folds of equal summands are equal.                                      *)
LEMMA FoldCong ==
  ASSUME NEW init, NEW f, NEW g, NEW n \in Nat,
         \A k \in 0 .. (n - 1) : f[k] = g[k]
  PROVE  FieldFold(init, f, n) = FieldFold(init, g, n)
<1> DEFINE S == {m \in Nat : m <= n => FieldFold(init, f, m) = FieldFold(init, g, m)}
<1>1. 0 \in S
  BY FoldStep
<1>2. ASSUME NEW m \in S, m \in Nat PROVE m + 1 \in S
  <2>1. /\ FieldFold(init, f, m + 1) = field_add(FieldFold(init, f, m), f[m])
        /\ FieldFold(init, g, m + 1) = field_add(FieldFold(init, g, m), g[m])
    BY ONLY FoldNext, <1>2
  <2>2. m + 1 <= n => f[m] = g[m] /\ FieldFold(init, f, m) = FieldFold(init, g, m)
    BY <1>2
  <2>3. QED
    BY <2>1, <2>2, <1>2
<1>3. Nat \subseteq S
  BY <1>1, <1>2, SetInduction
<1>4. QED
  BY <1>3

(* The start value of a fold can be added at the end.                      *)
LEMMA FoldShift ==
  ASSUME NEW init \in Field, NEW f, NEW n \in Nat,
         \A k \in 0 .. (n - 1) : f[k] \in Field
  PROVE  FieldFold(init, f, n) = field_add(init, FieldFold(0, f, n))
<1> DEFINE S == {m \in Nat : m <= n =>
                   FieldFold(init, f, m) = field_add(init, FieldFold(0, f, m))}
<1>1. 0 \in S
  BY FoldStep, AddZero
<1>2. ASSUME NEW m \in S, m \in Nat PROVE m + 1 \in S
  <2>1. ASSUME m + 1 <= n
        PROVE  FieldFold(init, f, m + 1) = field_add(init, FieldFold(0, f, m + 1))
    <3>1. /\ FieldFold(init, f, m + 1) = field_add(FieldFold(init, f, m), f[m])
          /\ FieldFold(0, f, m + 1) = field_add(FieldFold(0, f, m), f[m])
      BY ONLY FoldNext, <1>2
    <3>2. f[m] \in Field /\ (\A k \in 0 .. (m - 1) : f[k] \in Field)
      BY <2>1, <1>2
    <3>3. FieldFold(0, f, m) \in Field
      BY <3>2, <1>2, AddZero, FoldType
    <3>4. FieldFold(init, f, m) = field_add(init, FieldFold(0, f, m))
      BY <2>1, <1>2
    <3>5. QED
      BY <3>1, <3>2, <3>3, <3>4, AddAssoc
  <2>2. QED
    BY <2>1, <1>2
<1>3. Nat \subseteq S
  BY <1>1, <1>2, SetInduction
<1>4. QED
  BY <1>3

(* The sum of zeros is zero.                                               *)
LEMMA SumZero ==
  ASSUME NEW f, NEW n \in Nat, \A k \in 0 .. (n - 1) : f[k] = 0
  PROVE  FieldFold(0, f, n) = 0
<1> DEFINE S == {m \in Nat : m <= n => FieldFold(0, f, m) = 0}
<1>1. 0 \in S
  BY FoldStep
<1>2. ASSUME NEW m \in S, m \in Nat PROVE m + 1 \in S
  <2>1. FieldFold(0, f, m + 1) = field_add(FieldFold(0, f, m), f[m])
    BY ONLY FoldNext, <1>2
  <2>2. field_add(0, 0) = 0
    BY FieldAssumption, AddZero DEF Field
  <2>3. m + 1 <= n => f[m] = 0 /\ FieldFold(0, f, m) = 0
    BY <1>2
  <2>4. QED
    BY <2>1, <2>2, <2>3, <1>2
<1>3. Nat \subseteq S
  BY <1>1, <1>2, SetInduction
<1>4. QED
  BY <1>3

(* The sum of termwise sums is the sum of the sums.                        *)
LEMMA SumAdd ==
  ASSUME NEW f, NEW g, NEW h, NEW n \in Nat,
         \A k \in 0 .. (n - 1) : /\ f[k] \in Field /\ g[k] \in Field
                                 /\ h[k] = field_add(f[k], g[k])
  PROVE  FieldFold(0, h, n) = field_add(FieldFold(0, f, n), FieldFold(0, g, n))
<1> DEFINE S == {m \in Nat : m <= n =>
          FieldFold(0, h, m) = field_add(FieldFold(0, f, m), FieldFold(0, g, m))}
<1>1. 0 \in S
  BY FoldStep, AddZero, FieldAssumption DEF Field
<1>2. ASSUME NEW m \in S, m \in Nat PROVE m + 1 \in S
  <2>1. ASSUME m + 1 <= n
        PROVE  FieldFold(0, h, m + 1) =
               field_add(FieldFold(0, f, m + 1), FieldFold(0, g, m + 1))
    <3>1. /\ FieldFold(0, f, m + 1) = field_add(FieldFold(0, f, m), f[m])
          /\ FieldFold(0, g, m + 1) = field_add(FieldFold(0, g, m), g[m])
          /\ FieldFold(0, h, m + 1) = field_add(FieldFold(0, h, m), h[m])
      BY ONLY FoldNext, <1>2
    <3>2. /\ f[m] \in Field /\ g[m] \in Field /\ h[m] = field_add(f[m], g[m])
          /\ \A k \in 0 .. (m - 1) : f[k] \in Field /\ g[k] \in Field
      BY <2>1, <1>2
    <3>3. FieldFold(0, f, m) \in Field /\ FieldFold(0, g, m) \in Field
      BY <3>2, <1>2, FoldType, FieldAssumption DEF Field
    <3>4. FieldFold(0, h, m) = field_add(FieldFold(0, f, m), FieldFold(0, g, m))
      BY <2>1, <1>2
    <3>5. QED
      BY <3>1, <3>2, <3>3, <3>4, AddSwap
  <2>2. QED
    BY <2>1, <1>2
<1>3. Nat \subseteq S
  BY <1>1, <1>2, SetInduction
<1>4. QED
  BY <1>3

(* A sum with one summand filled in: that summand plus the rest.           *)
LEMMA SumPoint ==
  ASSUME NEW f, NEW h, NEW n \in Nat, NEW i \in 0 .. (n - 1), NEW x \in Field,
         \A k \in 0 .. (n - 1) : f[k] \in Field,
         f[i] = 0, h[i] = x,
         \A k \in 0 .. (n - 1) : k # i => h[k] = f[k]
  PROVE  FieldFold(0, h, n) = field_add(x, FieldFold(0, f, n))
<1> DEFINE S == {m \in Nat : m <= n =>
                   FieldFold(0, h, m) = IF i < m THEN field_add(x, FieldFold(0, f, m))
                                                ELSE FieldFold(0, f, m)}
<1>0. 0 \in Field
  BY FieldAssumption DEF Field
<1>1. 0 \in S
  BY FoldStep
<1>2. ASSUME NEW m \in S, m \in Nat PROVE m + 1 \in S
  <2>1. ASSUME m + 1 <= n
        PROVE  FieldFold(0, h, m + 1) =
                 IF i < m + 1 THEN field_add(x, FieldFold(0, f, m + 1))
                              ELSE FieldFold(0, f, m + 1)
    <3>1. /\ FieldFold(0, f, m + 1) = field_add(FieldFold(0, f, m), f[m])
          /\ FieldFold(0, h, m + 1) = field_add(FieldFold(0, h, m), h[m])
      BY ONLY FoldNext, <1>2
    <3>2. m \in 0 .. (n - 1) /\ f[m] \in Field /\ \A k \in 0 .. (m - 1) : f[k] \in Field
      BY <2>1, <1>2
    <3>3. FieldFold(0, f, m) \in Field
      BY <3>2, <1>2, <1>0, FoldType
    <3>4. FieldFold(0, h, m) = IF i < m THEN field_add(x, FieldFold(0, f, m))
                                       ELSE FieldFold(0, f, m)
      BY <2>1, <1>2
    <3>5. CASE i < m
      <4>1. h[m] = f[m]
        BY <3>2, <3>5
      <4>2. QED
        BY <3>1, <3>2, <3>3, <3>4, <3>5, <4>1, <1>2, AddAssoc
    <3>6. CASE i = m
      <4>1. FieldFold(0, f, m + 1) = FieldFold(0, f, m)
        BY <3>1, <3>3, <3>6, AddZero
      <4>2. FieldFold(0, h, m + 1) = field_add(FieldFold(0, f, m), x)
        BY <3>1, <3>4, <3>6, <1>2
      <4>3. QED
        BY <3>3, <3>6, <4>1, <4>2, <1>2, AddComm
    <3>7. CASE m < i
      <4>1. h[m] = f[m]
        BY <3>2, <3>7
      <4>2. QED
        BY <3>1, <3>4, <3>7, <4>1, <1>2
    <3>8. QED
      BY <3>5, <3>6, <3>7, <1>2
  <2>2. QED
    BY <2>1, <1>2
<1>3. Nat \subseteq S
  BY <1>1, <1>2, SetInduction
<1>4. n \in S /\ i < n
  BY <1>3
<1>5. QED
  BY <1>4

(* A square of summands gives the same total by rows and by columns.       *)
LEMMA SumSquare ==
  ASSUME NEW n \in Nat, NEW M,
         \A i, j \in 0 .. (n - 1) : M[i][j] \in Field
  PROVE  FieldFold(0, [i \in 0 .. (n - 1) |-> FieldFold(0, M[i], n)], n) =
         FieldFold(0, [j \in 0 .. (n - 1) |->
                         FieldFold(0, [i \in 0 .. (n - 1) |-> M[i][j]], n)], n)
<1> DEFINE D == 0 .. (n - 1)
           rows == [i \in D |-> FieldFold(0, M[i], n)]
           col(j) == [i \in D |-> M[i][j]]
           cols(m) == [j \in D |-> FieldFold(0, col(j), m)]
           S == {m \in Nat : m <= n =>
                   FieldFold(0, rows, m) = FieldFold(0, cols(m), n)}
<1>0. 0 \in Field
  BY FieldAssumption DEF Field
<1>1. 0 \in S
  <2>1. \A j \in D : cols(0)[j] = 0
    BY FoldStep
  <2>2. FieldFold(0, cols(0), n) = 0
    BY <2>1, SumZero
  <2>3. FieldFold(0, rows, 0) = 0
    BY FoldStep
  <2>4. QED
    BY <2>2, <2>3
<1>2. ASSUME NEW m \in S, m \in Nat PROVE m + 1 \in S
  <2>1. ASSUME m + 1 <= n
        PROVE  FieldFold(0, rows, m + 1) = FieldFold(0, cols(m + 1), n)
    <3>1. m \in D
      BY <2>1, <1>2
    <3>2. FieldFold(0, rows, m + 1) =
            field_add(FieldFold(0, cols(m), n), FieldFold(0, M[m], n))
      <4>1. FieldFold(0, rows, m + 1) = field_add(FieldFold(0, rows, m), rows[m])
        BY ONLY FoldNext, <1>2
      <4>2. FieldFold(0, rows, m) = FieldFold(0, cols(m), n)
        BY <2>1, <1>2
      <4>3. rows[m] = FieldFold(0, M[m], n)
        BY <3>1
      <4>4. QED
        BY <4>1, <4>2, <4>3
    <3>3. ASSUME NEW j \in D
          PROVE  /\ cols(m)[j] \in Field /\ M[m][j] \in Field
                 /\ cols(m + 1)[j] = field_add(cols(m)[j], M[m][j])
      <4>1. M[m][j] \in Field /\ col(j)[m] = M[m][j]
        BY <3>1
      <4>2. \A k \in 0 .. (m - 1) : k \in D /\ col(j)[k] \in Field
        BY <2>1, <1>2
      <4>3. FieldFold(0, col(j), m) \in Field
        BY <4>2, <1>2, <1>0, FoldType
      <4>4. FieldFold(0, col(j), m + 1) =
              field_add(FieldFold(0, col(j), m), col(j)[m])
        BY ONLY FoldNext, <1>2
      <4>5. QED
        BY <4>1, <4>3, <4>4
    <3> HIDE DEF cols
    <3>4. FieldFold(0, cols(m + 1), n) =
            field_add(FieldFold(0, cols(m), n), FieldFold(0, M[m], n))
      BY <3>3, SumAdd
    <3>5. QED
      BY <3>2, <3>4
  <2>2. QED
    BY <2>1, <1>2
<1>3. Nat \subseteq S
  BY <1>1, <1>2, SetInduction
<1>4. n \in S
  BY <1>3
<1>5. QED
  BY <1>4

(* share_split is undone by share_reconstruct whatever field_rand drew:    *)
(* the shares are field elements and their sum is the secret.              *)
THEOREM SharesReconstruct ==
  ASSUME NEW s \in Field, NEW n \in Nat \ {0}, NEW rand \in [0 .. (n - 2) -> Field]
  PROVE  /\ share_split(s, rand, n) \in [0 .. (n - 1) -> Field]
         /\ share_reconstruct(share_split(s, rand, n), n) = s
<1> DEFINE sh == share_split(s, rand, n)
           run == FieldFold(0, rand, n - 1)
<1>1. 0 \in Field /\ n - 1 \in Nat /\ (n - 1) - 1 = n - 2
  BY FieldAssumption DEF Field
<1>2. \A k \in 0 .. (n - 2) : rand[k] \in Field
  OBVIOUS
<1>3. run \in Field
  BY <1>1, <1>2, FoldType
<1>4. field_sub(s, run) \in Field
  BY <1>3, FieldArithmetic
<1>5. sh \in [0 .. (n - 1) -> Field]
  BY <1>2, <1>4 DEF share_split
<1>6. \A k \in 0 .. ((n - 1) - 1) : sh[k] = rand[k]
  BY DEF share_split
<1>7. sh[n - 1] = field_sub(s, run)
  BY DEF share_split
<1>8. FieldFold(0, sh, n - 1) = run
  BY <1>1, <1>6, FoldCong
<1>9. FieldFold(0, sh, n) = field_add(run, field_sub(s, run))
  <2>1. (n - 1) + 1 = n
    OBVIOUS
  <2>2. FieldFold(0, sh, (n - 1) + 1) =
          field_add(FieldFold(0, sh, n - 1), sh[n - 1])
    BY <1>1, FoldNext
  <2>3. QED
    BY <2>1, <2>2, <1>7, <1>8
<1>10. field_add(run, field_sub(s, run)) = s
  BY <1>3, SubAdd
<1>11. QED
  BY <1>5, <1>9, <1>10 DEF share_reconstruct
=============================================================================
