-------------------------- MODULE Algorithms_proofs --------------------------
(***************************************************************************)
(* The loader of the configuration accepts the right files, whatever their *)
(* length, and field_inv inverts in every prime field.                     *)
(***************************************************************************)
EXTENDS MC_Algorithms, FiniteSetTheorems, SequenceTheorems, TLAPS

-----------------------------------------------------------------------------
(* The extended Euclidean algorithm.                                       *)

(* With x = |t| and y = |newt|, whose signs differ, x newr + y r stays P,  *)
(* and y is the larger: this bounds both by P, and both lines are          *)
(* congruences modulo P.                                                   *)
Opposite(x, y, t1, t2) == (t1 = x /\ t2 = 0 - y) \/ (t1 = 0 - x /\ t2 = y)
EuclidInv ==
  /\ a \in Field /\ r \in Nat /\ newr \in Nat /\ newr < r /\ r <= P
  /\ \E x, y \in Nat : /\ Opposite(x, y, t, newt)
                       /\ 1 <= y /\ x <= y /\ x * newr + y * r = P
  /\ \E k \in Int : a * t - r = k * P
  /\ \E k \in Int : a * newt - newr = k * P

LEMMA PrimeFacts ==
  /\ P \in Nat /\ P > 1 /\ Word \in Nat /\ 2 * P < Word
  /\ \A d \in 2 .. (P - 1) : P % d # 0
BY FieldAssumption, PrimeAssumption

(* Division with remainder.                                                *)
LEMMA DivisionFacts ==
  ASSUME NEW m \in Nat, NEW d \in Nat, 0 < d
  PROVE  /\ m \div d \in Nat /\ m - (m \div d) * d \in 0 .. (d - 1)
         /\ d <= m => 1 <= m \div d
<1>1. m \div d \in Nat /\ m = d * (m \div d) + (m % d) /\ m % d \in 0 .. (d - 1)
  OBVIOUS
<1> DEFINE q == m \div d
           s == m % d
<1>2. q \in Nat /\ s \in 0 .. (d - 1) /\ m = d * q + s
  BY <1>1
<1> HIDE DEF q, s
<1>3. q * d = d * q
  BY ONLY <1>2, d \in Nat
<1>4. m - q * d = s
  BY <1>2, <1>3
<1>5. d <= m => 1 <= q
  <2>1. q = 0 => m = s
    BY ONLY <1>2, d \in Nat
  <2>2. QED
    BY <1>2, <2>1
<1>6. QED
  BY <1>2, <1>4, <1>5 DEF q

(* A multiple of P has remainder 0, and one more than it remainder 1.      *)
LEMMA ResidueFacts ==
  ASSUME NEW z \in Int, NEW k \in Int, NEW s \in 0 .. (P - 1), z = k * P + s
  PROVE  z % P = s
<1>1. P \in Nat /\ P > 1
  BY PrimeFacts
<1>2. QED
  BY <1>1

LEMMA EuclidInitInv == EuclidInit => EuclidInv
<1> SUFFICES ASSUME EuclidInit PROVE EuclidInv
  OBVIOUS
<1>1. /\ a \in Nat /\ a < P /\ t = 0 /\ newt = 1 /\ r = P /\ newr = a
      /\ P \in Nat /\ P > 1
  BY PrimeFacts DEF EuclidInit, Field
<1>2. Opposite(0, 1, t, newt) /\ 0 * newr + 1 * r = P
  <2>1. t = 0 - 0 /\ newt = 1
    BY <1>1
  <2>2. Opposite(0, 1, t, newt)
    BY ONLY <2>1 DEF Opposite
  <2>3. QED
    BY <1>1, <2>2
<1>3. a * t - r = (-1) * P /\ a * newt - newr = 0 * P /\ -1 \in Int
  BY <1>1
<1>4. \E x, y \in Nat : /\ Opposite(x, y, t, newt)
                        /\ 1 <= y /\ x <= y /\ x * newr + y * r = P
  BY <1>2
<1>5. QED
  <2>1. (\E k \in Int : a * t - r = k * P) /\ (\E k \in Int : a * newt - newr = k * P)
    BY <1>3
  <2>2. newr < r /\ r <= P /\ newr \in Nat /\ r \in Nat /\ a \in Field
    BY <1>1 DEF EuclidInit
  <2>3. QED
    BY ONLY <2>1, <2>2, <1>4 DEF EuclidInv

LEMMA DivideInv ==
  ASSUME EuclidInv, Divide
  PROVE  EuclidInv'
<1> DEFINE q == r \div newr
<1>1. /\ r \in Nat /\ newr \in Nat /\ 0 < newr /\ newr < r /\ r <= P /\ P \in Nat
      /\ a \in Nat /\ a \in Field
  BY PrimeFacts DEF EuclidInv, Divide, Field
<1>2. q \in Nat /\ 1 <= q /\ r - q * newr \in 0 .. (newr - 1)
  BY <1>1, DivisionFacts
<1>3. /\ t' = newt /\ newt' = t - q * newt /\ r' = newr /\ newr' = r - q * newr
      /\ a' = a
  BY DEF Divide
<1> HIDE DEF q
<1>4. PICK x \in Nat, y \in Nat : /\ Opposite(x, y, t, newt)
                                  /\ 1 <= y /\ x <= y /\ x * newr + y * r = P
  BY DEF EuclidInv
<1>5. t \in Int /\ newt \in Int
  BY <1>4 DEF Opposite
<1>6. \E u, v \in Nat : /\ Opposite(u, v, t', newt')
                        /\ 1 <= v /\ u <= v /\ u * newr' + v * r' = P
  <2> DEFINE v == x + q * y
  <2>0. q * y \in Nat /\ y <= q * y
    BY ONLY <1>2, <1>4
  <2>1. v \in Nat /\ 1 <= v /\ y <= v
    BY ONLY <1>4, <2>0
  <2>2. y * (r - q * newr) + (x + q * y) * newr = x * newr + y * r
    BY ONLY <1>1, <1>2, <1>4
  <2>3. y * newr' + v * r' = P
    BY <1>3, <1>4, <2>2
  <2>4. (t = x /\ newt = 0 - y => newt' = v) /\ (t = 0 - x /\ newt = y => newt' = 0 - v)
    BY ONLY <1>2, <1>3, <1>4
  <2>5. Opposite(y, v, t', newt')
    <3>1. (t = x /\ newt = 0 - y) \/ (t = 0 - x /\ newt = y)
      BY <1>4 DEF Opposite
    <3>2. t' = newt
      BY <1>3
    <3> HIDE DEF v
    <3>3. QED
      BY ONLY <3>1, <3>2, <2>4 DEF Opposite
  <2> HIDE DEF v
  <2>6. QED
    BY <1>4, <2>1, <2>3, <2>5
<1>7. PICK k \in Int : a * t - r = k * P
  BY DEF EuclidInv
<1>8. PICK l \in Int : a * newt - newr = l * P
  BY DEF EuclidInv
<1>9. a' * t' - r' = l * P
  BY <1>3, <1>8
<1>10. a' * newt' - newr' = (k - q * l) * P
  <2>1. a * (t - q * newt) - (r - q * newr) = (a * t - r) - q * (a * newt - newr)
    BY ONLY <1>1, <1>2, <1>5
  <2>2. k * P - q * (l * P) = (k - q * l) * P
    BY ONLY <1>1, <1>2, <1>7, <1>8
  <2>3. QED
    BY <1>3, <1>7, <1>8, <2>1, <2>2
<1>11. k - q * l \in Int
  BY <1>2
<1>12. QED
  <2>1. (\E m \in Int : a' * t' - r' = m * P) /\ (\E m \in Int : a' * newt' - newr' = m * P)
    BY <1>9, <1>10, <1>11
  <2>2. a' \in Field /\ r' \in Nat /\ newr' \in Nat /\ newr' < r' /\ r' <= P
    BY <1>1, <1>2, <1>3
  <2>3. P' = P /\ Field' = Field
    OBVIOUS
  <2>4. QED
    BY ONLY <2>1, <2>2, <2>3, <1>6 DEF EuclidInv

(* "Invariant: at each step r = a * t (mod p)" and "all values stay within *)
(* [-p, p]" (mpc_field.c:59-85).                                           *)
LEMMA EuclidBounds == EuclidInv => EuclidInvariant
<1> SUFFICES ASSUME EuclidInv PROVE EuclidInvariant
  OBVIOUS
<1>1. /\ r \in Nat /\ newr \in Nat /\ newr < r /\ r <= P /\ P \in Nat /\ P > 1
      /\ a \in Nat
  BY PrimeFacts DEF EuclidInv, Field
<1>2. PICK x \in Nat, y \in Nat : /\ Opposite(x, y, t, newt)
                                  /\ 1 <= y /\ x <= y /\ x * newr + y * r = P
  BY DEF EuclidInv
<1>3. y <= P
  <2>1. x * newr \in Nat /\ y <= y * r /\ y * r \in Nat
    BY ONLY <1>1, <1>2
  <2>2. QED
    BY ONLY <1>1, <1>2, <2>1
<1>4. {t, newt} \subseteq -P .. P
  BY <1>1, <1>2, <1>3 DEF Opposite
<1>5. t \in Int /\ newt \in Int
  BY <1>2 DEF Opposite
<1>6. (a * t - r) % P = 0
  <2>1. PICK k \in Int : a * t - r = k * P
    BY DEF EuclidInv
  <2>2. a * t - r \in Int /\ a * t - r = k * P + 0
    BY <1>1, <1>5, <2>1
  <2>3. QED
    BY <1>1, <2>2, ResidueFacts
<1>7. (a * newt - newr) % P = 0
  <2>1. PICK k \in Int : a * newt - newr = k * P
    BY DEF EuclidInv
  <2>2. a * newt - newr \in Int /\ a * newt - newr = k * P + 0
    BY <1>1, <1>5, <2>1
  <2>3. QED
    BY <1>1, <2>2, ResidueFacts
<1>8. QED
  BY <1>1, <1>4, <1>6, <1>7 DEF EuclidInvariant

-----------------------------------------------------------------------------
(* The result.  When the remainders have ended, y r = P with y = |newt|;   *)
(* P is prime, so r is 1, or it is P and a would be a multiple of P.       *)

LEMMA NotAMultiple ==
  ASSUME NEW z \in Int, NEW k \in Int, 0 < z, z < P
  PROVE  z # k * P
<1>1. P \in Nat /\ P > 1
  BY PrimeFacts
<1>2. SUFFICES ASSUME z = k * P PROVE FALSE
  OBVIOUS
<1>3. k <= 0 => k * P <= 0
  BY ONLY <1>1, k \in Int
<1>4. k >= 1 => k * P >= P
  BY ONLY <1>1, k \in Int
<1>5. QED
  BY <1>1, <1>2, <1>3, <1>4

LEMMA LastRemainderIsOne ==
  ASSUME EuclidInv, a # 0, newr = 0
  PROVE  r = 1
<1>1. /\ r \in Nat /\ 0 < r /\ r <= P /\ P \in Nat /\ P > 1
      /\ a \in Nat /\ 0 < a /\ a < P
  BY PrimeFacts DEF EuclidInv, Field
<1>2. PICK x \in Nat, y \in Nat : /\ Opposite(x, y, t, newt)
                                  /\ 1 <= y /\ x <= y /\ x * newr + y * r = P
  BY DEF EuclidInv
<1>3. y * r = P
  BY <1>1, <1>2
<1>4. r \notin 2 .. (P - 1)
  <2>1. SUFFICES ASSUME r \in 2 .. (P - 1) PROVE FALSE
    OBVIOUS
  <2>2. P % r = 0
    <3>1. \A m \in Nat, d \in Nat : d > 0 =>
            m % d \in 0 .. (d - 1) /\ m = d * (m \div d) + (m % d) /\ m \div d \in Nat
      OBVIOUS
    <3>2. P % r \in 0 .. (r - 1) /\ P = r * (P \div r) + (P % r) /\ P \div r \in Nat
      BY <1>1, <3>1
    <3> DEFINE q == P \div r
               s == P % r
    <3>3. s \in 0 .. (r - 1) /\ P = r * q + s /\ q \in Nat
      BY <3>2
    <3> HIDE DEF q, s
    <3>4. r * (y - q) = s
      BY ONLY <1>1, <1>2, <1>3, <3>3
    <3>5. y - q \in Int
      BY ONLY <1>2, <3>3
    <3>6. (y - q >= 1 => r * (y - q) >= r) /\ (y - q <= 0 => r * (y - q) <= 0)
      BY ONLY <1>1, <3>5
    <3>7. s = 0
      BY ONLY <1>1, <3>3, <3>4, <3>5, <3>6
    <3>8. QED
      BY <3>7 DEF s
  <2>3. QED
    BY <2>1, <2>2, PrimeFacts
<1>5. r # P
  <2>1. SUFFICES ASSUME r = P PROVE FALSE
    OBVIOUS
  <2>2. y = 1
    <3>1. y >= 2 => y * P >= 2 * P
      BY ONLY <1>1, <1>2
    <3>2. QED
      BY <1>1, <1>2, <1>3, <2>1, <3>1
  <2>3. newt = 0 - 1 \/ newt = 1
    BY <1>2, <2>2 DEF Opposite
  <2>4. PICK l \in Int : a * newt - newr = l * P
    BY DEF EuclidInv
  <2>5. newt = 1 => a = l * P
    BY <1>1, <2>4
  <2>6. newt = 0 - 1 => a = (0 - l) * P
    <3>1. newt = 0 - 1 => 0 - a = l * P
      BY <1>1, <2>4
    <3>2. (0 - l) * P = 0 - l * P
      BY ONLY <1>1, <2>4
    <3>3. QED
      BY <1>1, <2>4, <3>1, <3>2
  <2>7. QED
    BY <1>1, <2>3, <2>4, <2>5, <2>6, NotAMultiple
<1>6. QED
  BY <1>1, <1>4, <1>5

LEMMA ResultCorrect ==
  ASSUME EuclidInv, InvResult
  PROVE  InverseCorrect'
<1>1. a # 0 /\ newr = 0 /\ a' = a /\ inverse' = U32(IF t < 0 THEN t + P ELSE t)
  BY DEF InvResult
<1>2. /\ P \in Nat /\ P > 1 /\ a \in Nat /\ 0 < a /\ a < P
      /\ Word \in Nat /\ 2 * P < Word
  BY <1>1, PrimeFacts DEF EuclidInv, Field
<1>3. r = 1
  BY <1>1, LastRemainderIsOne
<1>4. t \in -P .. P
  BY EuclidBounds DEF EuclidInvariant
<1>5. PICK k \in Int : a * t - 1 = k * P
  BY <1>3 DEF EuclidInv
<1>6. t # P /\ t # -P
  <2>0. \A m \in Int : 1 # m * P
    BY <1>2, NotAMultiple
  <2>1. a * P - 1 # k * P
    <3>1. (a - k) * P = a * P - k * P /\ a - k \in Int
      BY ONLY <1>2, <1>5
    <3>2. 1 # (a - k) * P
      BY <2>0, <3>1
    <3>3. QED
      BY ONLY <1>2, <1>5, <3>1, <3>2
  <2>2. a * (0 - P) - 1 # k * P
    <3>1. (0 - a - k) * P = 0 - a * P - k * P /\ 0 - a - k \in Int
          /\ a * (0 - P) = 0 - a * P
      BY ONLY <1>2, <1>5
    <3>2. 1 # (0 - a - k) * P
      BY <2>0, <3>1
    <3>3. QED
      BY ONLY <1>2, <1>5, <3>1, <3>2
  <2>3. -P = 0 - P
    BY <1>2
  <2>4. QED
    BY <1>5, <2>1, <2>2, <2>3
<1> DEFINE u == IF t < 0 THEN t + P ELSE t
           l == IF t < 0 THEN k + a ELSE k
<1>7. u \in 0 .. (P - 1)
  BY <1>2, <1>4, <1>6
<1>8. l \in Int /\ a * u = l * P + 1
  <2>1. a * (t + P) = a * t + a * P /\ (k + a) * P = k * P + a * P
    BY ONLY <1>2, <1>4, <1>5
  <2>2. CASE t < 0
    BY <1>2, <1>4, <1>5, <2>1, <2>2
  <2>3. CASE ~(t < 0)
    BY <1>2, <1>4, <1>5, <2>3
  <2>4. QED
    BY <2>2, <2>3
<1>9. inverse' = U32(u)
  BY <1>1
<1> HIDE DEF u, l
<1>10. inverse' = u
  BY <1>2, <1>7, <1>9 DEF U32
<1>11. a * u \in Nat /\ a * u < Word * Word
  <2>1. a * u <= a * Word /\ a * Word < Word * Word /\ a * u \in Nat /\ a * Word \in Nat /\ Word * Word \in Nat
    BY ONLY <1>2, <1>7
  <2>2. QED
    BY ONLY <2>1
<1>12. U64(a * u) = a * u
  <2> DEFINE z == a * u
             W == Word * Word
  <2>1. z \in Nat /\ W \in Nat /\ z < W
    BY <1>2, <1>11
  <2> HIDE DEF z, W
  <2>2. z % W = z
    BY ONLY <2>1
  <2>3. QED
    BY <2>2 DEF U64, z, W
<1>13. (a * u) % P = 1
  <2>1. 1 \in 0 .. (P - 1) /\ a * u \in Int
    BY <1>2, <1>11
  <2>2. QED
    BY <1>8, <2>1, ResidueFacts
<1>14. field_mul(a, u) = 1
  BY <1>12, <1>13 DEF field_mul
<1>15. QED
  BY <1>1, <1>7, <1>10, <1>14 DEF InverseCorrect, Field

LEMMA ResultOfZero ==
  ASSUME InvOfZero
  PROVE  InverseCorrect'
<1>1. a = 0 /\ a' = 0 /\ inverse' = 0
  BY DEF InvOfZero
<1>2. P \in Nat /\ P > 1 /\ Word \in Nat /\ 0 < Word
  BY PrimeFacts
<1>3. Word * Word \in Nat /\ 0 < Word * Word
  BY ONLY <1>2
<1>4. field_mul(0, 0) = 0
  <2>1. \A d \in Nat : 0 < d => 0 % d = 0
    OBVIOUS
  <2>2. 0 * 0 = 0
    OBVIOUS
  <2>3. QED
    BY <1>2, <1>3, <2>1, <2>2 DEF field_mul, U64
<1>5. QED
  BY <1>1, <1>2, <1>4 DEF InverseCorrect, Field

LEMMA EuclidStutters ==
  ASSUME EuclidInv /\ InverseCorrect, UNCHANGED euclid
  PROVE  (EuclidInv /\ InverseCorrect)'
<1>1. a' = a /\ t' = t /\ newt' = newt /\ r' = r /\ newr' = newr /\ inverse' = inverse
  BY DEF euclid
<1>2. EuclidInv'
  BY <1>1 DEF EuclidInv
<1>3. InverseCorrect'
  BY <1>1 DEF InverseCorrect
<1>4. QED
  BY <1>2, <1>3

LEMMA EuclidNextInv ==
  ASSUME EuclidInv /\ InverseCorrect, EuclidNext \/ UNCHANGED euclid
  PROVE  (EuclidInv /\ InverseCorrect)'
<1>1. CASE UNCHANGED euclid
  BY <1>1, EuclidStutters
<1>2. CASE Divide
  <2>1. EuclidInv'
    BY <1>2, DivideInv
  <2>2. inverse' = -1
    BY <1>2 DEF Divide
  <2>3. QED
    BY <2>1, <2>2 DEF InverseCorrect
<1>3. ASSUME InvResult \/ InvOfZero PROVE EuclidInv'
  <2>1. a' = a /\ t' = t /\ newt' = newt /\ r' = r /\ newr' = newr
    BY <1>3 DEF InvResult, InvOfZero
  <2>2. QED
    BY <2>1 DEF EuclidInv
<1>4. QED
  BY <1>1, <1>2, <1>3, ResultCorrect, ResultOfZero DEF EuclidNext

LEMMA EuclidAlways == Spec => [](EuclidInv /\ InverseCorrect)
<1>1. Init => EuclidInv /\ InverseCorrect
  BY EuclidInitInv DEF Init, EuclidInit, InverseCorrect
<1>2. EuclidInv /\ InverseCorrect /\ [Next]_<<loader, euclid>>
        => (EuclidInv /\ InverseCorrect)'
  <2>1. [Next]_<<loader, euclid>> => EuclidNext \/ UNCHANGED euclid
    BY DEF Next
  <2>2. QED
    BY <2>1, EuclidNextInv
<1>3. QED
  BY <1>1, <1>2, PTL DEF Spec

(* "Invariant: at each step r = a * t (mod p)" and "all values stay within *)
(* [-p, p]" (mpc_field.c:59-85), for every prime and argument.             *)
THEOREM EuclidCorrect == Spec => []EuclidInvariant
BY EuclidAlways, EuclidBounds, PTL

(* field_inv returns the inverse in the field, and 0 for 0, for every      *)
(* prime whose double fits the word.                                       *)
THEOREM InversionCorrect == Spec => []InverseCorrect
BY EuclidAlways, PTL

-----------------------------------------------------------------------------
(* The loader.                                                             *)

(* What the loop has gathered: the ids of the entries it took, which are   *)
(* distinct, and the largest of them.  A file is judged once.              *)
GatheredInv ==
  /\ file.entries \in Seq(Entry)
  /\ parsed \in 0 .. Len(file.entries)
  /\ ips = {file.entries[k] : k \in 1 .. parsed}
  /\ IsFiniteSet(ips) /\ Cardinality(ips) = parsed
  /\ ips \subseteq 0 .. (max_id - 1)
  /\ max_id \in 0 .. RUNNER_MAX_PARTIES
LoaderInv == GatheredInv /\ LoaderExact

(* A list with a repetition does not number anything.                      *)
LEMMA Pigeonhole ==
  ASSUME NEW n \in Nat, NEW e, NEW i \in 1 .. n, NEW j \in 1 .. n,
         i # j, e[i] = e[j]
  PROVE  {e[k] : k \in 1 .. n} # 0 .. (n - 1)
<1> DEFINE D == (1 .. n) \ {j}
           T == {e[k] : k \in 1 .. n}
           f == [k \in D |-> e[k]]
<1>1. IsFiniteSet(1 .. n) /\ Cardinality(1 .. n) = n
  <2>1. 1 \in Int /\ n \in Int
    OBVIOUS
  <2>2. /\ IsFiniteSet(1 .. n)
        /\ Cardinality(1 .. n) = IF 1 > n THEN 0 ELSE n - 1 + 1
    BY <2>1, FS_Interval
  <2>3. QED
    BY <2>2
<1>2. IsFiniteSet(D) /\ Cardinality(D) = n - 1
  BY <1>1, FS_RemoveElement
<1>3. f \in Surjection(D, T)
  <2>1. f \in [D -> T]
    OBVIOUS
  <2>2. \A x \in T : \E k \in D : f[k] = x
    <3>1. SUFFICES ASSUME NEW m \in 1 .. n PROVE \E k \in D : f[k] = e[m]
      OBVIOUS
    <3>2. CASE m = j
      <4>1. i \in D /\ f[i] = e[m]
        BY <3>2
      <4>2. QED
        BY <4>1
    <3>3. CASE m # j
      <4>1. m \in D /\ f[m] = e[m]
        BY <3>3
      <4>2. QED
        BY <4>1
    <3>4. QED
      BY <3>2, <3>3
  <2> HIDE DEF f, T, D
  <2>3. QED
    BY <2>1, <2>2 DEF Surjection
<1>4. Cardinality(T) <= n - 1
  <2> HIDE DEF f, T, D
  <2>1. QED
    BY <1>2, <1>3, FS_Surjection
<1>5. Cardinality(0 .. (n - 1)) = n
  <2>1. 0 \in Int /\ n - 1 \in Int
    OBVIOUS
  <2>2. Cardinality(0 .. (n - 1)) = IF 0 > n - 1 THEN 0 ELSE (n - 1) - 0 + 1
    BY <2>1, FS_Interval
  <2>3. QED
    BY <2>2
<1>6. T # 0 .. (n - 1)
  <2> HIDE DEF T
  <2>1. QED
    BY <1>4, <1>5
<1>7. QED
  BY <1>6

LEMMA GatheredInit == LoaderInit => LoaderInv
<1> SUFFICES ASSUME LoaderInit PROVE LoaderInv
  OBVIOUS
<1>1. /\ file \in File /\ parsed = 0 /\ ips = {} /\ max_id = 0
      /\ loaded = "loading"
  BY DEF LoaderInit
<1>2. PICK n \in 0 .. MaxEntries : file.entries \in [1 .. n -> Entry]
  BY <1>1 DEF File
<1>3. n \in Nat
  BY ConfigAssumption
<1>4. file.entries \in Seq(Entry) /\ Len(file.entries) = n
  BY <1>2, <1>3
<1>5. GatheredInv
  BY <1>1, <1>3, <1>4, FS_EmptySet, ConfigAssumption DEF GatheredInv
<1>6. QED
  BY <1>1, <1>5 DEF LoaderInv, LoaderExact

LEMMA RefuseFileInv ==
  ASSUME LoaderInv, RefuseFile
  PROVE  LoaderInv'
<1>1. /\ loaded' = "refused" /\ UNCHANGED <<file, parsed, ips, max_id>>
      /\ file.defect \notin {"none", "cut off"}
  BY DEF RefuseFile, Refuse
<1>2. GatheredInv'
  BY <1>1 DEF LoaderInv, GatheredInv
<1>3. LoaderExact'
  BY <1>1 DEF LoaderExact
<1>4. QED
  BY <1>2, <1>3 DEF LoaderInv

LEMMA RefuseEntryInv ==
  ASSUME LoaderInv, RefuseEntry
  PROVE  LoaderInv'
<1>1. /\ loaded' = "refused" /\ UNCHANGED <<file, parsed, ips, max_id>>
      /\ parsed < Len(file.entries)
      /\ id >= RUNNER_MAX_PARTIES \/ id \in ips
  BY DEF RefuseEntry, Refuse
<1>2. GatheredInv'
  BY <1>1 DEF LoaderInv, GatheredInv
<1> DEFINE e == file.entries
           j == parsed + 1
<1>3. /\ Len(e) \in Nat /\ parsed \in Nat /\ j \in 1 .. Len(e)
      /\ id = e[j] /\ id \in Nat
      /\ ips = {e[k] : k \in 1 .. parsed}
      /\ RUNNER_MAX_PARTIES \in Nat
  <2>1. /\ e \in Seq(Entry) /\ parsed \in 0 .. Len(e)
        /\ ips = {e[k] : k \in 1 .. parsed} /\ RUNNER_MAX_PARTIES \in Nat
    BY ConfigAssumption DEF LoaderInv, GatheredInv
  <2>2. Len(e) \in Nat /\ parsed \in Nat /\ j \in 1 .. Len(e)
    BY <1>1, <2>1
  <2>3. e[j] \in Entry
    BY <2>1, <2>2
  <2>4. QED
    BY <2>1, <2>2, <2>3 DEF id, Entry, Malformed
<1>4. ~(max_id \in 1 .. RUNNER_MAX_PARTIES /\ Numbers(e, max_id))
  <2>1. SUFFICES ASSUME max_id \in 1 .. RUNNER_MAX_PARTIES, Len(e) = max_id,
                        {e[k] : k \in 1 .. max_id} = 0 .. (max_id - 1)
                 PROVE  FALSE
    BY DEF Numbers
  <2> HIDE DEF e, j
  <2>2. id \in 0 .. (max_id - 1)
    BY <1>3, <2>1
  <2>3. id \in ips
    BY <1>1, <1>3, <2>1, <2>2
  <2>4. PICK i \in 1 .. parsed : e[i] = e[j]
    BY <1>3, <2>3
  <2>5. i \in 1 .. max_id /\ j \in 1 .. max_id /\ i # j /\ max_id \in Nat
    BY <1>3, <2>1, <2>4 DEF j
  <2>6. QED
    BY <2>1, <2>4, <2>5, Pigeonhole
<1>5. LoaderExact'
  BY <1>1, <1>4 DEF LoaderExact
<1>6. QED
  BY <1>2, <1>5 DEF LoaderInv

LEMMA TakeEntryInv ==
  ASSUME LoaderInv, TakeEntry
  PROVE  LoaderInv'
<1> DEFINE e == file.entries
           j == parsed + 1
<1>1. /\ loaded = "loading" /\ parsed < Len(e) /\ id < RUNNER_MAX_PARTIES
      /\ id \notin ips /\ parsed' = j /\ ips' = ips \cup {id}
      /\ max_id' = (IF id + 1 > max_id THEN id + 1 ELSE max_id)
      /\ file' = file /\ loaded' = loaded
  BY DEF TakeEntry, Readable
<1>2. /\ e \in Seq(Entry) /\ parsed \in 0 .. Len(e)
      /\ ips = {e[k] : k \in 1 .. parsed} /\ IsFiniteSet(ips)
      /\ Cardinality(ips) = parsed /\ ips \subseteq 0 .. (max_id - 1)
      /\ max_id \in 0 .. RUNNER_MAX_PARTIES /\ RUNNER_MAX_PARTIES \in Nat
  BY ConfigAssumption DEF LoaderInv, GatheredInv
<1>3. Len(e) \in Nat /\ parsed \in Nat /\ j \in 1 .. Len(e)
  BY <1>1, <1>2
<1>4. e[j] \in Entry
  BY <1>2, <1>3
<1>5. id = e[j] /\ id \in Nat
  BY <1>2, <1>4 DEF id, Entry, Malformed
<1>6. ips' = {e[k] : k \in 1 .. j}
  <2>1. 1 .. j = (1 .. parsed) \cup {j}
    BY <1>3
  <2> HIDE DEF e, j
  <2>2. QED
    BY <1>1, <1>2, <1>5, <2>1
<1>7. IsFiniteSet(ips') /\ Cardinality(ips') = j
  BY <1>1, <1>2, FS_AddElement
<1>8. ips' \subseteq 0 .. (max_id' - 1) /\ max_id' \in 0 .. RUNNER_MAX_PARTIES
  <2>1. max_id \in Nat /\ id \in Nat /\ max_id' \in Nat /\ max_id <= max_id'
        /\ id + 1 <= max_id' /\ max_id' <= RUNNER_MAX_PARTIES
    BY <1>1, <1>2, <1>5
  <2>2. 0 .. (max_id - 1) \subseteq 0 .. (max_id' - 1) /\ id \in 0 .. (max_id' - 1)
    <3>1. \A m \in Nat, n \in Nat, i \in Nat :
            m <= n /\ i + 1 <= n =>
              0 .. (m - 1) \subseteq 0 .. (n - 1) /\ i \in 0 .. (n - 1)
      OBVIOUS
    <3>2. QED
      BY ONLY <2>1, <3>1
  <2>3. ips' \subseteq 0 .. (max_id' - 1)
    BY ONLY <1>1, <1>2, <2>2
  <2>4. max_id' \in 0 .. RUNNER_MAX_PARTIES
    BY ONLY <1>2, <2>1
  <2>5. QED
    BY <2>3, <2>4
<1>9. GatheredInv'
  <2>1. file'.entries = e
    BY <1>1
  <2>2. parsed' \in 0 .. Len(e)
    BY <1>1, <1>3
  <2>3. e \in Seq(Entry)
    BY <1>2
  <2>4. parsed' = j
    BY <1>1
  <2> HIDE DEF e, j
  <2>5. Entry' = Entry
    BY DEF Entry, Malformed
  <2>6. QED
    BY <1>6, <1>7, <1>8, <2>1, <2>2, <2>3, <2>4, <2>5 DEF GatheredInv
<1>10. QED
  BY <1>1, <1>9 DEF LoaderInv, LoaderExact

LEMMA CheckInv ==
  ASSUME LoaderInv, Check
  PROVE  LoaderInv'
<1> DEFINE e == file.entries
<1>1. /\ file.defect \in {"none", "cut off"} /\ parsed = Len(e)
      /\ loaded' = (IF max_id = 0 \/ ips # 0 .. (max_id - 1)
                    THEN "refused" ELSE "loaded")
      /\ UNCHANGED <<file, parsed, ips, max_id>>
  BY DEF Check, Readable
<1>2. /\ parsed \in Nat /\ ips = {e[k] : k \in 1 .. parsed}
      /\ Cardinality(ips) = parsed
      /\ max_id \in 0 .. RUNNER_MAX_PARTIES /\ RUNNER_MAX_PARTIES \in Nat
  <2>1. /\ parsed \in 0 .. Len(e) /\ e \in Seq(Entry)
        /\ ips = {e[k] : k \in 1 .. parsed} /\ Cardinality(ips) = parsed
        /\ max_id \in 0 .. RUNNER_MAX_PARTIES
    BY DEF LoaderInv, GatheredInv
  <2>2. Len(e) \in Nat
    BY <2>1
  <2>3. parsed \in Nat /\ RUNNER_MAX_PARTIES \in Nat
    BY <2>1, <2>2, ConfigAssumption
  <2>4. QED
    BY <2>1, <2>3
<1>3. GatheredInv'
  BY <1>1 DEF LoaderInv, GatheredInv
<1>4. ASSUME ips = 0 .. (max_id - 1), max_id # 0
      PROVE  parsed = max_id
  <2>0. 0 \in Int /\ max_id - 1 \in Int
    BY <1>2
  <2>1. Cardinality(0 .. (max_id - 1)) =
          IF 0 > max_id - 1 THEN 0 ELSE (max_id - 1) - 0 + 1
    BY <2>0, FS_Interval
  <2>2. max_id \in Nat /\ max_id > 0
    BY <1>2, <1>4
  <2>3. Cardinality(ips) = max_id
    BY ONLY <1>4, <2>1, <2>2
  <2>4. QED
    BY <1>2, <2>3
<1>5. (max_id # 0 /\ ips = 0 .. (max_id - 1)) <=>
        (max_id \in 1 .. RUNNER_MAX_PARTIES /\ Numbers(e, max_id))
  <2>1. max_id # 0 <=> max_id \in 1 .. RUNNER_MAX_PARTIES
    BY <1>2
  <2>2. Numbers(e, max_id) <=>
          parsed = max_id /\ {e[k] : k \in 1 .. max_id} = 0 .. (max_id - 1)
    BY <1>1 DEF Numbers
  <2> HIDE DEF e
  <2>3. QED
    BY <1>2, <1>4, <2>1, <2>2
<1>6. LoaderExact'
  BY <1>1, <1>5 DEF LoaderExact
<1>7. QED
  BY <1>3, <1>6 DEF LoaderInv

LEMMA LoaderNextInv ==
  ASSUME LoaderInv, LoaderNext \/ UNCHANGED loader
  PROVE  LoaderInv'
<1>1. CASE UNCHANGED loader
  <2>1. UNCHANGED <<file, parsed, ips, max_id, loaded>>
    BY <1>1 DEF loader
  <2>2. GatheredInv'
    BY <2>1 DEF LoaderInv, GatheredInv
  <2>3. LoaderExact'
    BY <2>1 DEF LoaderInv, LoaderExact
  <2>4. QED
    BY <2>2, <2>3 DEF LoaderInv
<1>2. QED
  BY <1>1, RefuseFileInv, RefuseEntryInv, TakeEntryInv, CheckInv DEF LoaderNext

(* The loader accepts exactly the files whose closed entries number the    *)
(* parties 0 .. N-1 in some order, N within the compiled limit, and returns*)
(* their number (mpc_runner.c:63-161), for every limit and length of file. *)
THEOREM LoadingCorrect == Spec => []LoaderExact
<1>1. Init => LoaderInv
  BY GatheredInit DEF Init
<1>2. LoaderInv /\ [Next]_<<loader, euclid>> => LoaderInv'
  <2>1. [Next]_<<loader, euclid>> => LoaderNext \/ UNCHANGED loader
    BY DEF Next
  <2>2. QED
    BY <2>1, LoaderNextInv
<1>3. LoaderInv => LoaderExact
  BY DEF LoaderInv
<1>4. QED
  BY <1>1, <1>2, <1>3, PTL DEF Spec
=============================================================================
