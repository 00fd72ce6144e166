-------------------------- MODULE SecureAgg_proofs --------------------------
(***************************************************************************)
(* The safety of the central aggregation, proved for every number of       *)
(* meters, every field, all values and masks, and any number of launches   *)
(* and foreign connections.                                                *)
(***************************************************************************)
EXTENDS SecureAgg, MpcField_proofs, FiniteSetTheorems, SequenceTheorems

-----------------------------------------------------------------------------
(* The masks.                                                              *)

LEMMA MeterFacts ==
  /\ N \in Nat \ {0} /\ P \in Nat \ {0} /\ 0 \in Field /\ 0 \in Meter
  /\ \A i \in Meter : i \in Nat /\ i < N
  /\ Meter = 0 .. (N - 1)
<1>1. N \in Nat \ {0} /\ P \in Nat \ {0}
  BY AggAssumption, FieldAssumption
<1>2. QED
  BY <1>1 DEF Meter, Field

(* The 64-bit sum and difference of mod_add and mod_sub never wrap.        *)
LEMMA ModValue ==
  ASSUME NEW a \in Field, NEW b \in Field
  PROVE  /\ mod_add(a, b) = field_add(a, b)
         /\ mod_sub(a, b) = field_add(a, field_sub(0, b))
<1>1. /\ P \in Nat \ {0} /\ Word \in Nat /\ 2 * P < Word
      /\ a \in 0 .. (P - 1) /\ b \in 0 .. (P - 1) /\ 0 \in Field
  BY FieldAssumption DEF Field
<1>2. Word * Word \in Nat /\ Word <= Word * Word
  BY ONLY <1>1
<1>3. a + b \in 0 .. (Word * Word - 1) /\ P + a - b \in 0 .. (Word * Word - 1)
  BY ONLY <1>1, <1>2
<1>4. U64(a + b) = a + b /\ U64(P + a - b) = P + a - b
  BY <1>2, <1>3 DEF U64
<1>5. mod_add(a, b) = field_add(a, b)
  BY <1>4, FieldArithmetic DEF mod_add
<1>6. field_sub(0, b) = IF b = 0 THEN 0 ELSE P - b
  BY <1>1, SubValue
<1>7. field_sub(0, b) \in Field
  BY <1>1, FieldArithmetic
<1>8. CASE b <= a
  <2>1. field_add(a, field_sub(0, b)) = a - b
    BY <1>1, <1>6, <1>7, <1>8, AddValue
  <2>2. (P + a - b) % P = a - b
    <3>1. P + a - b = 1 * P + (a - b) /\ a - b \in 0 .. (P - 1)
      BY ONLY <1>1, <1>8
    <3>2. QED
      BY <1>1, <3>1
  <2>3. QED
    BY <1>4, <1>5, <2>1, <2>2 DEF mod_sub
<1>9. CASE a < b
  <2>1. field_add(a, field_sub(0, b)) = P + a - b
    BY <1>1, <1>6, <1>7, <1>9, AddValue
  <2>2. (P + a - b) % P = P + a - b
    <3>1. P + a - b \in 0 .. (P - 1)
      BY ONLY <1>1, <1>9
    <3>2. QED
      BY <1>1, <3>1
  <2>3. QED
    BY <1>4, <1>5, <2>1, <2>2 DEF mod_sub
<1>10. QED
  BY <1>1, <1>8, <1>9

(* What the loop of compute_masked_value adds in its iteration for j.      *)
MaskTerm(i) ==
  [j \in Meter |-> IF j = i THEN 0
                   ELSE IF i < j THEN mask[<<i, j>>]
                   ELSE field_sub(0, mask[<<j, i>>])]

LEMMA MaskTermType ==
  ASSUME mask \in [Pairs -> Field], NEW i \in Meter, NEW j \in Meter
  PROVE  MaskTerm(i)[j] \in Field
<1>1. CASE i = j
  BY <1>1, MeterFacts DEF MaskTerm
<1>2. CASE i < j
  <2>1. <<i, j>> \in Pairs
    BY <1>2 DEF Pairs
  <2>2. QED
    BY <1>2, <2>1, MeterFacts DEF MaskTerm
<1>3. CASE j < i
  <2>1. <<j, i>> \in Pairs
    BY <1>3 DEF Pairs
  <2>2. MaskTerm(i)[j] = field_sub(0, mask[<<j, i>>])
    BY <1>3, MeterFacts DEF MaskTerm
  <2>3. QED
    BY <2>1, <2>2, MeterFacts, FieldArithmetic
<1>4. QED
  BY <1>1, <1>2, <1>3, MeterFacts

(* The masked value is the value plus the sum of those terms.              *)
LEMMA MaskedFold ==
  ASSUME value \in [Meter -> Field], mask \in [Pairs -> Field], NEW i \in Meter
  PROVE  /\ masked_value(i) = FieldFold(value[i], MaskTerm(i), N)
         /\ masked_value(i) \in Field
<1> DEFINE S(h) == [k \in 0 .. N |->
             IF k = 0 THEN value[i] % P
             ELSE LET j == k - 1
                  IN  IF j = i THEN h[j]
                      ELSE IF i < j THEN mod_add(h[j], mask[<<i, j>>])
                      ELSE mod_sub(h[j], mask[<<j, i>>])]
           R(h) == h = S(h)
           acc == CHOOSE h : R(h)
           F(k) == FieldFold(value[i], MaskTerm(i), k)
<1>1. masked_value(i) = acc[N]
  BY DEF masked_value
<1>2. value[i] \in Field /\ value[i] % P = value[i]
  <2>1. value[i] \in Field /\ value[i] \in 0 .. (P - 1) /\ P \in Nat \ {0}
    BY MeterFacts DEF Field
  <2>2. QED
    BY <2>1
<1>3. \A k \in 0 .. N : F(k) \in Field
  <2> SUFFICES ASSUME NEW k \in 0 .. N PROVE F(k) \in Field
    OBVIOUS
  <2>1. k \in Nat /\ \A j \in 0 .. (k - 1) : MaskTerm(i)[j] \in Field
    BY MeterFacts, MaskTermType
  <2>2. QED
    BY <1>2, <2>1, FoldType
<1>4. ASSUME NEW k \in 1 .. N, NEW x \in Field
      PROVE  field_add(x, MaskTerm(i)[k - 1]) =
               IF k - 1 = i THEN x
               ELSE IF i < k - 1 THEN mod_add(x, mask[<<i, k - 1>>])
               ELSE mod_sub(x, mask[<<k - 1, i>>])
  <2>1. k - 1 \in Meter
    BY MeterFacts
  <2>2. CASE k - 1 = i
    BY <2>1, <2>2, AddZero DEF MaskTerm
  <2>3. CASE i < k - 1
    <3>1. <<i, k - 1>> \in Pairs
      BY <2>1, <2>3 DEF Pairs
    <3>2. MaskTerm(i)[k - 1] = mask[<<i, k - 1>>] /\ mask[<<i, k - 1>>] \in Field
      BY <2>1, <2>3, <3>1, MeterFacts DEF MaskTerm
    <3>3. QED
      BY <2>3, <3>2, ModValue, MeterFacts
  <2>4. CASE k - 1 < i
    <3>1. <<k - 1, i>> \in Pairs
      BY <2>1, <2>4 DEF Pairs
    <3>2. /\ MaskTerm(i)[k - 1] = field_sub(0, mask[<<k - 1, i>>])
          /\ mask[<<k - 1, i>>] \in Field
      BY <2>1, <2>4, <3>1, MeterFacts DEF MaskTerm
    <3>3. QED
      BY <2>4, <3>2, ModValue, MeterFacts
  <2>5. QED
    BY <2>1, <2>2, <2>3, <2>4, MeterFacts
<1>5. ASSUME NEW k \in 1 .. N
      PROVE  F(k) = field_add(F(k - 1), MaskTerm(i)[k - 1]) /\ F(k - 1) \in Field
  <2>1. k - 1 \in Nat /\ (k - 1) + 1 = k /\ k - 1 \in 0 .. N
    BY MeterFacts
  <2>2. F((k - 1) + 1) = field_add(F(k - 1), MaskTerm(i)[k - 1])
    BY <2>1, FoldNext
  <2>3. QED
    BY <1>3, <2>1, <2>2
<1>6. F(0) = value[i]
  BY FoldStep
<1> HIDE DEF F
<1>7. R([k \in 0 .. N |-> F(k)])
  <2> DEFINE g == [k \in 0 .. N |-> F(k)]
  <2>1. ASSUME NEW k \in 0 .. N PROVE g[k] = S(g)[k]
    <3>1. CASE k = 0
      BY <1>2, <1>6, <3>1
    <3>2. CASE k # 0
      <4>1. k \in 1 .. N /\ k - 1 \in 0 .. N /\ g[k - 1] = F(k - 1)
        BY <3>2, MeterFacts
      <4>2. F(k) = IF k - 1 = i THEN F(k - 1)
                   ELSE IF i < k - 1 THEN mod_add(F(k - 1), mask[<<i, k - 1>>])
                   ELSE mod_sub(F(k - 1), mask[<<k - 1, i>>])
        BY <1>4, <1>5, <4>1
      <4>3. QED
        BY <3>2, <4>1, <4>2
    <3>3. QED
      BY <3>1, <3>2
  <2>2. S(g) = [k \in 0 .. N |-> S(g)[k]] /\ g = [k \in 0 .. N |-> g[k]]
    OBVIOUS
  <2> HIDE DEF g, S
  <2>3. g = S(g)
    BY <2>1, <2>2
  <2>4. QED
    BY <2>3 DEF g
<1>8. R(acc)
  BY <1>7
<1> HIDE DEF acc
<1> DEFINE T == {k \in Nat : k <= N => acc[k] = F(k)}
<1>9. 0 \in T
  BY <1>2, <1>6, <1>8, MeterFacts
<1>10. ASSUME NEW k \in T, k \in Nat PROVE k + 1 \in T
  <2>1. ASSUME k + 1 <= N PROVE acc[k + 1] = F(k + 1)
    <3>1. k + 1 \in 1 .. N /\ k + 1 \in 0 .. N /\ (k + 1) - 1 = k /\ k + 1 # 0
          /\ acc[k] = F(k)
      BY <1>10, <2>1, MeterFacts
    <3>2. acc[k + 1] = IF k = i THEN acc[k]
                       ELSE IF i < k THEN mod_add(acc[k], mask[<<i, k>>])
                       ELSE mod_sub(acc[k], mask[<<k, i>>])
      BY <1>8, <3>1
    <3>3. F(k + 1) = field_add(F(k), MaskTerm(i)[k]) /\ F(k) \in Field
      BY <1>5, <3>1
    <3>4. field_add(F(k), MaskTerm(i)[k]) = 
             IF k = i THEN F(k)
             ELSE IF i < k THEN mod_add(F(k), mask[<<i, k>>])
             ELSE mod_sub(F(k), mask[<<k, i>>])
      BY <1>4, <3>1, <3>3
    <3>5. QED
      BY <3>1, <3>2, <3>3, <3>4
  <2>2. QED
    BY <1>10, <2>1
<1>11. Nat \subseteq T
  BY <1>9, <1>10, SetInduction
<1>12. acc[N] = F(N) /\ F(N) \in Field
  BY <1>3, <1>11, MeterFacts
<1>13. QED
  BY <1>1, <1>12 DEF F

(* The masks of a pair are added once and taken away once, so all of them  *)
(* together are zero: the square of the terms is split into what is above  *)
(* its diagonal and what is below, and the latter is the former, negated   *)
(* and transposed.                                                         *)
Rows == [i \in Meter |-> FieldFold(0, MaskTerm(i), N)]
Upper == [i \in Meter |-> [j \in Meter |->
            IF i < j THEN mask[<<i, j>>] ELSE 0]]
Lower == [i \in Meter |-> [j \in Meter |->
            IF j < i THEN field_sub(0, mask[<<j, i>>]) ELSE 0]]

LEMMA TriangleFacts ==
  ASSUME mask \in [Pairs -> Field], NEW i \in Meter, NEW j \in Meter
  PROVE  /\ Upper[i][j] \in Field /\ Lower[i][j] \in Field
         /\ MaskTerm(i)[j] = field_add(Upper[i][j], Lower[i][j])
         /\ field_add(Upper[j][i], Lower[i][j]) = 0
<1>0. i \in Nat /\ j \in Nat /\ 0 \in Field
  BY MeterFacts
<1>1. CASE i < j
  <2>1. mask[<<i, j>>] \in Field
    BY <1>1 DEF Pairs
  <2>2. /\ Upper[i][j] = mask[<<i, j>>] /\ Lower[i][j] = 0 /\ Upper[j][i] = 0
        /\ MaskTerm(i)[j] = mask[<<i, j>>]
    BY <1>0, <1>1 DEF Upper, Lower, MaskTerm
  <2>3. QED
    BY <1>0, <2>1, <2>2, AddZero
<1>2. CASE j < i
  <2>1. mask[<<j, i>>] \in Field /\ field_sub(0, mask[<<j, i>>]) \in Field
    <3>1. <<j, i>> \in Pairs
      BY <1>2 DEF Pairs
    <3>2. QED
      BY <1>0, <3>1, FieldArithmetic
  <2>2. /\ Upper[i][j] = 0 /\ Lower[i][j] = field_sub(0, mask[<<j, i>>])
        /\ Upper[j][i] = mask[<<j, i>>]
        /\ MaskTerm(i)[j] = field_sub(0, mask[<<j, i>>])
    BY <1>0, <1>2 DEF Upper, Lower, MaskTerm
  <2>3. field_add(mask[<<j, i>>], field_sub(0, mask[<<j, i>>])) = 0
    BY <1>0, <2>1, SubAdd
  <2>4. QED
    BY <1>0, <2>1, <2>2, <2>3, AddZero
<1>3. CASE i = j
  <2>1. Upper[i][j] = 0 /\ Lower[i][j] = 0 /\ Upper[j][i] = 0 /\ MaskTerm(i)[j] = 0
    BY <1>0, <1>3 DEF Upper, Lower, MaskTerm
  <2>2. QED
    BY <1>0, <2>1, AddZero
<1>4. QED
  BY <1>0, <1>1, <1>2, <1>3

LEMMA MasksCancel ==
  ASSUME mask \in [Pairs -> Field]
  PROVE  /\ \A i \in Meter : Rows[i] \in Field
         /\ FieldFold(0, Rows, N) = 0
<1> DEFINE U == [i \in Meter |-> FieldFold(0, Upper[i], N)]
           L == [i \in Meter |-> FieldFold(0, Lower[i], N)]
           col(j) == [i \in Meter |-> Upper[i][j]]
           C == [j \in Meter |-> FieldFold(0, col(j), N)]
           Z == [j \in Meter |-> 0]
<1>0. N \in Nat /\ 0 .. (N - 1) = Meter /\ 0 \in Field
  BY MeterFacts
<1>1. ASSUME NEW i \in Meter
      PROVE  /\ U[i] \in Field /\ L[i] \in Field /\ C[i] \in Field
             /\ Rows[i] \in Field /\ Rows[i] = field_add(U[i], L[i])
             /\ Z[i] = field_add(C[i], L[i])
  <2>1. \A j \in Meter : /\ Upper[i][j] \in Field /\ Lower[i][j] \in Field
                         /\ MaskTerm(i)[j] = field_add(Upper[i][j], Lower[i][j])
                         /\ col(i)[j] \in Field /\ Z[j] = field_add(col(i)[j], Lower[i][j])
    BY TriangleFacts
  <2>2. /\ FieldFold(0, Upper[i], N) \in Field /\ FieldFold(0, Lower[i], N) \in Field
        /\ FieldFold(0, col(i), N) \in Field
    BY <1>0, <2>1, FoldType
  <2>3. FieldFold(0, MaskTerm(i), N) =
          field_add(FieldFold(0, Upper[i], N), FieldFold(0, Lower[i], N))
    BY <1>0, <2>1, SumAdd
  <2>4. FieldFold(0, Z, N) = field_add(FieldFold(0, col(i), N), FieldFold(0, Lower[i], N))
    BY <1>0, <2>1, SumAdd
  <2>5. FieldFold(0, Z, N) = 0
    BY <1>0, SumZero
  <2>6. QED
    BY <2>2, <2>3, <2>4, <2>5, AddType DEF Rows
<1>2. FieldFold(0, U, N) = FieldFold(0, C, N)
  <2>1. \A i, j \in 0 .. (N - 1) : Upper[i][j] \in Field
    BY <1>0, TriangleFacts
  <2>2. FieldFold(0, [i \in 0 .. (N - 1) |-> FieldFold(0, Upper[i], N)], N) =
        FieldFold(0, [j \in 0 .. (N - 1) |->
                        FieldFold(0, [i \in 0 .. (N - 1) |-> Upper[i][j]], N)], N)
    BY <1>0, <2>1, SumSquare
  <2>3. QED
    BY <1>0, <2>2
<1> HIDE DEF U, L, C
<1>3. FieldFold(0, Rows, N) = field_add(FieldFold(0, U, N), FieldFold(0, L, N))
  BY <1>0, <1>1, SumAdd
<1>4. FieldFold(0, Z, N) = field_add(FieldFold(0, C, N), FieldFold(0, L, N))
  BY <1>0, <1>1, SumAdd
<1>5. FieldFold(0, Z, N) = 0
  BY <1>0, SumZero
<1>6. QED
  BY <1>1, <1>2, <1>3, <1>4, <1>5

(* What the meters submit adds up to what they measured.                   *)
LEMMA MaskedTotal ==
  ASSUME value \in [Meter -> Field], mask \in [Pairs -> Field]
  PROVE  FieldFold(0, [i \in Meter |-> masked_value(i)], N) = FieldFold(0, value, N)
<1> DEFINE V == [i \in Meter |-> masked_value(i)]
<1>0. N \in Nat /\ 0 .. (N - 1) = Meter /\ 0 \in Field
  BY MeterFacts
<1>1. ASSUME NEW i \in Meter
      PROVE  /\ V[i] = field_add(value[i], Rows[i])
             /\ value[i] \in Field /\ Rows[i] \in Field
  <2>1. \A j \in 0 .. (N - 1) : MaskTerm(i)[j] \in Field
    BY <1>0, MaskTermType
  <2>2. FieldFold(value[i], MaskTerm(i), N) = field_add(value[i], Rows[i])
    BY <1>0, <2>1, FoldShift DEF Rows
  <2>3. QED
    BY <2>2, MaskedFold, MasksCancel
<1> HIDE DEF V
<1>2. FieldFold(0, V, N) = field_add(FieldFold(0, value, N), FieldFold(0, Rows, N))
  BY <1>0, <1>1, SumAdd
<1>3. FieldFold(0, value, N) \in Field
  BY <1>0, FoldType
<1>4. FieldFold(0, V, N) = FieldFold(0, value, N)
  BY <1>2, <1>3, MasksCancel, AddZero
<1>5. QED
  BY <1>4 DEF V

-----------------------------------------------------------------------------
(* The expected sum.                                                       *)

(* Adding a field element to a number is adding it to its residue.         *)
LEMMA ResidueAdd ==
  ASSUME NEW x \in Nat, NEW b \in Field, NEW r \in Field, r = x % P
  PROVE  field_add(r, b) = (x + b) % P
<1>1. P \in Nat \ {0} /\ b \in 0 .. (P - 1) /\ r \in 0 .. (P - 1)
  BY FieldAssumption DEF Field
<1> DEFINE q == x \div P
<1>2. q \in Nat /\ x = q * P + r
  <2>1. x \div P \in Nat /\ x = P * (x \div P) + (x % P)
    BY ONLY <1>1, x \in Nat
  <2>2. P * q = q * P
    BY ONLY <1>1, <2>1
  <2>3. QED
    BY <2>1, <2>2
<1> HIDE DEF q
<1>3. ASSUME NEW y \in Nat, NEW m \in Nat, NEW s \in 0 .. (P - 1), y = m * P + s
      PROVE  y % P = s
  BY ONLY <1>1, <1>3
<1>4. field_add(r, b) = IF r + b >= P THEN r + b - P ELSE r + b
  BY AddValue
<1>5. CASE r + b >= P
  <2>1. r + b - P \in 0 .. (P - 1) /\ x + b = (q + 1) * P + (r + b - P)
        /\ x + b \in Nat /\ q + 1 \in Nat
    BY ONLY <1>1, <1>2, <1>5, x \in Nat
  <2>2. (x + b) % P = r + b - P
    BY ONLY <2>1, <1>3
  <2>3. QED
    BY <1>4, <1>5, <2>2
<1>6. CASE ~(r + b >= P)
  <2>1. r + b \in 0 .. (P - 1) /\ x + b = q * P + (r + b) /\ x + b \in Nat
    BY ONLY <1>1, <1>2, <1>6, x \in Nat
  <2>2. (x + b) % P = r + b
    BY ONLY <2>1, <1>2, <1>3
  <2>3. QED
    BY <1>4, <1>6, <2>2
<1>7. QED
  BY <1>5, <1>6

(* The harness's plain sum is the field's sum of the values, modulo p.     *)
LEMMA ExpectedFold ==
  ASSUME value \in [Meter -> Field]
  PROVE  expected_raw % P = FieldFold(0, value, N)
<1> DEFINE S(h) == [k \in 0 .. N |-> IF k = 0 THEN 0 ELSE h[k - 1] + value[k - 1]]
           R(h) == h = S(h)
           sum == CHOOSE h : R(h)
           Up(g, m) == /\ g[0] = 0
                       /\ \A k \in 1 .. m : /\ g[k - 1] \in Nat
                                            /\ g[k] = g[k - 1] + value[k - 1]
           T == {m \in Nat : m <= N => \E g \in [0 .. m -> Nat] : Up(g, m)}
<1>0. N \in Nat /\ Meter = 0 .. (N - 1) /\ \A i \in Meter : value[i] \in Field /\ value[i] \in Nat
  BY MeterFacts DEF Field
<1>1. expected_raw = sum[N]
  BY DEF expected_raw
<1>2. 0 \in T
  <2>1. Up([k \in 0 .. 0 |-> 0], 0) /\ [k \in 0 .. 0 |-> 0] \in [0 .. 0 -> Nat]
    OBVIOUS
  <2>2. QED
    BY <2>1
<1>3. ASSUME NEW m \in T, m \in Nat PROVE m + 1 \in T
  <2>1. ASSUME m + 1 <= N PROVE \E h \in [0 .. (m + 1) -> Nat] : Up(h, m + 1)
    <3>1. PICK g \in [0 .. m -> Nat] : Up(g, m)
      <4>1. m <= N
        BY <1>0, <1>3, <2>1
      <4> HIDE DEF Up
      <4>2. QED
        BY <1>3, <4>1
    <3>2. m \in Meter /\ value[m] \in Nat
      BY <1>0, <1>3, <2>1
    <3> DEFINE h == [k \in 0 .. (m + 1) |-> IF k = m + 1 THEN g[m] + value[m] ELSE g[k]]
    <3>3. h \in [0 .. (m + 1) -> Nat]
      BY <1>3, <3>2
    <3>4. h[0] = 0
      BY <1>3, <3>1
    <3>5. ASSUME NEW k \in 1 .. (m + 1)
          PROVE  h[k - 1] \in Nat /\ h[k] = h[k - 1] + value[k - 1]
      <4>1. CASE k = m + 1
        BY <1>3, <3>1, <4>1
      <4>2. CASE k # m + 1
        BY <1>3, <3>1, <4>2
      <4>3. QED
        BY <4>1, <4>2
    <3>6. Up(h, m + 1)
      BY <3>4, <3>5
    <3> HIDE DEF h
    <3>7. QED
      BY <3>3, <3>6
  <2>2. QED
    BY <1>3, <2>1
<1>4. Nat \subseteq T
  BY <1>2, <1>3, SetInduction
<1>5. PICK g \in [0 .. N -> Nat] : Up(g, N)
  <2> HIDE DEF Up
  <2>1. N \in T
    <3> HIDE DEF T
    <3>1. QED
      BY <1>0, <1>4
  <2>2. N <= N
    BY <1>0
  <2>3. QED
    BY <2>1, <2>2
<1>6. R(g)
  <2>1. \A k \in 0 .. N : g[k] = S(g)[k]
    BY <1>0, <1>5
  <2>2. S(g) = [k \in 0 .. N |-> S(g)[k]] /\ g = [k \in 0 .. N |-> g[k]]
    OBVIOUS
  <2> HIDE DEF S
  <2>3. QED
    BY <2>1, <2>2
<1>7. R(sum)
  BY <1>6
<1> HIDE DEF sum
<1> DEFINE W == {k \in Nat : k <= N => sum[k] \in Nat /\ sum[k] % P = FieldFold(0, value, k)}
<1>8. 0 \in W
  <2>1. sum[0] = 0
    BY <1>0, <1>7
  <2>2. 0 % P = 0
    BY MeterFacts
  <2>3. QED
    BY <2>1, <2>2, FoldStep
<1>9. ASSUME NEW k \in W, k \in Nat PROVE k + 1 \in W
  <2>1. ASSUME k + 1 <= N
        PROVE  sum[k + 1] \in Nat /\ sum[k + 1] % P = FieldFold(0, value, k + 1)
    <3>1. /\ sum[k] \in Nat /\ sum[k] % P = FieldFold(0, value, k) /\ k \in Meter
          /\ value[k] \in Field /\ value[k] \in Nat
      BY <1>0, <1>9, <2>1
    <3>2. sum[k + 1] = sum[k] + value[k]
      BY <1>0, <1>7, <1>9, <2>1
    <3>3. \A i \in 0 .. (k - 1) : value[i] \in Field
      BY <1>0, <1>9, <2>1
    <3>4. FieldFold(0, value, k) \in Field
      BY <1>9, <3>3, MeterFacts, FoldType
    <3>5. FieldFold(0, value, k + 1) = field_add(FieldFold(0, value, k), value[k])
      BY ONLY FoldNext, <1>9
    <3>6. field_add(FieldFold(0, value, k), value[k]) = (sum[k] + value[k]) % P
      BY <3>1, <3>4, ResidueAdd
    <3>7. QED
      BY <3>1, <3>2, <3>5, <3>6
  <2>2. QED
    BY <1>9, <2>1
<1>10. Nat \subseteq W
  BY <1>8, <1>9, SetInduction
<1>11. QED
  BY <1>0, <1>1, <1>10

-----------------------------------------------------------------------------
(* Values and masks do not change, nor does what a meter submits.          *)
LEMMA RunStays ==
  ASSUME [Next]_vars
  PROVE  UNCHANGED run
BY DEF Next, vars, Server, Others, Launch, ForeignConnects, Sends, Arrives,
       Loses, Breaks, Becomes, Record, Vanishes, Expire, TimesOut, CountedAll, PollFails, EndLoop, Accept,
       AcceptFails, Reject, Duplicate, Count, Close, run

LEMMA SubmissionStays ==
  ASSUME UNCHANGED run, NEW i \in Meter
  PROVE  masked_value(i)' = masked_value(i) /\ Submission(i)' = Submission(i)
<1>1. masked_value(i)' = masked_value(i)
  BY DEF masked_value, run, mod_add, mod_sub
<1>2. QED
  BY <1>1 DEF Submission, Packet

-----------------------------------------------------------------------------
(* The inductive invariant.                                                *)

(* Whatever is queued or being read is from a process of a meter of this   *)
(* run, whose submission it is, or from somebody else who has connected.   *)
Packets == {Submission(i) : i \in Meter} \cup
           (IF foreign > 0 THEN ForeignPackets ELSE {})
Processes == Meter \X (1 .. MaxLaunches)
Bytes == {"part", "sent", "full", "lost", "cut"}
Connections ==
  {c \in [packet : Packets, by : SUBSET Processes, bytes : Bytes] :
     \A s \in c.by : c.packet = Submission(s[1])}
QueueInv ==
  /\ queue \in Seq(Connections)
  /\ server = "recv" => client \in Connections

(* The counter counts what seen[] holds, and the loop has not timed out    *)
(* while it runs.                                                          *)
CountInv ==
  /\ received = Cardinality(seen)
  /\ server # "done" => ~timed_out

(* The packets that are counted are of this run: the server compares their *)
(* test id, or nobody else connects.                                       *)
OnlyThisRun == CheckTestId \/ MaxForeign = 0

IInv ==
  /\ TypeOK /\ QueueInv /\ CountInv /\ SubmissionsNotLost
  /\ OnlyThisRun => AggregateOfSeen

LEMMA InvInit == Init => IInv
<1> SUFFICES ASSUME Init PROVE IInv
  OBVIOUS
<1>1. TypeOK
  <2>1. passed = {} /\ lost = {} /\ launched = [i \in Meter |-> 0]
    BY DEF Init
  <2>2. /\ launched \in [Meter -> 0 .. MaxLaunches]
        /\ foreign \in 0 .. MaxForeign /\ received \in 0 .. N
    BY <2>1, AggAssumption DEF Init
  <2>3. value \in [Meter -> Field]
    BY AggAssumption DEF Init
  <2>4. QED
    BY <2>1, <2>2, <2>3, MeterFacts DEF Init, TypeOK
<1>2. QueueInv
  BY DEF Init, QueueInv
<1>3. CountInv
  BY FS_EmptySet DEF Init, CountInv
<1>4. SubmissionsNotLost
  BY DEF Init, SubmissionsNotLost
<1>5. AggregateOfSeen
  <2> DEFINE Z == [i \in Meter |-> IF i \in seen THEN masked_value(i) ELSE 0]
  <2>1. \A k \in 0 .. (N - 1) : Z[k] = 0
    BY MeterFacts DEF Init
  <2>2. FieldFold(0, Z, N) = 0
    BY <2>1, MeterFacts, SumZero
  <2>3. QED
    BY <2>2 DEF Init, AggregateOfSeen
<1>6. QED
  BY <1>1, <1>2, <1>3, <1>4, <1>5 DEF IInv

(* A meter's submission is acceptable, and carries its id.                 *)
LEMMA SubmissionFacts ==
  ASSUME TypeOK, NEW i \in Meter
  PROVE  /\ Submission(i).id = i /\ Submission(i).masked_value = masked_value(i)
         /\ Submission(i).test_id = "this" /\ Submission(i).format
         /\ masked_value(i) \in Field /\ Acceptable(Submission(i))
<1>1. masked_value(i) \in Field
  BY MaskedFold DEF TypeOK
<1>2. masked_value(i) < P /\ i < N
  BY <1>1, MeterFacts DEF Field
<1>3. QED
  BY <1>1, <1>2 DEF Submission, Packet, Acceptable

(* What the server accepts has a meter's id and, if only this run can be   *)
(* accepted, is that meter's submission.                                   *)
LEMMA AcceptedFacts ==
  ASSUME TypeOK, NEW p \in Packets, Acceptable(p)
  PROVE  p.id \in Meter /\ (OnlyThisRun => p = Submission(p.id))
<1>1. CASE \E i \in Meter : p = Submission(i)
  BY <1>1, SubmissionFacts
<1>2. CASE foreign > 0 /\ p \in ForeignPackets
  <2>1. MaxForeign # 0
    BY <1>2, AggAssumption DEF TypeOK
  <2>2. CASE \E i \in Meter, v \in Field : p = Packet(TRUE, "old", i, v)
    BY <2>1, <2>2 DEF Packet, Acceptable, OnlyThisRun
  <2>3. CASE p \in {Packet(FALSE, "this", 0, 0), Packet(TRUE, "this", N, 0),
                    Packet(TRUE, "this", 0, P)}
    BY <2>3, MeterFacts DEF Packet, Acceptable
  <2>4. QED
    BY <1>2, <2>2, <2>3 DEF ForeignPackets, Packet
<1>3. QED
  BY <1>1, <1>2 DEF Packets

(* Counting adds one id that was not seen.                                 *)
LEMMA CountEffect ==
  ASSUME TypeOK, QueueInv, CountInv, Count
  PROVE  /\ client.packet \in Packets /\ client.packet.id \in Meter
         /\ seen' = seen \cup {client.packet.id} /\ client.packet.id \notin seen
         /\ received' = received + 1
         /\ IsFiniteSet(seen) /\ Cardinality(seen') = Cardinality(seen) + 1
         /\ seen' \subseteq Meter /\ Cardinality(seen') \in 0 .. N
<1>1. client.packet \in Packets
  BY DEF Count, QueueInv, Connections
<1>2. client.packet.id \in Meter
  BY <1>1, AcceptedFacts DEF Count
<1>3. IsFiniteSet(Meter) /\ Cardinality(Meter) = N
  <2>1. 0 \in Int /\ N - 1 \in Int /\ ~(0 > N - 1) /\ (N - 1) - 0 + 1 = N
    BY MeterFacts
  <2>2. QED
    BY <2>1, FS_Interval, MeterFacts
<1>4. seen' = seen \cup {client.packet.id} /\ client.packet.id \notin seen
      /\ received' = received + 1
  BY DEF Count
<1>5. seen \subseteq Meter /\ seen' \subseteq Meter
  BY <1>2, <1>4 DEF TypeOK
<1>6. IsFiniteSet(seen) /\ IsFiniteSet(seen')
      /\ Cardinality(seen') <= Cardinality(Meter)
  BY <1>3, <1>5, FS_Subset
<1>7. Cardinality(seen') = Cardinality(seen) + 1
  BY <1>4, <1>6, FS_AddElement
<1>8. Cardinality(seen') \in Nat
  BY <1>6, FS_CardinalityType
<1>9. Cardinality(seen') \in 0 .. N
  BY <1>3, <1>6, <1>8, MeterFacts
<1>10. QED
  BY <1>1, <1>2, <1>4, <1>5, <1>6, <1>7, <1>9

LEMMA TypeNext ==
  ASSUME TypeOK, QueueInv, CountInv, [Next]_vars
  PROVE  TypeOK'
<1> USE DEF run, counters
<1>1. CASE TimesOut \/ CountedAll \/ PollFails
  BY <1>1 DEF TimesOut, CountedAll, PollFails, EndLoop, TypeOK
<1>2. CASE Accept
  BY <1>2 DEF Accept, TypeOK
<1>3. CASE AcceptFails
  BY <1>3 DEF AcceptFails, TypeOK
<1>4. CASE Reject
  BY <1>4 DEF Reject, Close, TypeOK
<1>5. CASE Duplicate
  BY <1>5 DEF Duplicate, Close, TypeOK
<1>6. CASE Count
  <2>1. received' \in 0 .. N /\ seen' \subseteq Meter
    BY <1>6, CountEffect DEF CountInv
  <2>2. aggregate' \in Field
    <3>1. client.packet.masked_value \in Nat
      <4>1. client.packet \in Packets
        BY <1>6, CountEffect
      <4>2. CASE \E i \in Meter : client.packet = Submission(i)
        BY <4>2, SubmissionFacts, MeterFacts DEF Field
      <4>3. CASE client.packet \in ForeignPackets
        BY <4>3, MeterFacts DEF ForeignPackets, Packet, Field
      <4>4. QED
        BY <4>1, <4>2, <4>3 DEF Packets
    <3>2. aggregate + client.packet.masked_value \in Nat
      BY <3>1, MeterFacts DEF TypeOK, Field
    <3>3. Word * Word \in Nat \ {0}
      <4>1. Word \in Nat \ {0}
        BY FieldAssumption
      <4>2. QED
        BY ONLY <4>1
    <3>4. U64(aggregate + client.packet.masked_value) \in Nat
      BY <3>2, <3>3 DEF U64
    <3>5. U64(aggregate + client.packet.masked_value) % P \in 0 .. (P - 1)
      BY <3>4, MeterFacts
    <3>6. QED
      BY <1>6, <3>5 DEF Count, Field
  <2>3. QED
    BY <1>6, <2>1, <2>2 DEF Count, Close, TypeOK
<1>7. CASE Expire
  BY <1>7 DEF Expire, TypeOK
<1>8. ASSUME NEW i \in Meter, Launch(i) PROVE TypeOK'
  <2>1. launched[i] + 1 \in 0 .. MaxLaunches
    BY <1>8, AggAssumption DEF Launch, TypeOK
  <2>2. QED
    BY <1>8, <2>1 DEF Launch, TypeOK
<1>9. CASE ForeignConnects
  <2>1. foreign' \in 0 .. MaxForeign
    BY <1>9, AggAssumption DEF ForeignConnects, TypeOK
  <2>2. QED
    BY <1>9, <2>1 DEF ForeignConnects, TypeOK
<1>10. ASSUME NEW from \in Bytes, NEW to \in Bytes, Becomes(from, to)
       PROVE  TypeOK'
  <2>1. PICK c \in Connections : Record(c, to)
    BY <1>10 DEF Becomes, QueueInv
  <2>2. c.by \subseteq Processes
    BY DEF Connections
  <2>3. passed' \subseteq Processes /\ lost' \subseteq Processes
    BY <2>1, <2>2 DEF Record, TypeOK, Processes
  <2>4. UNCHANGED <<run, launched, foreign, server, expired, seen, timed_out, counters>>
    BY <1>10 DEF Becomes
  <2>5. QED
    BY <2>3, <2>4 DEF TypeOK, Processes
<1>11. CASE Vanishes \/ UNCHANGED vars
  BY <1>11 DEF Vanishes, vars, TypeOK
<1>12. QED
  BY <1>1, <1>2, <1>3, <1>4, <1>5, <1>6, <1>7, <1>8, <1>9, <1>10, <1>11
     DEF Next, Server, Others, Sends, Arrives, Loses, Breaks, Bytes

(* A queue without one of its elements.                                    *)
LEMMA Removed ==
  ASSUME NEW S, NEW q \in Seq(S), NEW k \in 1 .. Len(q)
  PROVE  /\ Without(q, k) \in Seq(S) /\ Len(Without(q, k)) = Len(q) - 1
         /\ \A j \in 1 .. (k - 1) : Without(q, k)[j] = q[j]
         /\ \A j \in (k + 1) .. Len(q) : Without(q, k)[j - 1] = q[j]
<1> DEFINE r == Without(q, k)
           a == SubSeq(q, 1, k - 1)
           b == SubSeq(q, k + 1, Len(q))
<1>1. /\ a \in Seq(S) /\ Len(a) = k - 1
      /\ \A j \in 1 .. (k - 1) : a[j] = q[j]
  OBVIOUS
<1>2. /\ b \in Seq(S) /\ Len(b) = Len(q) - k
      /\ \A j \in 1 .. (Len(q) - k) : b[j] = q[k + j]
  OBVIOUS
<1> HIDE DEF a, b
<1>3. r = a \o b
  BY DEF a, b, Without
<1> HIDE DEF r
<1>4. /\ r \in Seq(S) /\ Len(r) = Len(a) + Len(b)
      /\ \A i \in 1 .. Len(a) + Len(b) : r[i] = IF i <= Len(a) THEN a[i] ELSE b[i - Len(a)]
  <2>1. a \in Seq(S) /\ b \in Seq(S)
    BY <1>1, <1>2
  <2>2. /\ a \o b \in Seq(S) /\ Len(a \o b) = Len(a) + Len(b)
        /\ \A i \in 1 .. Len(a) + Len(b) :
             (a \o b)[i] = IF i <= Len(a) THEN a[i] ELSE b[i - Len(a)]
    BY ONLY <2>1, ConcatProperties, Zenon
  <2>3. QED
    BY ONLY <1>3, <2>2
<1>5. Len(q) \in Nat /\ k \in Nat
  OBVIOUS
<1>6. ASSUME NEW j \in (k + 1) .. Len(q) PROVE r[j - 1] = q[j]
  <2>1. j - 1 \in 1 .. Len(a) + Len(b) /\ ~(j - 1 <= Len(a)) /\ j - 1 - Len(a) = j - k
        /\ j - k \in 1 .. (Len(q) - k) /\ k + (j - k) = j
    BY <1>1, <1>2, <1>5
  <2>2. QED
    BY <1>2, <1>4, <2>1
<1>7. ASSUME NEW j \in 1 .. (k - 1) PROVE r[j] = q[j]
  <2>1. j \in 1 .. Len(a) + Len(b) /\ j <= Len(a)
    BY <1>1, <1>2, <1>5
  <2>2. QED
    BY <1>1, <1>4, <2>1
<1>8. Len(r) = Len(q) - 1
  BY ONLY <1>1, <1>2, <1>4, <1>5
<1>9. QED
  BY ONLY <1>4, <1>6, <1>7, <1>8 DEF r

(* What is on its way stays a known packet.                                *)
LEMMA QueueNext ==
  ASSUME TypeOK, QueueInv, [Next]_vars
  PROVE  QueueInv'
<1> USE DEF run, counters
<1>1. Connections \subseteq Connections' /\ Packets \subseteq Packets'
  <2>1. \A i \in Meter : Submission(i)' = Submission(i)
    BY RunStays, SubmissionStays
  <2>2. ForeignConnects \/ UNCHANGED foreign
    BY DEF Next, vars, Server, Others, Launch, Sends, Arrives,
       Loses, Breaks, Becomes, Record, Vanishes, Expire, TimesOut, CountedAll, PollFails, EndLoop, Accept,
       AcceptFails, Reject, Duplicate, Count, Close
  <2>3. foreign > 0 => foreign' > 0
    BY <2>2, AggAssumption DEF ForeignConnects, TypeOK
  <2>4. ForeignPackets' = ForeignPackets
    BY DEF ForeignPackets, Packet
  <2>5. Packets \subseteq Packets'
    BY <2>1, <2>3, <2>4 DEF Packets
  <2>6. ASSUME NEW c \in Connections PROVE c \in Connections'
    <3>1. \A s \in c.by : s[1] \in Meter /\ c.packet = Submission(s[1])
      BY DEF Connections, Processes
    <3>2. \A s \in c.by : c.packet = Submission(s[1])'
      BY <2>1, <3>1
    <3>3. QED
      BY <2>5, <3>2 DEF Connections, Processes, Bytes
  <2>7. QED
    BY <2>5, <2>6
<1>2. queue \in Seq(Connections') /\ (server = "recv" => client \in Connections')
  BY <1>1 DEF QueueInv
<1>3. CASE TimesOut \/ CountedAll \/ PollFails
  <2>1. server' = "done" /\ queue' = <<>>
    BY <1>3 DEF TimesOut, CountedAll, PollFails, EndLoop
  <2>2. <<>> \in Seq(Connections')
    OBVIOUS
  <2>3. QED
    BY <2>1, <2>2 DEF QueueInv
<1>4. CASE Accept
  <2>1. Head(queue) \in Connections' /\ Tail(queue) \in Seq(Connections')
    BY <1>2, <1>4 DEF Accept
  <2>2. QED
    BY <1>4, <2>1 DEF Accept, QueueInv
<1>5. CASE AcceptFails
  <2>1. Tail(queue) \in Seq(Connections')
    BY <1>2, <1>5 DEF AcceptFails
  <2>2. QED
    BY <1>2, <1>5, <2>1 DEF AcceptFails, QueueInv
<1>6. CASE Reject \/ Duplicate \/ Count
  BY <1>2, <1>6 DEF Reject, Duplicate, Count, Close, QueueInv
<1>7. CASE Expire
  BY <1>2, <1>7 DEF Expire, QueueInv
<1>8. ASSUME NEW p \in Packets', NEW by \in SUBSET Processes, Arrive(p, by),
             \A s \in by : p = Submission(s[1])', UNCHANGED <<server, client>>
      PROVE  QueueInv'
  <2>1. [packet |-> p, by |-> by, bytes |-> "part"] \in Connections'
    BY <1>8 DEF Connections, Processes, Bytes
  <2>2. queue' = Append(queue, [packet |-> p, by |-> by, bytes |-> "part"])
    BY <1>8 DEF Arrive, Connection
  <2>3. queue' \in Seq(Connections')
    BY <1>2, <2>1, <2>2
  <2>4. QED
    BY <1>2, <1>8, <2>3 DEF QueueInv
<1>9. ASSUME NEW i \in Meter, Launch(i) PROVE QueueInv'
  <2>1. Submission(i) \in Packets /\ Submission(i)' = Submission(i)
    BY RunStays, SubmissionStays DEF Packets
  <2>2. launched[i] + 1 \in 1 .. MaxLaunches
    BY <1>9, AggAssumption DEF Launch, TypeOK
  <2> DEFINE by == {<<i, launched[i] + 1>>}
  <2>3. by \in SUBSET Processes /\ \A s \in by : s[1] = i
    BY <2>2 DEF Processes
  <2>4. Arrive(Submission(i), by) /\ UNCHANGED <<server, client>>
    BY <1>9 DEF Launch
  <2> HIDE DEF by
  <2>5. \A s \in by : Submission(i) = Submission(s[1])'
    BY <2>1, <2>3
  <2>6. QED
    BY <1>1, <1>8, <2>1, <2>3, <2>4, <2>5
<1>10. CASE ForeignConnects
  <2>1. PICK p \in ForeignPackets : Arrive(p, {})
    BY <1>10 DEF ForeignConnects
  <2>2. foreign' > 0
    BY <1>10, AggAssumption DEF ForeignConnects, TypeOK
  <2>3. p \in Packets'
    BY <2>1, <2>2 DEF Packets, ForeignPackets, Packet
  <2>4. QED
    BY <1>8, <1>10, <2>1, <2>3 DEF ForeignConnects
<1>11. ASSUME NEW from \in Bytes, NEW to \in Bytes, Becomes(from, to)
       PROVE  QueueInv'
  <2>1. \A c \in Connections' : [c EXCEPT !.bytes = to] \in Connections'
    BY <1>11 DEF Connections
  <2>2. CASE /\ \E k \in DOMAIN queue : queue' = [queue EXCEPT ![k].bytes = to]
             /\ UNCHANGED client
    <3>1. PICK k \in DOMAIN queue : queue' = [queue EXCEPT ![k].bytes = to]
      BY <2>2
    <3>2. queue[k] \in Connections'
      BY <1>2, <3>1
    <3>3. queue' \in Seq(Connections')
      BY <1>2, <2>1, <3>1, <3>2
    <3>4. QED
      BY <1>2, <1>11, <2>2, <3>3 DEF Becomes, QueueInv
  <2>3. CASE server = "recv" /\ client' = [client EXCEPT !.bytes = to] /\ UNCHANGED queue
    BY <1>2, <1>11, <2>1, <2>3 DEF Becomes, QueueInv
  <2>4. QED
    BY <1>11, <2>2, <2>3 DEF Becomes
<1>12. CASE Vanishes
  <2>1. PICK k \in 1 .. Len(queue) :
          queue' = Without(queue, k)
    <3>1. DOMAIN queue = 1 .. Len(queue)
      BY <1>2
    <3>2. QED
      BY <1>12, <3>1 DEF Vanishes
  <2>2. queue' \in Seq(Connections')
    BY <1>2, <2>1, Removed
  <2>3. QED
    BY <1>2, <1>12, <2>2 DEF Vanishes, QueueInv
<1>13. CASE UNCHANGED vars
  BY <1>2, <1>13 DEF vars, QueueInv
<1>14. QED
  BY <1>3, <1>4, <1>5, <1>6, <1>7, <1>9, <1>10, <1>11, <1>12, <1>13
     DEF Next, Server, Others, Sends, Arrives, Loses, Breaks, Bytes

(* What a step does to the count: it counts one more submission, or leaves *)
(* the count and its sum alone.                                            *)
LEMMA CountOrNot ==
  ASSUME [Next]_vars
  PROVE  Count \/ UNCHANGED <<seen, received, aggregate>>
BY DEF Next, vars, Server, Others, Launch, ForeignConnects, Sends, Arrives,
       Loses, Breaks, Becomes, Record, Vanishes, Expire, TimesOut, CountedAll, PollFails, EndLoop, Accept,
       AcceptFails, Reject, Duplicate, Close, run, counters

LEMMA CountNext ==
  ASSUME TypeOK, QueueInv, CountInv, [Next]_vars
  PROVE  CountInv'
<1>1. received' = Cardinality(seen')
  <2>1. CASE Count
    BY <2>1, CountEffect DEF CountInv
  <2>2. CASE UNCHANGED <<seen, received, aggregate>>
    BY <2>2 DEF CountInv
  <2>3. QED
    BY <2>1, <2>2, CountOrNot
<1>2. server' # "done" => ~timed_out'
  BY DEF CountInv, Next, vars, Server, Others, Launch, ForeignConnects, Sends,
     Arrives, Loses, Breaks, Becomes, Record, Vanishes, Expire, TimesOut, CountedAll, PollFails, EndLoop, Accept,
     AcceptFails, Reject, Duplicate, Count, Close, TypeOK
<1>3. QED
  BY <1>1, <1>2 DEF CountInv

(* The sum of the submissions that were counted.                           *)
Counted == [i \in Meter |-> IF i \in seen THEN masked_value(i) ELSE 0]

LEMMA SumNext ==
  ASSUME TypeOK, QueueInv, CountInv, OnlyThisRun, AggregateOfSeen, [Next]_vars
  PROVE  AggregateOfSeen'
<1>1. \A i \in Meter : masked_value(i)' = masked_value(i)
  BY RunStays, SubmissionStays
<1>2. AggregateOfSeen <=> aggregate = FieldFold(0, Counted, N)
  BY DEF AggregateOfSeen, Counted
<1>3. AggregateOfSeen' <=> aggregate' = FieldFold(0, Counted', N)
  BY DEF AggregateOfSeen, Counted, FieldFold, field_add, U32
<1>4. CASE Count
  <2> DEFINE id == client.packet.id
  <2>1. /\ client.packet \in Packets /\ id \in Meter
        /\ seen' = seen \cup {id} /\ id \notin seen
    BY <1>4, CountEffect
  <2>2. client.packet = Submission(id)
    BY <1>4, <2>1, AcceptedFacts DEF Count
  <2>3. client.packet.masked_value = masked_value(id) /\ masked_value(id) \in Field
    BY <2>1, <2>2, SubmissionFacts
  <2>4. aggregate \in Field
    BY DEF TypeOK
  <2>5. aggregate' = field_add(masked_value(id), aggregate)
    <3>1. aggregate' = mod_add(aggregate, masked_value(id))
      BY <1>4, <2>3 DEF Count, mod_add
    <3>2. QED
      BY <2>3, <2>4, <3>1, ModValue, AddComm
  <2>6. \A k \in Meter : Counted[k] \in Field
    BY MaskedFold, MeterFacts DEF Counted, TypeOK
  <2>7. Counted[id] = 0 /\ Counted'[id] = masked_value(id)
    BY <1>1, <2>1 DEF Counted
  <2>8. \A k \in Meter : k # id => Counted'[k] = Counted[k]
    BY <1>1, <2>1 DEF Counted
  <2> HIDE DEF id
  <2>9. N \in Nat /\ Meter = 0 .. (N - 1)
    BY MeterFacts
  <2>10. FieldFold(0, Counted', N) = field_add(masked_value(id), FieldFold(0, Counted, N))
    BY <2>1, <2>3, <2>6, <2>7, <2>8, <2>9, SumPoint
  <2>11. QED
    BY <1>2, <1>3, <2>5, <2>10
<1>5. CASE UNCHANGED <<seen, received, aggregate>>
  <2>1. Counted' = Counted
    BY <1>1, <1>5 DEF Counted
  <2>2. QED
    BY <1>2, <1>3, <1>5, <2>1
<1>6. QED
  BY <1>4, <1>5, CountOrNot

(* Whatever a step of the server or of anybody else does, a submission     *)
(* whose sender printed PASS is counted, lost before it arrived, or still  *)
(* on its way.                                                             *)
InFlight(s) ==
  \/ \E k \in 1 .. Len(queue) : OnItsWay(s, queue[k])
  \/ server = "recv" /\ OnItsWay(s, client)

LEMMA LostNext ==
  ASSUME TypeOK, QueueInv, CountInv, SubmissionsNotLost, [Next]_vars
  PROVE  SubmissionsNotLost'
<1> USE DEF run, counters
<1> SUFFICES ASSUME server' # "done", NEW s \in passed' \ lost', s[1] \notin seen'
             PROVE  InFlight(s)'
  <2>1. queue' \in Seq(Connections')
    BY QueueNext DEF QueueInv
  <2>2. DOMAIN queue' = 1 .. Len(queue')
    BY <2>1
  <2>3. QED
    BY <2>2 DEF SubmissionsNotLost, InFlight, OnItsWay
<1>0. queue \in Seq(Connections) /\ (server = "recv" => client \in Connections)
      /\ DOMAIN queue = 1 .. Len(queue)
  BY DEF QueueInv
<1>1. s[1] \in Meter
  <2>1. TypeOK'
    BY TypeNext
  <2>2. QED
    BY <2>1 DEF TypeOK
<1>2. Submission(s[1]).id = s[1] /\ Acceptable(Submission(s[1]))
  BY <1>1, SubmissionFacts
<1> DEFINE Full(c) == OnItsWay(s, c)
<1>3. InFlight(s) <=> \/ \E k \in 1 .. Len(queue) : Full(queue[k])
                      \/ server = "recv" /\ Full(client)
  BY DEF InFlight
<1>4. InFlight(s)' <=> \/ \E k \in 1 .. Len(queue') : Full(queue'[k])
                       \/ server' = "recv" /\ Full(client')
  BY DEF InFlight, OnItsWay
<1>5. server # "done" /\ s \in passed \ lost /\ s[1] \notin seen => InFlight(s)
  BY <1>0 DEF SubmissionsNotLost, InFlight
<1>6. \A c : Full(c) <=> s \in c.by /\ c.bytes \in {"sent", "full"}
  BY DEF OnItsWay
<1> HIDE DEF Full
<1>7. CASE Accept
  <2>1. /\ client' = queue[1] /\ server' = "recv" /\ server = "poll"
        /\ Len(queue') = Len(queue) - 1
        /\ \A k \in 1 .. Len(queue) : k = 1 \/ (/\ k - 1 \in 1 .. Len(queue')
                                                /\ queue'[k - 1] = queue[k])
    BY <1>0, <1>7 DEF Accept
  <2>2. s \in passed \ lost /\ s[1] \notin seen
    BY <1>7 DEF Accept
  <2>3. PICK k \in 1 .. Len(queue) : Full(queue[k])
    BY <1>3, <1>5, <2>1, <2>2
  <2>4. QED
    BY <1>4, <2>1, <2>3
<1>8. CASE AcceptFails
  <2>1. /\ queue[1].bytes = "cut" /\ server = "poll"
        /\ Len(queue') = Len(queue) - 1
        /\ \A k \in 1 .. Len(queue) : k = 1 \/ (/\ k - 1 \in 1 .. Len(queue')
                                                /\ queue'[k - 1] = queue[k])
    BY <1>0, <1>8 DEF AcceptFails
  <2>2. s \in passed \ lost /\ s[1] \notin seen
    BY <1>8 DEF AcceptFails
  <2>3. PICK k \in 1 .. Len(queue) : Full(queue[k])
    BY <1>3, <1>5, <2>1, <2>2
  <2>4. QED
    BY <1>4, <1>6, <2>1, <2>3
<1>9. CASE Reject \/ Duplicate \/ Count
  <2>1. server = "recv" /\ s \in passed \ lost /\ s[1] \notin seen /\ UNCHANGED queue
    BY <1>9 DEF Reject, Duplicate, Count, Close
  <2>2. ~Full(client)
    <3>1. SUFFICES ASSUME Full(client) PROVE FALSE
      OBVIOUS
    <3>2. client.packet = Submission(s[1])
      BY <1>0, <1>6, <2>1, <3>1 DEF Connections
    <3>3. QED
      BY <1>2, <1>6, <1>9, <2>1, <3>1, <3>2 DEF Reject, Duplicate, Count
  <2>3. QED
    BY <1>3, <1>4, <1>5, <2>1, <2>2
<1>10. CASE Expire \/ UNCHANGED vars
  <2>1. UNCHANGED <<passed, lost, seen, server, queue, client>>
    BY <1>10 DEF Expire, vars
  <2>2. QED
    BY <1>3, <1>4, <1>5, <2>1
<1>11. CASE ForeignConnects \/ \E j \in Meter : Launch(j)
  <2>1. PICK c : queue' = Append(queue, c)
    BY <1>11 DEF ForeignConnects, Launch, Arrive
  <2>2. UNCHANGED <<passed, lost, seen, server, client>>
    BY <1>11 DEF ForeignConnects, Launch
  <2>3. \A k \in 1 .. Len(queue) : k \in 1 .. Len(queue') /\ queue'[k] = queue[k]
    BY <1>0, <2>1
  <2>4. QED
    BY <1>3, <1>4, <1>5, <2>2, <2>3
<1>12. CASE Vanishes
  <2>1. PICK k \in 1 .. Len(queue) :
          /\ queue[k].bytes \in {"lost", "cut"}
          /\ queue' = Without(queue, k)
    BY <1>0, <1>12 DEF Vanishes
  <2>2. /\ Len(queue') = Len(queue) - 1
        /\ \A j \in 1 .. (k - 1) : queue'[j] = queue[j]
        /\ \A j \in (k + 1) .. Len(queue) : queue'[j - 1] = queue[j]
        /\ Len(queue) \in Nat
    <3>1. queue \in Seq(Connections) /\ k \in 1 .. Len(queue)
      BY <1>0
    <3>2. /\ Len(Without(queue, k)) = Len(queue) - 1
          /\ \A j \in 1 .. (k - 1) : Without(queue, k)[j] = queue[j]
          /\ \A j \in (k + 1) .. Len(queue) : Without(queue, k)[j - 1] = queue[j]
      BY <3>1, Removed
    <3>3. Len(queue) \in Nat
      BY <3>1
    <3>4. QED
      BY <2>1, <3>2, <3>3
  <2>3. UNCHANGED <<passed, lost, seen, server, client>>
    BY <1>12 DEF Vanishes
  <2>4. ASSUME NEW j \in 1 .. Len(queue), Full(queue[j])
        PROVE  \E l \in 1 .. Len(queue') : Full(queue'[l])
    <3>1. j # k
      BY <1>6, <2>1, <2>4
    <3>2. CASE j < k
      <4>1. j \in 1 .. (k - 1) /\ j \in 1 .. Len(queue')
        BY ONLY <2>2, <3>2, j \in 1 .. Len(queue), k \in 1 .. Len(queue)
      <4>2. QED
        BY <2>2, <2>4, <4>1
    <3>3. CASE k < j
      <4>1. j \in (k + 1) .. Len(queue) /\ j - 1 \in 1 .. Len(queue')
        BY ONLY <2>2, <3>3, j \in 1 .. Len(queue), k \in 1 .. Len(queue)
      <4>2. QED
        BY <2>2, <2>4, <4>1
    <3>4. QED
      BY <3>1, <3>2, <3>3
  <2>5. QED
    BY <1>3, <1>4, <1>5, <2>3, <2>4
<1>13. ASSUME NEW from \in {"part", "sent", "lost"}, NEW to \in Bytes,
              Becomes(from, to), from = "sent" => to \in {"full", "lost"}
       PROVE  InFlight(s)'
  <2>0. UNCHANGED <<seen, server>>
    BY <1>13 DEF Becomes
  <2>1. ASSUME NEW c, NEW d, c.bytes = from, d = [c EXCEPT !.bytes = to],
               c \in Connections, Record(c, to)
        PROVE  /\ Full(c) => Full(d)
               /\ s \in passed \ lost \/ Full(d)
    <3>1. d.bytes = to /\ d.by = c.by
      BY <2>1 DEF Connections
    <3>2. QED
      BY <1>6, <1>13, <2>1, <3>1 DEF Record
  <2>2. ASSUME NEW k \in DOMAIN queue, queue[k].bytes = from,
               queue' = [queue EXCEPT ![k].bytes = to], UNCHANGED client,
               Record(queue[k], to)
        PROVE  InFlight(s)'
    <3>1. queue[k] \in Connections
      BY <1>0, <2>2
    <3>2. /\ Len(queue') = Len(queue) /\ k \in 1 .. Len(queue)
          /\ \A j \in 1 .. Len(queue) : j # k => queue'[j] = queue[j]
          /\ queue'[k] = [queue[k] EXCEPT !.bytes = to]
      BY <1>0, <2>2
    <3>3. /\ Full(queue[k]) => Full(queue'[k])
          /\ s \in passed \ lost \/ Full(queue'[k])
      BY <2>1, <2>2, <3>1, <3>2
    <3>4. \A j \in 1 .. Len(queue) : Full(queue[j]) => Full(queue'[j])
      BY <3>2, <3>3
    <3>5. QED
      BY <1>3, <1>4, <1>5, <2>0, <2>2, <3>2, <3>3, <3>4
  <2>3. ASSUME server = "recv", client.bytes = from,
               client' = [client EXCEPT !.bytes = to], UNCHANGED queue,
               Record(client, to)
        PROVE  InFlight(s)'
    <3>1. /\ Full(client) => Full(client')
          /\ s \in passed \ lost \/ Full(client')
      BY <1>0, <2>1, <2>3
    <3>2. QED
      BY <1>3, <1>4, <1>5, <2>0, <2>3, <3>1
  <2>4. QED
    BY <1>13, <2>2, <2>3 DEF Becomes
<1>14. CASE TimesOut \/ CountedAll \/ PollFails
  BY <1>14 DEF TimesOut, CountedAll, PollFails, EndLoop
<1>15. QED
  BY <1>7, <1>8, <1>9, <1>10, <1>11, <1>12, <1>13, <1>14
     DEF Next, Server, Others, Sends, Arrives, Loses, Breaks, Bytes

LEMMA InvNext == IInv /\ [Next]_vars => IInv'
<1> SUFFICES ASSUME IInv, [Next]_vars PROVE IInv'
  OBVIOUS
<1>1. TypeOK' /\ QueueInv' /\ CountInv' /\ SubmissionsNotLost'
  BY TypeNext, QueueNext, CountNext, LostNext DEF IInv
<1>2. OnlyThisRun => AggregateOfSeen'
  BY SumNext DEF IInv
<1>3. QED
  BY <1>1, <1>2 DEF IInv, OnlyThisRun

(* The aggregation server keeps its inductive invariant                    *)
(* (secure_agg_server.c:180-258).                                          *)
THEOREM InvCorrect == Spec => []IInv
BY InvInit, InvNext, PTL DEF Spec

(* The server's counters and its aggregate keep their types: the aggregate *)
(* is always reduced, and no more meters are counted than there are        *)
(* (secure_agg_server.c:229-248).                                          *)
THEOREM TypeCorrect == Spec => []TypeOK
<1>1. IInv => TypeOK
  BY DEF IInv
<1>2. QED
  BY <1>1, InvCorrect, PTL

(* While the server runs, a submission whose process has printed PASS is   *)
(* counted, on its way, or lost before it reached the server's host, for   *)
(* every number of meters and launches: the server's own handling of the   *)
(* connections loses none (secure_agg_meter.c:233-253,                     *)
(* secure_agg_server.c:210-258).                                           *)
THEOREM NotLostCorrect == Spec => []SubmissionsNotLost
<1>1. IInv => SubmissionsNotLost
  BY DEF IInv
<1>2. QED
  BY <1>1, InvCorrect, PTL

(* If the server compares test ids, or nobody else connects, its aggregate *)
(* is at any time the sum of one submission of this run for every id seen  *)
(* (secure_agg_server.c:229-248).                                          *)
THEOREM AggregateCorrect == OnlyThisRun => (Spec => []AggregateOfSeen)
<1> SUFFICES ASSUME OnlyThisRun PROVE Spec => []AggregateOfSeen
  OBVIOUS
<1>1. IInv => AggregateOfSeen
  BY DEF IInv
<1>2. QED
  BY <1>1, InvCorrect, PTL

-----------------------------------------------------------------------------
(* The verdict.                                                            *)

(* Whoever has counted all meters has the expected sum, whatever the masks *)
(* are: the server's check cannot fail then.                               *)
LEMMA AllCounted ==
  ASSUME IInv, OnlyThisRun
  PROVE  /\ received = N <=> seen = Meter
         /\ Passes <=> seen = Meter
<1>1. IsFiniteSet(Meter) /\ Cardinality(Meter) = N
  <2>1. 0 \in Int /\ N - 1 \in Int /\ ~(0 > N - 1) /\ (N - 1) - 0 + 1 = N
    BY MeterFacts
  <2>2. QED
    BY <2>1, FS_Interval, MeterFacts
<1>2. received = N <=> seen = Meter
  <2>1. received = Cardinality(seen) /\ seen \subseteq Meter
    BY DEF IInv, CountInv, TypeOK
  <2>2. QED
    BY <1>1, <2>1, FS_Subset
<1>3. ASSUME seen = Meter PROVE aggregate = expected_raw % P
  <2>1. value \in [Meter -> Field] /\ mask \in [Pairs -> Field]
    BY DEF IInv, TypeOK
  <2>2. [i \in Meter |-> IF i \in seen THEN masked_value(i) ELSE 0] =
        [i \in Meter |-> masked_value(i)]
    BY <1>3
  <2>3. aggregate = FieldFold(0, [i \in Meter |-> masked_value(i)], N)
    BY <2>2 DEF IInv, AggregateOfSeen
  <2>4. QED
    BY <2>1, <2>3, MaskedTotal, ExpectedFold
<1>4. QED
  BY <1>2, <1>3 DEF Passes

(* The masks cancel: once all meters are counted the server says PASS,     *)
(* whatever the masks are and in whatever order the meters came            *)
(* (secure_agg_meter.c:42-59, secure_agg_server.c:264-265).                *)
THEOREM MasksCorrect == OnlyThisRun => (Spec => []AllCountedPasses)
<1> SUFFICES ASSUME OnlyThisRun PROVE Spec => []AllCountedPasses
  OBVIOUS
<1>1. IInv => AllCountedPasses
  BY AllCounted DEF AllCountedPasses
<1>2. QED
  BY <1>1, InvCorrect, PTL

(* The verdict as Tally sees it.                                           *)
Verdict == IF server # "done" THEN "none" ELSE IF Passes THEN "PASS" ELSE "FAIL"

LEMMA TallyInit == Init => ServersTally!Init
BY DEF Init, ServersTally!Init

(* The verdict depends on the count and the sum only.                      *)
LEMMA PassesStays ==
  ASSUME UNCHANGED <<run, received, aggregate>>
  PROVE  Passes' <=> Passes
<1>1. expected_raw' = expected_raw
  BY DEF expected_raw, run
<1>2. QED
  BY <1>1 DEF Passes

LEMMA TallyNext ==
  ASSUME OnlyThisRun, IInv, [Next]_vars
  PROVE  ServersTally!Next \/ UNCHANGED <<seen, Verdict, timed_out>>
<1> USE DEF run, counters
<1>0. UNCHANGED run /\ (received = N <=> seen = Meter) /\ (Passes <=> seen = Meter)
      /\ N \in Nat /\ received \in Nat
  BY RunStays, AllCounted, MeterFacts DEF IInv, TypeOK
<1>1. ASSUME NEW t \in BOOLEAN, server = "poll", EndLoop(t), received = N => t = FALSE
      PROVE  ServersTally!Next
  <2>1. /\ Verdict = "none" /\ Verdict' = IF Passes THEN "PASS" ELSE "FAIL"
        /\ UNCHANGED seen /\ timed_out' = t /\ timed_out = FALSE
    <3>1. Passes' <=> Passes
      BY <1>0, <1>1, PassesStays DEF EndLoop
    <3>2. timed_out = FALSE
      BY <1>1 DEF IInv, CountInv, TypeOK
    <3>3. QED
      BY <1>1, <3>1, <3>2 DEF EndLoop, Verdict
  <2>2. CASE seen = Meter
    <3>1. Verdict' = "PASS" /\ UNCHANGED timed_out
      BY <1>0, <1>1, <2>1, <2>2
    <3>2. ServersTally!Complete
      BY <2>1, <2>2, <3>1 DEF ServersTally!Complete, Verdict
    <3>3. QED
      BY <2>1, <3>1, <3>2 DEF ServersTally!Next
  <2>3. CASE seen # Meter
    <3>1. Verdict' = "FAIL"
      BY <1>0, <2>1, <2>3
    <3>2. ServersTally!GiveUp
      BY <2>1, <2>3, <3>1 DEF ServersTally!GiveUp, Verdict
    <3>3. QED
      BY <2>1, <3>2 DEF ServersTally!Next
  <2>4. QED
    BY <2>2, <2>3
<1>2. CASE TimesOut
  <2>1. server = "poll" /\ received < N /\ EndLoop(TRUE)
    BY <1>2 DEF TimesOut
  <2>2. received # N
    BY <1>0, <2>1
  <2>3. QED
    BY <1>1, <2>1, <2>2
<1>3. CASE CountedAll \/ PollFails
  BY <1>1, <1>3 DEF CountedAll, PollFails
<1>4. CASE Count
  <2>1. /\ seen' = seen \cup {client.packet.id} /\ client.packet.id \notin seen
        /\ client.packet.id \in Meter
    BY <1>4, CountEffect DEF IInv
  <2>2. server # "done" /\ server' # "done" /\ UNCHANGED timed_out
    BY <1>4 DEF Count, Close
  <2>3. ServersTally!Count(client.packet.id)
    BY <2>1, <2>2 DEF ServersTally!Count, Verdict
  <2>4. QED
    BY <2>1, <2>3 DEF ServersTally!Next
<1>5. ASSUME UNCHANGED <<seen, received, aggregate, timed_out>>,
             server' = "done" <=> server = "done"
      PROVE  UNCHANGED <<seen, Verdict, timed_out>>
  BY <1>0, <1>5, PassesStays DEF Verdict
<1>6. CASE Accept \/ AcceptFails \/ Reject \/ Duplicate \/ Expire
  BY <1>5, <1>6 DEF Accept, AcceptFails, Reject, Duplicate, Close, Expire
<1>7. CASE Others \/ UNCHANGED vars
  BY <1>5, <1>7 DEF Others, Launch, ForeignConnects, Sends,
     Arrives, Loses, Breaks, Becomes, Record, Vanishes, vars
<1>8. QED
  BY <1>2, <1>3, <1>4, <1>6, <1>7 DEF Next, Server

(* Every run of the server is one of Tally: each meter is counted at most  *)
(* once, and PASS is said when, and only when, all of them are counted     *)
(* (secure_agg_server.c:239-248, 260-275).                                 *)
THEOREM Refinement == OnlyThisRun => (Spec => ImplementsTally)
<1> SUFFICES ASSUME OnlyThisRun PROVE Spec => ImplementsTally
  OBVIOUS
<1>1. IInv /\ [Next]_vars => [ServersTally!Next]_<<seen, Verdict, timed_out>>
  BY TallyNext
<1>2. QED
  BY <1>1, TallyInit, InvCorrect, PTL
     DEF Spec, ImplementsTally, ServersTally!Spec, Verdict
=============================================================================
