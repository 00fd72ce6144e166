------------------------------ MODULE MpcField ------------------------------
(***************************************************************************)
(* Arithmetic over F_p as mpc_field.c computes it, and the additive        *)
(* sharing of mpc_share.c on top of it.                                    *)
(*                                                                         *)
(* field_t is uint32_t, so every 32-bit expression of the code is reduced  *)
(* modulo Word (2^32 in the build) before anything else looks at it.  P is *)
(* MPC_PRIME (2^31 - 1 in the build).  The code relies on 2P fitting in a  *)
(* word with room to spare: a + b must not wrap, and the rejection bound   *)
(* two_p of field_rand must not wrap to 0.                                 *)
(***************************************************************************)
EXTENDS Integers

CONSTANTS
  P,      \* the field's modulus, MPC_PRIME
  Word    \* the number of values of a uint32_t

ASSUME FieldAssumption ==
  /\ P \in Nat \ {0}
  /\ Word \in Nat /\ 2 * P < Word

Field == 0 .. (P - 1)

U32(x) == x % Word              \* the conversion of a value to uint32_t
U64(x) == x % (Word * Word)     \* and to uint64_t

(* Mutant: the comparison lets p itself through.                           *)
field_add_keeps_p(a, b) ==
  LET s == U32(a + b) IN IF s > P THEN s - P ELSE s

field_add(a, b) ==
  LET s == U32(a + b) IN IF s >= P THEN s - P ELSE s

field_sub(a, b) ==
  IF a >= b THEN a - b ELSE U32(a + P - b)

field_mul(a, b) == U64(a * b) % P

(***************************************************************************)
(* field_rand draws words until one is below two_p and folds it into the   *)
(* field.  RandAccepts is the loop's exit test, RandFold the return value; *)
(* what a call returns is any element of RandResults.                      *)
(***************************************************************************)
two_p == U32(2 * P)
RandAccepts(val) == ~(val >= two_p)
RandFold(val) == IF val >= P THEN val - P ELSE val
RandResults == {RandFold(val) : val \in {w \in 0 .. (Word - 1) : RandAccepts(w)}}

(***************************************************************************)
(* A C loop `acc = init; for (i < n) acc = field_add(acc, f[i])'.          *)
(***************************************************************************)
FieldFold(init, f, n) ==
  LET acc[k \in Nat] ==
        IF k = 0 THEN init ELSE field_add(acc[k - 1], f[k - 1])
  IN  acc[n]

share_reconstruct(shares, n) == FieldFold(0, shares, n)

(* share_split: rand holds what the n-1 calls of field_rand returned.      *)
share_split(s, rand, n) ==
  [i \in 0 .. (n - 1) |->
     IF i < n - 1 THEN rand[i]
     ELSE field_sub(s, FieldFold(0, rand, n - 1))]
=============================================================================
