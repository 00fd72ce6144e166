------------------------------ MODULE FieldInv ------------------------------
(***************************************************************************)
(* field_inv of mpc_field.c: the extended Euclidean algorithm on signed    *)
(* 64-bit numbers, one step per iteration of its loop.  Here P is prime,   *)
(* as MPC_PRIME is.                                                        *)
(***************************************************************************)
EXTENDS MpcField

ASSUME PrimeAssumption == P > 1 /\ \A d \in 2 .. (P - 1) : P % d # 0

VARIABLES
  a,              \* the argument
  t, newt, r, newr,
  inverse         \* the result, -1 before it is there

euclid == <<a, t, newt, r, newr, inverse>>

EuclidInit ==
  /\ a \in Field
  /\ t = 0 /\ newt = 1
  /\ r = P /\ newr = a
  /\ inverse = -1

(* if (a == 0) return 0 *)
InvOfZero ==
  /\ inverse = -1 /\ a = 0
  /\ inverse' = 0
  /\ UNCHANGED <<a, t, newt, r, newr>>

(* Mutants: newt is multiplied where t, its old value, is meant to be kept *)
(* aside; the subtraction in the second line is forgotten.                 *)
DivideWithoutTmp ==
  /\ inverse = -1 /\ a # 0 /\ newr # 0
  /\ t' = newt /\ newt' = newt - (r \div newr) * newt
  /\ r' = newr /\ newr' = r - (r \div newr) * newr
  /\ UNCHANGED <<a, inverse>>

DivideSwaps ==
  /\ inverse = -1 /\ a # 0 /\ newr # 0
  /\ t' = newt /\ newt' = t
  /\ r' = newr /\ newr' = r
  /\ UNCHANGED <<a, inverse>>

Divide ==
  /\ inverse = -1 /\ a # 0 /\ newr # 0
  /\ t' = newt /\ newt' = t - (r \div newr) * newt
  /\ r' = newr /\ newr' = r - (r \div newr) * newr
  /\ UNCHANGED <<a, inverse>>

(* Mutant: a negative t is not lifted into the field.                      *)
InvResultSigned ==
  /\ inverse = -1 /\ a # 0 /\ newr = 0
  /\ inverse' = U32(t)
  /\ UNCHANGED <<a, t, newt, r, newr>>

InvResult ==
  /\ inverse = -1 /\ a # 0 /\ newr = 0
  /\ inverse' = U32(IF t < 0 THEN t + P ELSE t)
  /\ UNCHANGED <<a, t, newt, r, newr>>

EuclidNext == InvOfZero \/ Divide \/ InvResult
EuclidSpec == EuclidInit /\ [][EuclidNext]_euclid /\ WF_euclid(EuclidNext)

-----------------------------------------------------------------------------
(* "Invariant: at each step r = a * t (mod p)", "all values stay within    *)
(* [-p, p]", and r is never smaller than the next remainder                *)
(* (mpc_field.c:59-85).                                                    *)
EuclidInvariant ==
  /\ (a * t - r) % P = 0 /\ (a * newt - newr) % P = 0
  /\ {t, newt} \subseteq -P .. P /\ {r, newr} \subseteq 0 .. P
  /\ newr < r

(* The result is the inverse, in the field, and 0 for 0.                   *)
InverseCorrect ==
  inverse # -1 =>
    /\ inverse \in Field
    /\ field_mul(a, inverse) = IF a = 0 THEN 0 ELSE 1

(* The loop ends.                                                          *)
InverseFound == <>(inverse # -1)
=============================================================================
