------------------------------ MODULE SecureSum -----------------------------
(***************************************************************************)
(* What the all-party protocol promises, without shares, messages or       *)
(* connections: each party joins with its input, contributes once all have *)
(* joined, and may deliver the sum of all inputs once all have             *)
(* contributed.  A party may abort at any time before it delivers; what it *)
(* joined with or contributed stays in the sum.                            *)
(***************************************************************************)
EXTENDS MpcField

CONSTANT N      \* the number of parties

Party == 0 .. (N - 1)

VARIABLES
  input,      \* the private input of each party
  stage,      \* 0: outside, 1: joined, 2: contributed
  outcome,    \* "none", "ok" or "failed"
  output      \* what a party delivered, 0 before it does

vars == <<input, stage, outcome, output>>

Total == FieldFold(0, input, N)

Init ==
  /\ input \in [Party -> Field]
  /\ stage = [p \in Party |-> 0]
  /\ outcome = [p \in Party |-> "none"]
  /\ output = [p \in Party |-> 0]

Join(p) ==
  /\ outcome[p] = "none" /\ stage[p] = 0
  /\ stage' = [stage EXCEPT ![p] = 1]
  /\ UNCHANGED <<input, outcome, output>>

Contribute(p) ==
  /\ outcome[p] = "none" /\ stage[p] = 1
  /\ \A q \in Party : stage[q] >= 1
  /\ stage' = [stage EXCEPT ![p] = 2]
  /\ UNCHANGED <<input, outcome, output>>

Deliver(p) ==
  /\ outcome[p] = "none"
  /\ \A q \in Party : stage[q] = 2
  /\ outcome' = [outcome EXCEPT ![p] = "ok"]
  /\ output' = [output EXCEPT ![p] = Total]
  /\ UNCHANGED <<input, stage>>

Abort(p) ==
  /\ outcome[p] = "none"
  /\ outcome' = [outcome EXCEPT ![p] = "failed"]
  /\ UNCHANGED <<input, stage, output>>

Next == \E p \in Party : Join(p) \/ Contribute(p) \/ Deliver(p) \/ Abort(p)

Spec == Init /\ [][Next]_vars
=============================================================================
