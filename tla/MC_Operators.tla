---------------------------- MODULE MC_Operators ----------------------------
(***************************************************************************)
(* The two programs with an operator, GridOperator with N meters and       *)
(* TwoMeterOperator with two: a behaviour is one of one of them.           *)
(***************************************************************************)
EXTENDS Integers

CONSTANTS N, MaxRuns, MaxFails

ASSUME OperatorAssumption ==
  N \in Nat \ {0, 1} /\ MaxRuns \in Nat \ {0} /\ MaxFails \in Nat

VARIABLES program, faulty, fails, run, at, peer, sent, received, queue,
          operator, i, cfd, partials, ignored
vars == <<program, faulty, fails, run, at, peer, sent, received, queue,
          operator, i, cfd, partials, ignored>>

Grid == INSTANCE GridOperator
Two == INSTANCE TwoMeterOperator WITH N <- 2

Init == \/ program = "grid" /\ Grid!Init
        \/ program = "two" /\ Two!Init
GridRuns(A) == program = "grid" /\ A /\ UNCHANGED program
TwoRuns(A) == program = "two" /\ A /\ UNCHANGED program
Next == GridRuns(Grid!Next) \/ TwoRuns(Two!TwoNext)

(* The scheduler runs every process, and a connect is retried for ever.    *)
Spec ==
  /\ Init /\ [][Next]_vars
  /\ WF_vars(GridRuns(Grid!OperatorStep))
  /\ \A p \in 0 .. (N - 1) : WF_vars(GridRuns(Grid!MeterStep(p)))
  /\ WF_vars(TwoRuns(Two!TwoOperatorStep))
  /\ \A p \in {0, 1} : WF_vars(TwoRuns(Two!TwoMeterStep(p)))

(* The types of the program that runs.                                     *)
TypeOK == IF program = "grid" THEN Grid!TypeOK ELSE Two!TypeOK

(* WrongOnlyIfIgnored of the program that runs.                            *)
WrongOnlyIfIgnored ==
  IF program = "grid" THEN Grid!WrongOnlyIfIgnored ELSE Two!WrongOnlyIfIgnored

Printed == IF program = "grid" THEN Grid!Printed ELSE Two!Printed

(* Without faults the operator prints the aggregate.  For N meters: "no    *)
(* deadlock", and "meters may arrive in any order" (test_uc1.c:90-91,      *)
(* test_operator.c:81).  For two, although a port is opened only when the  *)
(* one before it is done: "the meters retry until the operator is          *)
(* listening so order doesn't matter" (withop test_operator.c:90-91).      *)
AggregatePrinted == ~faulty => <>Printed
=============================================================================
