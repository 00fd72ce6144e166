-------------------------- MODULE Operators_proofs --------------------------
(***************************************************************************)
(* What is proved in GridOperator_proofs for any number of meters, for the *)
(* two programs of MC_Operators: the one with N meters and the one with    *)
(* two.                                                                    *)
(***************************************************************************)
EXTENDS MC_Operators, TLAPS

GridP == INSTANCE GridOperator_proofs
TwoP == INSTANCE GridOperator_proofs WITH N <- 2

-----------------------------------------------------------------------------
(* The modules are instantiated here a second time, with the proofs.       *)

LEMMA Bounds == GridP!BoundsOK /\ TwoP!BoundsOK
BY OperatorAssumption DEF GridP!BoundsOK, TwoP!BoundsOK

LEMMA SameGrid == Grid!Init = GridP!Init /\ Grid!Next = GridP!Next
<1>1. Grid!Init = GridP!Init
  BY DEF Grid!Meter, GridP!Meter, Grid!Garbage, GridP!Garbage, Grid!None,
       GridP!None, Grid!Init, GridP!Init
<1>2. Grid!Next = GridP!Next
  BY DEF Grid!Meter, GridP!Meter, Grid!Run, GridP!Run, Grid!Garbage,
       GridP!Garbage, Grid!None, GridP!None, Grid!fault, GridP!fault,
       Grid!meters, GridP!meters, Grid!operators, GridP!operators, Grid!Init,
       GridP!Init, Grid!FirstPeer, GridP!FirstPeer, Grid!NextPeer,
       GridP!NextPeer, Grid!Goto, GridP!Goto, Grid!Advance, GridP!Advance,
       Grid!Start, GridP!Start, Grid!InitReturns, GridP!InitReturns,
       Grid!SendShare, GridP!SendShare, Grid!RecvShare, GridP!RecvShare,
       Grid!Fails, GridP!Fails, Grid!RecvFails, GridP!RecvFails, Grid!Connect,
       GridP!Connect, Grid!Mine, GridP!Mine, Grid!Deliver, GridP!Deliver,
       Grid!Report, GridP!Report, Grid!Crash, GridP!Crash, Grid!Restart,
       GridP!Restart, Grid!Listening, GridP!Listening, Grid!Listen,
       GridP!Listen, Grid!Accept, GridP!Accept, Grid!Open, GridP!Open,
       Grid!Whole, GridP!Whole, Grid!CutOff, GridP!CutOff, Grid!Take,
       GridP!Take, Grid!TakeReport, GridP!TakeReport, Grid!TakeGarbage,
       GridP!TakeGarbage, Grid!Finish, GridP!Finish, Grid!MeterStep,
       GridP!MeterStep, Grid!OperatorStep, GridP!OperatorStep, Grid!Failure,
       GridP!Failure, Grid!Next, GridP!Next
<1>3. QED
  BY <1>1, <1>2

LEMMA SameTwo == Two!Init = TwoP!Init /\ Two!TwoNext = TwoP!TwoNext
<1>1. Two!Init = TwoP!Init
  BY DEF Two!Meter, TwoP!Meter, Two!Garbage, TwoP!Garbage, Two!None, TwoP!None,
       Two!Init, TwoP!Init
<1>2. Two!TwoNext = TwoP!TwoNext
  BY DEF Two!Meter, TwoP!Meter, Two!Run, TwoP!Run, Two!Garbage, TwoP!Garbage,
       Two!None, TwoP!None, Two!fault, TwoP!fault, Two!meters, TwoP!meters,
       Two!operators, TwoP!operators, Two!FirstPeer, TwoP!FirstPeer,
       Two!NextPeer, TwoP!NextPeer, Two!Goto, TwoP!Goto, Two!Advance,
       TwoP!Advance, Two!Start, TwoP!Start, Two!InitReturns, TwoP!InitReturns,
       Two!SendShare, TwoP!SendShare, Two!RecvShare, TwoP!RecvShare, Two!Fails,
       TwoP!Fails, Two!RecvFails, TwoP!RecvFails, Two!Connect, TwoP!Connect,
       Two!Mine, TwoP!Mine, Two!Deliver, TwoP!Deliver, Two!Report, TwoP!Report,
       Two!Crash, TwoP!Crash, Two!Restart, TwoP!Restart, Two!Listen,
       TwoP!Listen, Two!Open, TwoP!Open, Two!Whole, TwoP!Whole, Two!CutOff,
       TwoP!CutOff, Two!Take, TwoP!Take, Two!Finish, TwoP!Finish, Two!PortOpen,
       TwoP!PortOpen, Two!AcceptPartial, TwoP!AcceptPartial,
       Two!PartialReceived, TwoP!PartialReceived, Two!PartialCutOff,
       TwoP!PartialCutOff, Two!AfterSend, TwoP!AfterSend, Two!AfterRecv,
       TwoP!AfterRecv, Two!TwoMeterStep, TwoP!TwoMeterStep,
       Two!TwoOperatorStep, TwoP!TwoOperatorStep, Two!TwoFailure,
       TwoP!TwoFailure, Two!TwoNext, TwoP!TwoNext
<1>3. QED
  BY <1>1, <1>2

LEMMA SameProperties ==
  /\ Grid!TypeOK = GridP!TypeOK /\ Grid!WrongOnlyIfIgnored = GridP!WrongOnlyIfIgnored
  /\ Two!TypeOK = TwoP!TypeOK /\ Two!WrongOnlyIfIgnored = TwoP!WrongOnlyIfIgnored
<1>1. Grid!TypeOK = GridP!TypeOK
  BY DEF Grid!Meter, GridP!Meter, Grid!Run, GridP!Run, Grid!Sum, GridP!Sum,
       Grid!Garbage, GridP!Garbage, Grid!None, GridP!None, Grid!TypeOK,
       GridP!TypeOK
<1>2. Grid!WrongOnlyIfIgnored = GridP!WrongOnlyIfIgnored
  BY DEF Grid!Meter, GridP!Meter, Grid!None, GridP!None, Grid!Heard, GridP!Heard,
       Grid!Printed, GridP!Printed, Grid!OfOneRun, GridP!OfOneRun,
       Grid!RightSum, GridP!RightSum, Grid!WrongOnlyIfIgnored,
       GridP!WrongOnlyIfIgnored
<1>3. Two!TypeOK = TwoP!TypeOK
  BY DEF Two!Meter, TwoP!Meter, Two!Run, TwoP!Run, Two!Sum, TwoP!Sum,
       Two!Garbage, TwoP!Garbage, Two!None, TwoP!None, Two!TypeOK, TwoP!TypeOK
<1>4. Two!WrongOnlyIfIgnored = TwoP!WrongOnlyIfIgnored
  BY DEF Two!Meter, TwoP!Meter, Two!None, TwoP!None, Two!Heard, TwoP!Heard,
       Two!Printed, TwoP!Printed, Two!OfOneRun, TwoP!OfOneRun, Two!RightSum,
       TwoP!RightSum, Two!WrongOnlyIfIgnored, TwoP!WrongOnlyIfIgnored
<1>5. QED
  BY <1>1, <1>2, <1>3, <1>4

-----------------------------------------------------------------------------
Inv == \/ program = "grid" /\ GridP!GridInv
       \/ program = "two" /\ TwoP!TwoInv

LEMMA InvInit == Init => Inv
<1>1. GridP!Init => GridP!GridInv
  BY Bounds, GridP!InitInv DEF GridP!GridInv
<1>2. TwoP!Init => TwoP!TwoInv
  BY Bounds, TwoP!InitInv DEF TwoP!TwoInv
<1>3. QED
  BY <1>1, <1>2, SameGrid, SameTwo DEF Init, Inv

LEMMA InvNext == Inv /\ [Next]_vars => Inv'
<1> SUFFICES ASSUME Inv, [Next]_vars PROVE Inv'
  OBVIOUS
<1>1. CASE GridRuns(Grid!Next)
  <2>1. program = "grid" /\ program' = "grid" /\ GridP!Next /\ GridP!GridInv
    BY <1>1, SameGrid DEF GridRuns, Inv
  <2>2. QED
    BY <2>1, Bounds, GridP!GridNextInv DEF Inv
<1>2. CASE TwoRuns(Two!TwoNext)
  <2>1. program = "two" /\ program' = "two" /\ TwoP!TwoNext /\ TwoP!TwoInv
    BY <1>2, SameTwo DEF TwoRuns, Inv
  <2>2. QED
    BY <2>1, Bounds, TwoP!TwoNextInv DEF Inv
<1>3. CASE UNCHANGED vars
  <2>1. program' = program /\ UNCHANGED GridP!vars /\ UNCHANGED TwoP!vars
    BY <1>3 DEF vars, GridP!vars, TwoP!vars
  <2>2. QED
    BY <2>1, Bounds, GridP!GridNextInv, TwoP!TwoNextInv DEF Inv
<1>4. QED
  BY <1>1, <1>2, <1>3 DEF Next

LEMMA InvCorrect == Spec => []Inv
BY InvInit, InvNext, PTL DEF Spec

(* The values of the variables of both programs: the loop indices stay     *)
(* within the ids, and what is reported and printed are sums of shares.    *)
THEOREM OperatorTypeCorrect == Spec => []TypeOK
<1>1. Inv => TypeOK
  BY Bounds, GridP!GridConsequences, TwoP!TwoConsequences, SameProperties
     DEF Inv, TypeOK
<1>2. QED
  BY <1>1, InvCorrect, PTL

(* The operator prints a wrong aggregate, or reports a meter missing, only *)
(* if a receive whose result nobody looks at failed, or the meters were    *)
(* started again under it (test_operator.c:87-88, test_uc1.c:99), for any  *)
(* number of meters and faults.                                            *)
THEOREM OperatorCorrect == Spec => []WrongOnlyIfIgnored
<1>1. Inv => WrongOnlyIfIgnored
  BY Bounds, GridP!GridConsequences, TwoP!TwoConsequences, SameProperties
     DEF Inv, WrongOnlyIfIgnored
<1>2. QED
  BY <1>1, InvCorrect, PTL
=============================================================================
