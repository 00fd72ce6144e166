-------------------------- MODULE TwoMeterOperator --------------------------
(***************************************************************************)
(* The copy of the library in mpc_c_lib_withop, with N = 2 meters.  It is  *)
(* GridOperator but for three things: meter 0 sends its share first and    *)
(* meter 1 receives first; each meter reports on a port of its own; and    *)
(* the operator opens these ports one after the other, for one connection  *)
(* each, so that a report carries no id.                                   *)
(***************************************************************************)
EXTENDS GridOperator

(* The port of meter p is open until its connection is accepted.           *)
PortOpen(p) == operator = "accept" /\ i = p

(* accept and close(lfd): whatever else is queued is reset.                *)
AcceptPartial ==
  /\ operator = "accept" /\ i < N /\ queue # <<>>
  /\ cfd' = Head(queue) /\ queue' = <<>>
  /\ operator' = "recv"
  /\ UNCHANGED <<fault, meters, i, partials, ignored>>

PartialReceived ==
  /\ operator = "recv" /\ Whole(cfd) /\ Take(i, cfd.sum)
  /\ UNCHANGED ignored

PartialCutOff ==
  /\ operator = "recv" /\ CutOff(cfd) /\ Take(i, Garbage)
  /\ ignored' = TRUE

AfterSend(p) == IF p = 0 THEN "recv" ELSE "connect"
AfterRecv(p) == IF p = 0 THEN "connect" ELSE "send"

TwoMeterStep(p) ==
  \/ Start(p) \/ InitReturns(p, IF p = 0 THEN "send" ELSE "recv")
  \/ SendShare(p, AfterSend(p)) \/ RecvShare(p, AfterRecv(p))
  \/ Connect(p, PortOpen(p)) \/ Report(p)

TwoOperatorStep == Listen \/ AcceptPartial \/ PartialReceived \/ Finish
TwoFailure ==
  \/ \E p \in Meter : RecvFails(p, AfterRecv(p)) \/ Crash(p)
  \/ PartialCutOff \/ Restart
TwoNext == (\E p \in Meter : TwoMeterStep(p)) \/ TwoOperatorStep \/ TwoFailure
=============================================================================
