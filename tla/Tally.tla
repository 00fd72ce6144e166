-------------------------------- MODULE Tally -------------------------------
(***************************************************************************)
(* What the server of the central aggregation promises, whatever reaches   *)
(* it: it counts every member at most once, stops at some time, and then   *)
(* says PASS exactly when it has counted them all.                         *)
(***************************************************************************)
CONSTANT Member

VARIABLES
  counted,    \* the members counted so far
  verdict,    \* "none" while the server runs, then "PASS" or "FAIL"
  late        \* whether it was the deadline that stopped it

Init == counted = {} /\ verdict = "none" /\ late = FALSE

Count(i) ==
  /\ verdict = "none" /\ i \notin counted
  /\ counted' = counted \cup {i}
  /\ UNCHANGED <<verdict, late>>

Complete == verdict = "none" /\ counted = Member /\ verdict' = "PASS"
GiveUp == verdict = "none" /\ counted # Member /\ verdict' = "FAIL"

Next ==
  \/ \E i \in Member : Count(i)
  \/ Complete /\ UNCHANGED <<counted, late>>
  \/ GiveUp /\ late' \in BOOLEAN /\ UNCHANGED counted

Spec == Init /\ [][Next]_<<counted, verdict, late>>
=============================================================================
