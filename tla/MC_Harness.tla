----------------------------- MODULE MC_Harness -----------------------------
(***************************************************************************)
(* The scripts that run trials: SecureAggSuite of the central aggregation, *)
(* CaseHarness of the all-party protocol.  A behaviour is one of one of    *)
(* them, and the other script is done before it starts.                    *)
(***************************************************************************)
EXTENDS SecureAggSuite, CaseHarness

HarnessInit == \/ Init /\ CaseInitAt("done")
               \/ InitAt("done") /\ CaseInit
HarnessNext == \/ Next /\ UNCHANGED caseVars
               \/ CaseNext /\ UNCHANGED vars
HarnessSpec == HarnessInit /\ [][HarnessNext]_<<vars, caseVars>> /\ SuiteFairness
=============================================================================
