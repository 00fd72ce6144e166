----------------------------- MODULE CaseHarness -----------------------------
(***************************************************************************)
(* run_scale_suite_pc5.sh and run_extreme_scale_pc5.sh: the scripts that   *)
(* run cases of the all-party protocol on two hosts.  A case launches its  *)
(* nodes in tmux sessions, waits until the sessions are gone, fetches the  *)
(* logs and takes the verdict from them.  Logs are never removed: a case   *)
(* of an earlier run of the script has left its own under the same names   *)
(* on the hosts and, if --out names the directory of that run again, its   *)
(* copies of them there.                                                   *)
(*                                                                         *)
(* A node is taken here for what MeterRun and MpcRunner show of it: when   *)
(* it prints an aggregate it is the right one, and all nodes of its case   *)
(* have been started.                                                      *)
(***************************************************************************)
EXTENDS Integers, Sequences

CONSTANTS
  Nodes,      \* N of every case
  Cases       \* the trials of all N, one after the other

ASSUME CaseAssumption == Nodes \in Nat \ {0} /\ Cases \in Nat \ {0}

Node == 0 .. (Nodes - 1)
split == (Nodes + 1) \div 2
HostOf(i) == IF i < split THEN "pi5" ELSE "pi2"
Hosts == {"pi5", "pi2"}

VARIABLES
  at,         \* where run_case is
  case,       \* the case it runs
  launched,   \* its loop's i
  sessions,   \* the tmux sessions: of which case and node, and whether the
              \* shell in it has opened the log
  begun,      \* the nodes that have been running since the case began: its
              \* own, and those of an earlier case that it has not got rid of
  before,     \* whether an earlier run of the script has left its logs
  logs,       \* the logs of the case on the hosts
  fetched,    \* the copies that analyze_case reads
  stale,      \* <<c, i>>: the copy of node i's log in case c was of an earlier
              \* run of the script
  matrix,     \* the rows
  printed     \* <<c, i>>: node i has printed an aggregate in case c

hosts == <<sessions, begun, logs, printed>>
caseVars == <<at, case, launched, hosts, before, fetched, stale, matrix>>

(* What a log holds: the aggregate expected, of this run or an earlier one,*)
(* or nothing of the kind; or there is no file.                            *)
Logs(content) == [i \in Node |-> content]
Old == IF before THEN "aggregate" ELSE "none"

CaseInitAt(there) ==
  /\ at = there /\ case = 1 /\ launched = 0
  /\ sessions = {} /\ begun = {}
  /\ before \in BOOLEAN /\ logs = Logs(Old)
  /\ fetched = Logs("none") /\ stale = {}
  /\ matrix = <<>> /\ printed = {}
CaseInit == CaseInitAt("cleanup")

-----------------------------------------------------------------------------
(* run_case, in its order.                                                 *)

(* remote_cleanup on both hosts; an ssh that fails is ignored.             *)
remote_cleanup ==
  \E missed \in SUBSET Hosts :
    sessions' = {s \in sessions : HostOf(s.id) \in missed}

CleanupBefore ==
  /\ at = "cleanup" /\ at' = "launch"
  /\ remote_cleanup /\ begun' = {s.id : s \in sessions'}
  /\ UNCHANGED <<case, launched, before, logs, fetched, stale, matrix, printed>>

(* Once tmux has the session the script goes on; the shell in it opens the *)
(* log when it runs.                                                       *)
launch_node ==
  /\ at = "launch" /\ launched < Nodes
  /\ launched' = launched + 1
  /\ sessions' = sessions \cup {[case |-> case, id |-> launched, open |-> FALSE]}
  /\ UNCHANGED <<at, case, begun, before, logs, fetched, stale, matrix, printed>>

AllLaunched ==
  /\ at = "launch" /\ launched = Nodes /\ at' = "wait"
  /\ UNCHANGED <<case, launched, hosts, before, fetched, stale, matrix>>

OfCase == {s \in sessions : s.case = case}

(* Mutant: the pattern given to grep matches no session.                   *)
SessionsUnseen ==
  /\ at = "wait" /\ at' = "collect"
  /\ UNCHANGED <<case, launched, hosts, before, fetched, stale, matrix>>

SessionsGone ==
  /\ at = "wait" /\ OfCase = {} /\ at' = "collect"
  /\ UNCHANGED <<case, launched, hosts, before, fetched, stale, matrix>>

(* TIMEOUT_SEC + 15 have passed, which is enough for a shell to open its   *)
(* log if not for the node to end.                                         *)
DeadlinePasses ==
  /\ at = "wait" /\ at' = "collect"
  /\ \A s \in OfCase : s.open
  /\ remote_cleanup
  /\ UNCHANGED <<case, launched, begun, before, logs, fetched, stale, matrix, printed>>

(* An ssh that makes the directories or launches fails: set -e ends the    *)
(* script.  In wait_for_case it does not, which is called in a condition.  *)
SshAborts ==
  /\ at = "launch" /\ at' = "aborted"
  /\ UNCHANGED <<case, launched, hosts, before, fetched, stale, matrix>>

(* An rsync that fails, at once or after some of the files, is ignored: the*)
(* copies that an earlier run has left in $OUTDIR, if it has, stay there   *)
(* and are read as this case's logs.                                       *)
collect_logs ==
  /\ at = "collect" /\ at' = "analyze"
  /\ \E came \in SUBSET {i \in Node : logs[i] # "none"} :
       \E left \in SUBSET (Node \ came) :
         /\ fetched' = [i \in Node |-> IF i \in came THEN logs[i]
                                      ELSE IF i \in left THEN "aggregate"
                                      ELSE "none"]
         /\ stale' = stale \cup ({case} \X left)
  /\ UNCHANGED <<case, launched, hosts, before, matrix>>

CaseStatus ==
  IF \A i \in Node : fetched[i] = "aggregate" THEN "PASS" ELSE "FAIL"

(* Mutant: main goes on after a FAIL.                                      *)
analyze_case_goes_on ==
  /\ at = "analyze"
  /\ matrix' = Append(matrix, CaseStatus)
  /\ IF case = Cases
     THEN at' = "done" /\ UNCHANGED <<case, launched, begun, logs>>
     ELSE /\ at' = "cleanup" /\ case' = case + 1 /\ launched' = 0
          /\ begun' = {} /\ logs' = Logs(Old)
  /\ UNCHANGED <<sessions, before, fetched, stale, printed>>

(* The row, and main's loop: it stops after a FAIL.                        *)
analyze_case ==
  /\ at = "analyze"
  /\ matrix' = Append(matrix, CaseStatus)
  /\ IF CaseStatus = "FAIL" \/ case = Cases
     THEN at' = "done" /\ UNCHANGED <<case, launched, begun, logs>>
     ELSE /\ at' = "cleanup" /\ case' = case + 1 /\ launched' = 0
          /\ begun' = {} /\ logs' = Logs(Old)
  /\ UNCHANGED <<sessions, before, fetched, stale, printed>>

-----------------------------------------------------------------------------
(* The sessions.                                                           *)
NodeStarts(s) ==
  /\ ~s.open
  /\ sessions' = (sessions \ {s}) \cup {[s EXCEPT !.open = TRUE]}
  /\ IF s.case = case
     THEN begun' = begun \cup {s.id} /\ logs' = [logs EXCEPT ![s.id] = "begun"]
     ELSE UNCHANGED <<begun, logs>>
  /\ UNCHANGED <<at, case, launched, before, fetched, stale, matrix, printed>>

(* The output reaches the log as the process ends.                         *)
NodePrints(s) ==
  /\ s.open /\ s.case = case /\ begun = Node
  /\ sessions' = sessions \ {s}
  /\ logs' = [logs EXCEPT ![s.id] = "aggregate"]
  /\ printed' = printed \cup {<<case, s.id>>}
  /\ UNCHANGED <<at, case, launched, begun, before, fetched, stale, matrix>>

(* The node fails, or `timeout' kills it.                                  *)
NodeEnds(s) ==
  /\ s.open
  /\ sessions' = sessions \ {s}
  /\ UNCHANGED <<at, case, launched, begun, before, logs, fetched, stale, matrix, printed>>

-----------------------------------------------------------------------------
run_case ==
  \/ CleanupBefore \/ launch_node \/ AllLaunched \/ SessionsGone
  \/ DeadlinePasses \/ SshAborts \/ collect_logs \/ analyze_case
CaseNext ==
  \/ run_case
  \/ \E s \in sessions : NodeStarts(s) \/ NodePrints(s) \/ NodeEnds(s)

-----------------------------------------------------------------------------
(* A row says PASS only if every node has printed the aggregate in that    *)
(* very case: neither the logs of an earlier run that are still on the     *)
(* hosts nor those of half a case are taken for its result.  The exception *)
(* is the one the script leaves open: the log of the node was not fetched, *)
(* and $OUTDIR had an earlier run's copy                                   *)
(* (run_scale_suite_pc5.sh:23-32, 138-167, 189-219).                       *)
PassRowOfCase ==
  \A c \in DOMAIN matrix :
    matrix[c] = "PASS" => {c} \X Node \subseteq printed \cup stale

(* Nodes of two cases, which use the same ports and ids, never run at the  *)
(* same time, although remote_cleanup may fail unnoticed: a case that has  *)
(* not ended has no PASS, and without one there is no next case; unless an *)
(* earlier run's copy stood in for the log of the node that goes on        *)
(* (run_scale_suite_pc5.sh:105-118, 159-167, 258-259, 297-303).            *)
CasesApart == \A s \in sessions : s.case # case => <<s.case, s.id>> \in stale
=============================================================================
