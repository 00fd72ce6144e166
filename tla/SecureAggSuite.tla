--------------------------- MODULE SecureAggSuite ---------------------------
(***************************************************************************)
(* run_secure_agg_suite_pc5.sh: the script that runs trials of the central *)
(* aggregation on two hosts.  Each trial starts a server, launches every   *)
(* meter on one of the hosts (secure_agg_launch_range.sh), waits for the   *)
(* launchers and the server, and appends a row to the result matrix.       *)
(*                                                                         *)
(* The server is taken here for what SecureAgg shows of it: it counts each *)
(* id once, from packets with its own test id, and its verdict is PASS if  *)
(* and only if it has counted all of them.                                 *)
(***************************************************************************)
EXTENDS Integers, Sequences, FiniteSets

CONSTANTS
  N, TRIALS, STOP_ON_FAIL,      \* --n, --trials, --stop-on-fail
  PI2_MIN, PI2_MAX,             \* --pi2-min, --pi2-max
  PI2_FIXED                     \* the values tried for --pi2-meters

ASSUME SuiteAssumption ==
  /\ N \in Nat \ {0} /\ TRIALS \in Nat \ {0} /\ STOP_ON_FAIL \in BOOLEAN
  /\ PI2_MIN \in Nat /\ PI2_MAX \in Nat /\ PI2_FIXED \subseteq Nat

Meter == 0 .. (N - 1)
Host == {"pi5", "pi2"}

VARIABLES
  placement,  \* PI5_METERS and PI2_METERS
  trial, step,    \* the main loop's t, and where run_trial is
  server,     \* the server process: "none", "starting" or "listening"
  counted,    \* the submissions it has counted
  meters,     \* the meter processes that run, of this trial or an earlier one
  waiting,    \* the hosts whose launcher run_trial waits for
  exits,      \* those whose launcher returned an error: exit5, exit2
  output,     \* what aggregator.out says: nothing yet, or the verdict
  exited,     \* whether server.exit has been written
  rows        \* the matrix

processes == <<server, counted, meters>>
files == <<output, exited>>
script == <<placement, trial, step, waiting, exits, rows>>
vars == <<placement, trial, step, server, counted, meters, waiting, exits,
          output, exited, rows>>

-----------------------------------------------------------------------------
(* compute_placement, for the share of the second host that is proportional*)
(* to its memory and cores.                                                *)
compute_placement(pi2) ==
  LET low == IF pi2 < PI2_MIN THEN PI2_MIN ELSE pi2
      k == IF low > PI2_MAX THEN PI2_MAX ELSE low
  IN  [pi5 |-> N - k, pi2 |-> k]

fixed_placement(k) == [pi5 |-> N - k, pi2 |-> k]

(* The ids of a launcher, START_ID .. END_ID.  They can be negative when   *)
(* more meters are placed on the second host than there are.               *)
IdRange(h) ==
  IF h = "pi5" THEN 0 .. (placement.pi5 - 1) ELSE placement.pi5 .. (N - 1)

Nothing == [received |-> -1, pass |-> FALSE]

(* What the copy of an aggregator.out may say that an earlier run with the *)
(* same --out has left there: its trial passed, or it did not.             *)
EarlierReports == {[received |-> N, pass |-> TRUE], [received |-> 0, pass |-> FALSE]}

InitAt(there) ==
  /\ placement \in {compute_placement(k) : k \in 0 .. N} \cup
                   {fixed_placement(k) : k \in PI2_FIXED}
  /\ trial = 1 /\ step = there
  /\ server = "none" /\ counted = {} /\ meters = {}
  /\ waiting = {} /\ exits = {}
  /\ output = Nothing /\ exited = FALSE
  /\ rows = <<>>
Init == InitAt("cleanup")

-----------------------------------------------------------------------------
(* run_trial, in its order.                                                *)
Goto(s) == step' = s /\ UNCHANGED <<placement, trial, rows>>

(* The server of an earlier trial is killed by its port.  Meters may       *)
(* survive: pkill -x compares at most 15 characters of a process's name.   *)
Cleanup ==
  /\ step = "cleanup"
  /\ server' = "none"
  /\ meters' \in SUBSET meters
  /\ Goto("start")
  /\ UNCHANGED <<counted, waiting, exits, files>>

StartServer ==
  /\ step = "start"
  /\ server' = "starting" /\ counted' = {}
  /\ output' = Nothing /\ exited' = FALSE
  /\ Goto("ready")
  /\ UNCHANGED <<meters, waiting, exits>>

(* An ssh command of these two steps fails, which ends the script.         *)
SshFails ==
  /\ step \in {"cleanup", "start"}
  /\ Goto("aborted")
  /\ UNCHANGED <<processes, waiting, exits, files>>

(* wait_server_ready found the port open, or gave up after 150 attempts:   *)
(* the script goes on in both cases.                                       *)
ServerReady ==
  /\ step = "ready"
  /\ Goto("launch")
  /\ UNCHANGED <<processes, waiting, exits, files>>

LaunchMeters ==
  /\ step = "launch"
  /\ meters' = meters \cup
       UNION {[run : {trial}, host : {h}, id : IdRange(h)] : h \in Host}
  /\ waiting' = Host /\ exits' = {}
  /\ Goto("wait")
  /\ UNCHANGED <<server, counted, files>>

LaunchersDone ==
  /\ step = "wait" /\ waiting = {}
  /\ Goto("exit")
  /\ UNCHANGED <<processes, waiting, exits, files>>

(* server.exit is there, or TIMEOUT_SEC + 60 have passed since: more than  *)
(* the TIMEOUT_SEC + 30 after which `timeout' ends the server.             *)
ServerDone ==
  /\ step = "exit" /\ (exited \/ server = "none")
  /\ Goto("record")
  /\ UNCHANGED <<processes, waiting, exits, files>>

RowStatus(report) ==
  IF report.pass /\ report.received = N THEN "PASS" ELSE "FAIL"

(* The rest of run_trial and of the main loop's iteration.  The report is  *)
(* this trial's own; or, if it is not fetched (an rsync that fails is      *)
(* ignored), an earlier run's that is still in $OUTDIR under its name.     *)
Record ==
  /\ step = "record"
  /\ \E own \in BOOLEAN :
       \E report \in IF own THEN {output} \ {Nothing} ELSE EarlierReports :
         /\ rows' = Append(rows, [trial |-> trial, status |-> RowStatus(report),
                                  own |-> own, of |-> counted, exits |-> exits])
         /\ IF trial = TRIALS \/ (STOP_ON_FAIL /\ RowStatus(report) = "FAIL")
            THEN step' = "done" /\ trial' = trial
            ELSE step' = "cleanup" /\ trial' = trial + 1
  /\ UNCHANGED <<placement, processes, waiting, exits, files>>

(* A line is not found in aggregator.out, because the server did not get   *)
(* to its report, or because the file could not be fetched and no earlier  *)
(* run has left one: grep fails, with pipefail so does the assignment, and *)
(* set -e ends the script.                                                 *)
ExtractFails ==
  /\ step = "record"
  /\ Goto("aborted")
  /\ UNCHANGED <<processes, waiting, exits, files>>

-----------------------------------------------------------------------------
(* The processes on the hosts.                                             *)
Listen ==
  /\ server = "starting" /\ server' = "listening"
  /\ UNCHANGED <<counted, meters, files, script>>

(* The server has counted all, or its own deadline has passed.             *)
Report ==
  /\ server = "listening" /\ server' = "none"
  /\ output' = [received |-> Cardinality(counted),
                pass |-> {m.id : m \in counted} = Meter]
  /\ exited' = TRUE
  /\ UNCHANGED <<counted, meters, script>>

(* It cannot bind its port, or it hangs and `timeout' kills it; or its     *)
(* tmux session is lost, and server.exit is not written either.            *)
ServerFails ==
  /\ server # "none" /\ server' = "none"
  /\ exited' \in BOOLEAN
  /\ UNCHANGED <<counted, meters, output, script>>

(* Mutants: the server does not compare test ids; the meter does not check *)
(* its own id, nor the server the packet's.                                *)
SubmitAnyRun(m) ==
  /\ server = "listening" /\ m.id \in Meter
  /\ meters' = meters \ {m}
  /\ counted' = IF m.id \notin {c.id : c \in counted}
                THEN counted \cup {m} ELSE counted
  /\ UNCHANGED <<server, files, script>>

SubmitAnyId(m) ==
  /\ server = "listening"
  /\ meters' = meters \ {m}
  /\ counted' = IF m.run = trial /\ m.id \notin {c.id : c \in counted}
                THEN counted \cup {m} ELSE counted
  /\ UNCHANGED <<server, files, script>>

Submit(m) ==
  /\ server = "listening" /\ m.id \in Meter
  /\ meters' = meters \ {m}
  /\ counted' = IF m.run = trial /\ m.id \notin {c.id : c \in counted}
                THEN counted \cup {m} ELSE counted
  /\ UNCHANGED <<server, files, script>>

(* Mutant: a meter tries to connect for ever.                              *)
MeterWaits(m) == FALSE

(* A meter refuses its arguments, gives up connecting, is killed by one of *)
(* its limits or by `timeout'.                                             *)
MeterFails(m) ==
  /\ meters' = meters \ {m}
  /\ UNCHANGED <<server, counted, files, script>>

(* Mutant: the launcher does not wait for the meters it has started.       *)
LauncherReturnsEarly(h) ==
  /\ h \in waiting
  /\ waiting' = waiting \ {h}
  /\ UNCHANGED <<processes, files, placement, trial, step, exits, rows>>

LauncherReturns(h) ==
  /\ h \in waiting
  /\ \A m \in meters : m.run = trial => m.host # h
  /\ waiting' = waiting \ {h}
  /\ UNCHANGED <<processes, files, placement, trial, step, exits, rows>>

(* ssh or systemd-run returns an error while meters go on.                 *)
LauncherFails(h) ==
  /\ h \in waiting
  /\ waiting' = waiting \ {h} /\ exits' = exits \cup {h}
  /\ UNCHANGED <<processes, files, placement, trial, step, rows>>

-----------------------------------------------------------------------------
Script ==
  \/ Cleanup \/ StartServer \/ ServerReady \/ LaunchMeters \/ LaunchersDone
  \/ ServerDone \/ Record
  \/ \E h \in Host : LauncherReturns(h)
Server == Listen \/ Report
MeterEnds == \E m \in meters : Submit(m) \/ MeterFails(m)
Fault == SshFails \/ ExtractFails \/ ServerFails \/ \E h \in Host : LauncherFails(h)

Next == Script \/ Server \/ MeterEnds \/ Fault
Spec == Init /\ [][Next]_vars

(* The script and the processes run; every meter ends, at the latest by    *)
(* `timeout 300s', and so does the server by its own `timeout'.            *)
SuiteFairness ==
  /\ WF_vars(Script \/ ExtractFails)
  /\ WF_vars(Server \/ ServerFails)
  /\ WF_vars(MeterEnds)
FairSpec == Spec /\ SuiteFairness

-----------------------------------------------------------------------------
Submission == [run : 1 .. TRIALS, host : Host, id : Meter]

TypeOK ==
  /\ placement.pi5 \in Int /\ placement.pi2 \in Nat
  /\ trial \in 1 .. TRIALS
  /\ step \in {"cleanup", "start", "ready", "launch", "wait", "exit", "record",
               "done", "aborted"}
  /\ server \in {"none", "starting", "listening"}
  /\ counted \subseteq Submission
  /\ \A m \in meters : m.run \in 1 .. trial /\ m.host \in Host /\ m.id \in Int
  /\ waiting \subseteq Host /\ exits \subseteq Host
  /\ output.received \in -1 .. N /\ output.pass \in BOOLEAN
  /\ exited \in BOOLEAN
  /\ Len(rows) <= TRIALS

(* A row says PASS only if every meter submitted in that very trial, also  *)
(* when meters of earlier trials, which mask with the same key and report  *)
(* the same values, still run (lines 142-238, test_id in line 145).  The   *)
(* exception is the one the script leaves open: with --out naming the      *)
(* directory of an earlier run and the rsync of line 206 failing, the row  *)
(* is of that run's report.                                                *)
PassRowComplete ==
  \A k \in DOMAIN rows :
    rows[k].status = "PASS" /\ rows[k].own =>
      /\ {m.id : m \in rows[k].of} = Meter
      /\ \A m \in rows[k].of : m.run = rows[k].trial

(* A meter that outlives its trial is one whose launcher failed, and the   *)
(* row of its trial says so (lines 192-194, 231-232;                       *)
(* secure_agg_launch_range.sh:79).                                         *)
LeftoversExplained ==
  \A m \in meters :
    IF m.run \in DOMAIN rows THEN m.host \in rows[m.run].exits
    ELSE step \in {"exit", "record"} => m.host \in exits

(* The script ends, whatever processes fail or hang: each of its waits has *)
(* a bound (lines 133, 192-201).                                           *)
SuiteEnds == <>(step \in {"done", "aborted"})

(* "captured exit codes, and per-run failure reasons" (lines 7-9): a trial *)
(* whose launchers and server have ended leaves a row, PASS or FAIL.       *)
RowPerTrial ==
  [][(step = "record" /\ step' # step) => Len(rows') = Len(rows) + 1]_vars
=============================================================================
