--------------------------- MODULE Harness_proofs ---------------------------
(***************************************************************************)
(* The rows of the two harnesses, whatever the number of meters, nodes and *)
(* trials: a PASS is of the trial it is written for.                       *)
(***************************************************************************)
EXTENDS MC_Harness, FiniteSetTheorems, SequenceTheorems, TLAPS

-----------------------------------------------------------------------------
(* The harness of the central aggregation.                                 *)

MeterProcess == [run : 1 .. TRIALS, host : Host, id : Int]
Row == [trial : Int, status : {"PASS", "FAIL"}, own : BOOLEAN,
        of : SUBSET Submission, exits : SUBSET Host]

SuiteTypeInv ==
  /\ placement.pi5 \in Int /\ placement.pi2 \in Nat
  /\ trial \in 1 .. TRIALS
  /\ step \in {"cleanup", "start", "ready", "launch", "wait", "exit", "record",
               "done", "aborted"}
  /\ server \in {"none", "starting", "listening"}
  /\ counted \in SUBSET Submission
  /\ meters \in SUBSET MeterProcess /\ \A m \in meters : m.run <= trial
  /\ waiting \in SUBSET Host /\ exits \in SUBSET Host
  /\ output.received \in -1 .. N /\ output.pass \in BOOLEAN
  /\ exited \in BOOLEAN
  /\ rows \in Seq(Row)

(* The server counts an id once.                                           *)
CountedOnce ==
  /\ IsFiniteSet(counted)
  /\ \A c, d \in counted : c.id = d.id => c = d

(* What is in aggregator.out is of the server that counted: its report     *)
(* comes last, and it is gone before the row is written and the next trial *)
(* begins.                                                                 *)
ReportInv ==
  /\ server # "none" => output = Nothing /\ ~exited
  /\ output.pass => {m.id : m \in counted} = Meter
  /\ step \in {"cleanup", "start", "record", "done"} => server = "none"
  /\ step \in {"ready", "launch", "wait", "exit", "record"} =>
       \A m \in counted : m.run = trial

(* One row for each trial that is over; a row is of the report of its own  *)
(* trial, or of one that an earlier run has left.                          *)
RowInv ==
  /\ Len(rows) \in {trial - 1, trial}
  /\ step # "done" => Len(rows) = trial - 1
  /\ \A k \in 1 .. Len(rows) : rows[k].status = "PASS" /\ rows[k].own =>
       /\ {m.id : m \in rows[k].of} = Meter
       /\ \A m \in rows[k].of : m.run = rows[k].trial

(* Where the meters are that still run.                                    *)
MeterInv ==
  \A m \in meters :
    /\ m.run <= Len(rows) => m.host \in rows[m.run].exits
    /\ step \in {"cleanup", "start", "ready", "launch", "done"} =>
         m.run <= Len(rows)
    /\ m.run > Len(rows) =>
         /\ step = "wait" => m.host \in waiting \cup exits
         /\ step \in {"exit", "record"} => m.host \in exits

SuiteInv == SuiteTypeInv /\ CountedOnce /\ ReportInv /\ RowInv /\ MeterInv

-----------------------------------------------------------------------------
(* The harness of the all-party protocol.                                  *)

CaseTypeInv ==
  /\ at \in {"cleanup", "launch", "wait", "collect", "analyze", "done",
             "aborted"}
  /\ case \in Nat /\ launched \in 0 .. Nodes
  /\ sessions \in SUBSET [case : Nat, id : Node, open : BOOLEAN]
  /\ begun \in SUBSET Node
  /\ logs \in [Node -> {"none", "begun", "aggregate"}]
  /\ fetched \in [Node -> {"none", "begun", "aggregate"}]
  /\ matrix \in Seq({"PASS", "FAIL"})
  /\ printed \in SUBSET (Nat \X Node) /\ stale \in SUBSET (Nat \X Node)

(* There is one session for a case and a node.  Those of this case are of  *)
(* nodes that have been launched and have not printed; those of an earlier *)
(* one are of nodes whose logs were taken from an earlier run.             *)
SessionInv ==
  /\ \A s \in sessions :
       /\ s.case <= case
       /\ s.case = case => s.id < launched /\ <<case, s.id>> \notin printed
       /\ s.case # case => <<s.case, s.id>> \in stale
  /\ \A s, u \in sessions : s.case = u.case /\ s.id = u.id => s = u
  /\ \A e \in printed : e[1] <= case /\ (e[1] = case => e[2] < launched)
  /\ at = "cleanup" => launched = 0

(* A node that has been launched has opened its log, or its session waits  *)
(* for that; what is in an opened log is of this case; and no session waits*)
(* any more when the logs are fetched.                                     *)
LogInv ==
  /\ \A n \in Node : n < launched =>
       \/ logs[n] = "begun" \/ <<case, n>> \in printed
       \/ \E s \in sessions : s.case = case /\ s.id = n /\ ~s.open
  /\ at \in {"wait", "collect"} => launched = Nodes
  /\ at \in {"collect", "analyze"} => \A s \in sessions : s.case = case => s.open
  /\ at = "analyze" =>
       \A n \in Node : fetched[n] = "aggregate" => <<case, n>> \in printed \cup stale

MatrixInv ==
  /\ at \notin {"done", "aborted"} => Len(matrix) = case - 1
  /\ \A c \in 1 .. Len(matrix) :
       matrix[c] = "PASS" => {c} \X Node \subseteq printed \cup stale

CaseInv == CaseTypeInv /\ SessionInv /\ LogInv /\ MatrixInv

-----------------------------------------------------------------------------
(* Each step of the harness of the central aggregation keeps SuiteInv.     *)

LEMMA SuiteInit ==
  ASSUME NEW there \in {"cleanup", "done"}, InitAt(there)
  PROVE  SuiteInv
<1>1. /\ trial = 1 /\ step = there /\ server = "none" /\ counted = {}
      /\ meters = {} /\ waiting = {} /\ exits = {} /\ output = Nothing
      /\ exited = FALSE /\ rows = <<>>
  BY DEF InitAt
<1>2. placement.pi5 \in Int /\ placement.pi2 \in Nat
  <2>1. \A k \in 0 .. N : /\ compute_placement(k).pi5 \in Int
                          /\ compute_placement(k).pi2 \in Nat
    BY SuiteAssumption DEF compute_placement
  <2>2. \A k \in PI2_FIXED : /\ fixed_placement(k).pi5 \in Int
                             /\ fixed_placement(k).pi2 \in Nat
    BY SuiteAssumption DEF fixed_placement
  <2>3. QED
    BY <2>1, <2>2 DEF InitAt
<1>3. SuiteTypeInv
  <2>1. output.received \in -1 .. N /\ output.pass \in BOOLEAN
    BY <1>1, SuiteAssumption DEF Nothing
  <2>2. trial \in 1 .. TRIALS
    BY <1>1, SuiteAssumption
  <2>3. rows \in Seq(Row)
    BY <1>1
  <2>4. counted \in SUBSET Submission /\ meters \in SUBSET MeterProcess
        /\ \A m \in meters : m.run <= trial
    BY <1>1
  <2>5. QED
    BY <1>1, <1>2, <2>1, <2>2, <2>3, <2>4 DEF SuiteTypeInv
<1>4. CountedOnce
  BY <1>1, FS_EmptySet DEF CountedOnce
<1>5. ReportInv
  BY <1>1 DEF ReportInv, Nothing
<1>6. RowInv /\ MeterInv
  BY <1>1 DEF RowInv, MeterInv
<1>7. QED
  BY <1>3, <1>4, <1>5, <1>6 DEF SuiteInv

LEMMA CleanupInv ==
  ASSUME SuiteInv, Cleanup
  PROVE  SuiteInv'
<1>1. /\ step = "cleanup" /\ step' = "start" /\ server' = "none"
      /\ meters' \in SUBSET meters
      /\ UNCHANGED <<placement, trial, rows, counted, waiting, exits, output, exited>>
  BY DEF Cleanup, Goto, processes, files, script
<1>2. SuiteTypeInv'
  BY <1>1 DEF SuiteInv, SuiteTypeInv
<1>3. CountedOnce'
  BY <1>1 DEF SuiteInv, CountedOnce
<1>4. ReportInv'
  BY <1>1 DEF SuiteInv, ReportInv
<1>5. RowInv'
  BY <1>1 DEF SuiteInv, RowInv
<1>6. MeterInv'
  BY <1>1 DEF SuiteInv, MeterInv
<1>7. QED
  BY <1>2, <1>3, <1>4, <1>5, <1>6 DEF SuiteInv

LEMMA StartServerInv ==
  ASSUME SuiteInv, StartServer
  PROVE  SuiteInv'
<1>1. /\ step = "start" /\ step' = "ready"
      /\ server' = "starting" /\ counted' = {} /\ output' = Nothing /\ exited' = FALSE
      /\ UNCHANGED <<placement, trial, rows, meters, waiting, exits>>
  BY DEF StartServer, Goto, processes, files, script
<1>2. SuiteTypeInv'
  <2>1. output'.received \in -1 .. N /\ output'.pass \in BOOLEAN
    BY <1>1, SuiteAssumption DEF Nothing
  <2>2. QED
    BY <1>1, <2>1 DEF SuiteInv, SuiteTypeInv
<1>3. CountedOnce'
  BY <1>1, FS_EmptySet DEF CountedOnce
<1>4. ReportInv'
  BY <1>1 DEF ReportInv, Nothing
<1>5. RowInv'
  BY <1>1 DEF SuiteInv, RowInv
<1>6. MeterInv'
  BY <1>1 DEF SuiteInv, MeterInv
<1>7. QED
  BY <1>2, <1>3, <1>4, <1>5, <1>6 DEF SuiteInv

LEMMA SshFailsInv ==
  ASSUME SuiteInv, SshFails
  PROVE  SuiteInv'
<1>1. /\ step \in {"cleanup", "start"} /\ step' = "aborted"
      /\ UNCHANGED <<placement, trial, rows, server, counted, meters, waiting,
                     exits, output, exited>>
  BY DEF SshFails, Goto, processes, files, script
<1>2. SuiteTypeInv'
  BY <1>1 DEF SuiteInv, SuiteTypeInv
<1>3. CountedOnce'
  BY <1>1 DEF SuiteInv, CountedOnce
<1>4. ReportInv'
  BY <1>1 DEF SuiteInv, ReportInv
<1>5. RowInv'
  BY <1>1 DEF SuiteInv, RowInv
<1>6. MeterInv'
  BY <1>1 DEF SuiteInv, MeterInv
<1>7. QED
  BY <1>2, <1>3, <1>4, <1>5, <1>6 DEF SuiteInv

LEMMA ServerReadyInv ==
  ASSUME SuiteInv, ServerReady
  PROVE  SuiteInv'
<1>1. /\ step = "ready" /\ step' = "launch"
      /\ UNCHANGED <<placement, trial, rows, server, counted, meters, waiting,
                     exits, output, exited>>
  BY DEF ServerReady, Goto, processes, files, script
<1>2. SuiteTypeInv'
  BY <1>1 DEF SuiteInv, SuiteTypeInv
<1>3. CountedOnce'
  BY <1>1 DEF SuiteInv, CountedOnce
<1>4. ReportInv'
  BY <1>1 DEF SuiteInv, ReportInv
<1>5. RowInv'
  BY <1>1 DEF SuiteInv, RowInv
<1>6. MeterInv'
  BY <1>1 DEF SuiteInv, MeterInv
<1>7. QED
  BY <1>2, <1>3, <1>4, <1>5, <1>6 DEF SuiteInv

LEMMA LaunchMetersInv ==
  ASSUME SuiteInv, LaunchMeters
  PROVE  SuiteInv'
<1>0. /\ \A h \in Host : IdRange(h) \in SUBSET Int
      /\ trial \in 1 .. TRIALS
      /\ UNION {[run : {trial}, host : {h}, id : IdRange(h)] : h \in Host}
           \in SUBSET {m \in MeterProcess : m.run = trial}
  <2>1. placement.pi5 \in Int /\ trial \in 1 .. TRIALS /\ N \in Nat
    BY SuiteAssumption DEF SuiteInv, SuiteTypeInv
  <2>2. \A h \in Host : IdRange(h) \in SUBSET Int
    BY <2>1 DEF IdRange
  <2>3. QED
    BY <2>1, <2>2 DEF MeterProcess
<1>1. /\ step = "launch" /\ step' = "wait"
      /\ meters' = meters \cup
            UNION {[run : {trial}, host : {h}, id : IdRange(h)] : h \in Host}
      /\ waiting' = Host /\ exits' = {}
      /\ UNCHANGED <<placement, trial, rows, server, counted, output, exited>>
  BY DEF LaunchMeters, Goto, processes, files, script
<1>2. SuiteTypeInv'
  BY <1>1, <1>0 DEF SuiteInv, SuiteTypeInv
<1>3. CountedOnce'
  BY <1>1 DEF SuiteInv, CountedOnce
<1>4. ReportInv'
  BY <1>1 DEF SuiteInv, ReportInv
<1>5. RowInv'
  BY <1>1 DEF SuiteInv, RowInv
<1>6. MeterInv'
  <2>1. SUFFICES ASSUME NEW m \in meters'
                 PROVE  /\ m.run <= Len(rows) => m.host \in rows[m.run].exits
                        /\ m.run > Len(rows) => m.host \in waiting'
    BY <1>1 DEF MeterInv
  <2>2. Len(rows) = trial - 1 /\ trial \in Nat
    BY <1>1, SuiteAssumption DEF SuiteInv, SuiteTypeInv, RowInv
  <2>3. CASE m \in meters
    BY <1>1, <2>2, <2>3 DEF SuiteInv, SuiteTypeInv, MeterInv, MeterProcess
  <2>4. CASE m \notin meters
    <3>1. m \in MeterProcess /\ m.run = trial
      BY <1>0, <1>1, <2>4
    <3>2. m.host \in Host /\ waiting' = Host
      BY <1>1, <3>1 DEF MeterProcess
    <3>3. QED
      BY <2>2, <3>1, <3>2
  <2>5. QED
    BY <2>3, <2>4
<1>7. QED
  BY <1>2, <1>3, <1>4, <1>5, <1>6 DEF SuiteInv

LEMMA LaunchersDoneInv ==
  ASSUME SuiteInv, LaunchersDone
  PROVE  SuiteInv'
<1>1. /\ step = "wait" /\ waiting = {} /\ step' = "exit"
      /\ UNCHANGED <<placement, trial, rows, server, counted, meters, waiting,
                     exits, output, exited>>
  BY DEF LaunchersDone, Goto, processes, files, script
<1>2. SuiteTypeInv'
  BY <1>1 DEF SuiteInv, SuiteTypeInv
<1>3. CountedOnce'
  BY <1>1 DEF SuiteInv, CountedOnce
<1>4. ReportInv'
  BY <1>1 DEF SuiteInv, ReportInv
<1>5. RowInv'
  BY <1>1 DEF SuiteInv, RowInv
<1>6. MeterInv'
  BY <1>1 DEF SuiteInv, MeterInv
<1>7. QED
  BY <1>2, <1>3, <1>4, <1>5, <1>6 DEF SuiteInv

LEMMA ServerDoneInv ==
  ASSUME SuiteInv, ServerDone
  PROVE  SuiteInv'
<1>1. /\ step = "exit" /\ (exited \/ server = "none") /\ step' = "record"
      /\ UNCHANGED <<placement, trial, rows, server, counted, meters, waiting,
                     exits, output, exited>>
  BY DEF ServerDone, Goto, processes, files, script
<1>2. SuiteTypeInv'
  BY <1>1 DEF SuiteInv, SuiteTypeInv
<1>3. CountedOnce'
  BY <1>1 DEF SuiteInv, CountedOnce
<1>4. ReportInv'
  BY <1>1 DEF SuiteInv, ReportInv
<1>5. RowInv'
  BY <1>1 DEF SuiteInv, RowInv
<1>6. MeterInv'
  BY <1>1 DEF SuiteInv, MeterInv
<1>7. QED
  BY <1>2, <1>3, <1>4, <1>5, <1>6 DEF SuiteInv

LEMMA ExtractFailsInv ==
  ASSUME SuiteInv, ExtractFails
  PROVE  SuiteInv'
<1>1. /\ step = "record" /\ step' = "aborted"
      /\ UNCHANGED <<placement, trial, rows, server, counted, meters, waiting,
                     exits, output, exited>>
  BY DEF ExtractFails, Goto, processes, files, script
<1>2. SuiteTypeInv'
  BY <1>1 DEF SuiteInv, SuiteTypeInv
<1>3. CountedOnce'
  BY <1>1 DEF SuiteInv, CountedOnce
<1>4. ReportInv'
  BY <1>1 DEF SuiteInv, ReportInv
<1>5. RowInv'
  BY <1>1 DEF SuiteInv, RowInv
<1>6. MeterInv'
  BY <1>1 DEF SuiteInv, MeterInv
<1>7. QED
  BY <1>2, <1>3, <1>4, <1>5, <1>6 DEF SuiteInv

LEMMA ListenInv ==
  ASSUME SuiteInv, Listen
  PROVE  SuiteInv'
<1>1. /\ server = "starting" /\ server' = "listening"
      /\ UNCHANGED <<placement, trial, step, rows, counted, meters, waiting,
                     exits, output, exited>>
  BY DEF Listen, Goto, processes, files, script
<1>2. SuiteTypeInv'
  BY <1>1 DEF SuiteInv, SuiteTypeInv
<1>3. CountedOnce'
  BY <1>1 DEF SuiteInv, CountedOnce
<1>4. ReportInv'
  BY <1>1 DEF SuiteInv, ReportInv
<1>5. RowInv'
  BY <1>1 DEF SuiteInv, RowInv
<1>6. MeterInv'
  BY <1>1 DEF SuiteInv, MeterInv
<1>7. QED
  BY <1>2, <1>3, <1>4, <1>5, <1>6 DEF SuiteInv

LEMMA ServerFailsInv ==
  ASSUME SuiteInv, ServerFails
  PROVE  SuiteInv'
<1>1. /\ server # "none" /\ server' = "none" /\ exited' \in BOOLEAN
      /\ UNCHANGED <<placement, trial, step, rows, counted, meters, waiting,
                     exits, output>>
  BY DEF ServerFails, Goto, processes, files, script
<1>2. SuiteTypeInv'
  BY <1>1 DEF SuiteInv, SuiteTypeInv
<1>3. CountedOnce'
  BY <1>1 DEF SuiteInv, CountedOnce
<1>4. ReportInv'
  BY <1>1 DEF SuiteInv, ReportInv
<1>5. RowInv'
  BY <1>1 DEF SuiteInv, RowInv
<1>6. MeterInv'
  BY <1>1 DEF SuiteInv, MeterInv
<1>7. QED
  BY <1>2, <1>3, <1>4, <1>5, <1>6 DEF SuiteInv

(* As many submissions as meters at most, each with an id of its own.      *)
LEMMA CountBound ==
  ASSUME CountedOnce, counted \in SUBSET Submission
  PROVE  Cardinality(counted) \in 0 .. N
<1> DEFINE f == [c \in counted |-> c.id]
<1>1. IsFiniteSet(Meter) /\ Cardinality(Meter) = N
  <2>1. 0 \in Int /\ N - 1 \in Int /\ N \in Nat \ {0}
    BY SuiteAssumption
  <2>2. /\ IsFiniteSet(0 .. (N - 1))
        /\ Cardinality(0 .. (N - 1)) = IF 0 > N - 1 THEN 0 ELSE (N - 1) - 0 + 1
    BY <2>1, FS_Interval
  <2>3. QED
    BY <2>1, <2>2 DEF Meter
<1>2. f \in Injection(counted, Meter)
  <2>1. f \in [counted -> Meter]
    BY DEF Submission
  <2>2. \A c, d \in counted : f[c] = f[d] => c = d
    BY DEF CountedOnce
  <2> HIDE DEF f
  <2>3. QED
    BY <2>1, <2>2 DEF Injection, IsInjective
<1>3. Cardinality(counted) <= N
  <2> HIDE DEF f
  <2>1. QED
    BY <1>1, <1>2, FS_Injection
<1>4. Cardinality(counted) \in Nat
  BY FS_CardinalityType DEF CountedOnce
<1>5. QED
  BY <1>3, <1>4, SuiteAssumption

LEMMA ReportStepInv ==
  ASSUME SuiteInv, Report
  PROVE  SuiteInv'
<1>1. /\ server = "listening" /\ server' = "none"
      /\ output' = [received |-> Cardinality(counted),
                    pass |-> {m.id : m \in counted} = Meter]
      /\ exited' = TRUE
      /\ UNCHANGED <<placement, trial, step, rows, counted, meters, waiting,
                     exits>>
  BY DEF Report, Goto, processes, files, script
<1>2. SuiteTypeInv'
  <2>1. Cardinality(counted) \in 0 .. N
    BY CountBound DEF SuiteInv, SuiteTypeInv
  <2>2. output'.received \in -1 .. N /\ output'.pass \in BOOLEAN
    BY <1>1, <2>1, SuiteAssumption
  <2>3. QED
    BY <1>1, <2>2 DEF SuiteInv, SuiteTypeInv
<1>3. CountedOnce'
  BY <1>1 DEF SuiteInv, CountedOnce
<1>4. ReportInv'
  BY <1>1 DEF SuiteInv, ReportInv
<1>5. RowInv'
  BY <1>1 DEF SuiteInv, RowInv
<1>6. MeterInv'
  BY <1>1 DEF SuiteInv, MeterInv
<1>7. QED
  BY <1>2, <1>3, <1>4, <1>5, <1>6 DEF SuiteInv

LEMMA RecordInv ==
  ASSUME SuiteInv, Record
  PROVE  SuiteInv'
<1>a. PICK own \in BOOLEAN,
            report \in {output} \cup EarlierReports :
        /\ own => report = output
        /\ rows' = Append(rows, [trial |-> trial, status |-> RowStatus(report),
                                 own |-> own, of |-> counted, exits |-> exits])
        /\ IF trial = TRIALS \/ (STOP_ON_FAIL /\ RowStatus(report) = "FAIL")
           THEN step' = "done" /\ trial' = trial
           ELSE step' = "cleanup" /\ trial' = trial + 1
  BY DEF Record
<1> DEFINE new == [trial |-> trial, status |-> RowStatus(report), own |-> own,
                   of |-> counted, exits |-> exits]
<1>b. new.status = "PASS" /\ new.own => {m.id : m \in counted} = Meter
  <2>1. own /\ RowStatus(report) = "PASS" => report = output /\ report.pass
    BY <1>a DEF RowStatus
  <2>2. QED
    BY <2>1 DEF SuiteInv, ReportInv
<1>0. /\ new \in Row /\ rows \in Seq(Row) /\ Len(rows) \in Nat
      /\ rows' = Append(rows, new) /\ rows' \in Seq(Row)
      /\ Len(rows') = Len(rows) + 1
      /\ \A k \in 1 .. Len(rows) : rows'[k] = rows[k]
      /\ rows'[Len(rows) + 1] = new
  <2>1. /\ rows \in Seq(Row) /\ counted \in SUBSET Submission
        /\ trial \in Int /\ exits \in SUBSET Host
    BY SuiteAssumption DEF SuiteInv, SuiteTypeInv
  <2>2. new \in Row
    BY <2>1, <1>a DEF Row, RowStatus
  <2>3. rows' = Append(rows, new)
    BY <1>a
  <2> HIDE DEF new
  <2>4. QED
    BY <2>1, <2>2, <2>3
<1>1. /\ step = "record"
      /\ \/ trial = TRIALS /\ step' = "done" /\ trial' = trial
         \/ STOP_ON_FAIL /\ step' = "done" /\ trial' = trial
         \/ trial # TRIALS /\ step' = "cleanup" /\ trial' = trial + 1
      /\ UNCHANGED <<placement, server, counted, meters, waiting, exits,
                     output, exited>>
  BY <1>a DEF Record, Goto, processes, files, script
<1>2. SuiteTypeInv'
  <2>1. trial' \in 1 .. TRIALS /\ trial <= trial' /\ trial \in Int /\ trial' \in Int
    BY <1>1, SuiteAssumption DEF SuiteInv, SuiteTypeInv
  <2>2. \A m \in meters' : m.run <= trial'
    <3>1. \A m \in meters : m.run \in Int /\ m.run <= trial
      BY DEF SuiteInv, SuiteTypeInv, MeterProcess
    <3>2. QED
      BY <1>1, <2>1, <3>1
  <2>3. step' \in {"cleanup", "done"} /\ rows' \in Seq(Row)
    BY <1>0, <1>1
  <2>4. UNCHANGED <<placement, server, counted, meters, waiting, exits,
                    output, exited>>
    BY <1>1
  <2> HIDE DEF new
  <2>5. QED
    BY <2>1, <2>2, <2>3, <2>4 DEF SuiteInv, SuiteTypeInv
<1>3. CountedOnce'
  BY <1>1 DEF SuiteInv, CountedOnce
<1>4. ReportInv'
  BY <1>1 DEF SuiteInv, ReportInv
<1>5. RowInv'
  <2>1. /\ Len(rows) = trial - 1 /\ trial \in Int
        /\ \A k \in 1 .. Len(rows) : rows[k].status = "PASS" /\ rows[k].own =>
             /\ {m.id : m \in rows[k].of} = Meter
             /\ \A m \in rows[k].of : m.run = rows[k].trial
    BY <1>1, SuiteAssumption DEF SuiteInv, SuiteTypeInv, RowInv
  <2>2. Len(rows') \in {trial' - 1, trial'} /\ (step' # "done" => Len(rows') = trial' - 1)
    BY <1>0, <1>1, <2>1
  <2>3. \A m \in counted : m.run = trial
    BY <1>1 DEF SuiteInv, ReportInv
  <2>4. new.trial = trial /\ new.of = counted
    OBVIOUS
  <2> HIDE DEF new
  <2>5. ASSUME NEW k \in 1 .. Len(rows'), rows'[k].status = "PASS" /\ rows'[k].own
        PROVE  /\ {m.id : m \in rows'[k].of} = Meter
               /\ \A m \in rows'[k].of : m.run = rows'[k].trial
    <3>1. CASE k \in 1 .. Len(rows)
      BY <1>0, <2>1, <2>5, <3>1
    <3>2. CASE k = Len(rows) + 1
      BY <1>0, <1>b, <2>3, <2>4, <2>5, <3>2
    <3>3. QED
      BY <1>0, <3>1, <3>2
  <2>6. QED
    BY <2>2, <2>5 DEF RowInv
<1>6. MeterInv'
  <2>0. Len(rows) = trial - 1 /\ trial \in Nat /\ \A m \in meters : m.run \in Int
    BY <1>1, SuiteAssumption DEF SuiteInv, SuiteTypeInv, RowInv, MeterProcess
  <2>1. SUFFICES ASSUME NEW m \in meters'
                 PROVE  /\ m.run <= Len(rows')
                        /\ m.host \in rows'[m.run].exits
    BY <1>0, <1>1, <2>0 DEF MeterInv
  <2>2. /\ m \in meters /\ m.run \in Nat /\ m.run >= 1 /\ m.run <= Len(rows) + 1
        /\ m.run > Len(rows) => m.host \in exits
        /\ m.run <= Len(rows) => m.host \in rows[m.run].exits
    BY <1>1, <2>0 DEF SuiteInv, SuiteTypeInv, MeterProcess, MeterInv
  <2>3. CASE m.run <= Len(rows)
    <3>1. m.run \in 1 .. Len(rows)
      BY <1>0, <2>2, <2>3
    <3>2. rows'[m.run] = rows[m.run]
      BY <1>0, <3>1
    <3>3. QED
      BY <1>0, <2>2, <2>3, <3>2
  <2>4. CASE m.run > Len(rows)
    <3>1. m.run = Len(rows) + 1
      BY <1>0, <2>2, <2>4
    <3>2. rows'[m.run].exits = exits
      BY <1>0, <3>1
    <3>3. QED
      BY <1>0, <2>2, <2>4, <3>1, <3>2
  <2>5. QED
    BY <1>0, <2>2, <2>3, <2>4
<1>7. QED
  BY <1>2, <1>3, <1>4, <1>5, <1>6 DEF SuiteInv

LEMMA SubmitInv ==
  ASSUME SuiteInv, NEW m \in meters, Submit(m)
  PROVE  SuiteInv'
<1>1. /\ server = "listening" /\ m.id \in Meter
      /\ meters' \subseteq meters
      /\ counted' = (IF m.run = trial /\ m.id \notin {c.id : c \in counted}
                     THEN counted \cup {m} ELSE counted)
      /\ UNCHANGED <<placement, trial, step, rows, server, waiting, exits,
                     output, exited>>
  BY DEF Submit, Goto, processes, files, script
<1>2. SuiteTypeInv'
  BY <1>1 DEF SuiteInv, SuiteTypeInv, MeterProcess, Submission
<1>3. CountedOnce'
  BY <1>1, FS_AddElement DEF SuiteInv, CountedOnce
<1>4. ReportInv'
  BY <1>1 DEF SuiteInv, ReportInv, Nothing
<1>5. RowInv'
  BY <1>1 DEF SuiteInv, RowInv
<1>6. MeterInv'
  BY <1>1 DEF SuiteInv, MeterInv
<1>7. QED
  BY <1>2, <1>3, <1>4, <1>5, <1>6 DEF SuiteInv

LEMMA MeterFailsInv ==
  ASSUME SuiteInv, NEW m \in meters, MeterFails(m)
  PROVE  SuiteInv'
<1>1. /\ meters' \subseteq meters
      /\ UNCHANGED <<placement, trial, step, rows, server, counted, waiting,
                     exits, output, exited>>
  BY DEF MeterFails, Goto, processes, files, script
<1>2. SuiteTypeInv'
  BY <1>1 DEF SuiteInv, SuiteTypeInv
<1>3. CountedOnce'
  BY <1>1 DEF SuiteInv, CountedOnce
<1>4. ReportInv'
  BY <1>1 DEF SuiteInv, ReportInv
<1>5. RowInv'
  BY <1>1 DEF SuiteInv, RowInv
<1>6. MeterInv'
  BY <1>1 DEF SuiteInv, MeterInv
<1>7. QED
  BY <1>2, <1>3, <1>4, <1>5, <1>6 DEF SuiteInv

LEMMA LauncherReturnsInv ==
  ASSUME SuiteInv, NEW h \in Host, LauncherReturns(h)
  PROVE  SuiteInv'
<1>1. /\ waiting' = waiting \ {h}
      /\ \A m \in meters : m.run = trial => m.host # h
      /\ UNCHANGED <<placement, trial, step, rows, server, counted, meters, exits,
                     output, exited>>
  BY DEF LauncherReturns, Goto, processes, files, script
<1>2. SuiteTypeInv'
  BY <1>1 DEF SuiteInv, SuiteTypeInv
<1>3. CountedOnce'
  BY <1>1 DEF SuiteInv, CountedOnce
<1>4. ReportInv'
  BY <1>1 DEF SuiteInv, ReportInv
<1>5. RowInv'
  BY <1>1 DEF SuiteInv, RowInv
<1>6. MeterInv'
  BY <1>1 DEF SuiteInv, MeterInv, RowInv, SuiteTypeInv, MeterProcess
<1>7. QED
  BY <1>2, <1>3, <1>4, <1>5, <1>6 DEF SuiteInv

LEMMA LauncherFailsInv ==
  ASSUME SuiteInv, NEW h \in Host, LauncherFails(h)
  PROVE  SuiteInv'
<1>1. /\ waiting' = waiting \ {h} /\ exits' = exits \cup {h}
      /\ UNCHANGED <<placement, trial, step, rows, server, counted, meters,
                     output, exited>>
  BY DEF LauncherFails, Goto, processes, files, script
<1>2. SuiteTypeInv'
  BY <1>1 DEF SuiteInv, SuiteTypeInv
<1>3. CountedOnce'
  BY <1>1 DEF SuiteInv, CountedOnce
<1>4. ReportInv'
  BY <1>1 DEF SuiteInv, ReportInv
<1>5. RowInv'
  BY <1>1 DEF SuiteInv, RowInv
<1>6. MeterInv'
  BY <1>1 DEF SuiteInv, MeterInv
<1>7. QED
  BY <1>2, <1>3, <1>4, <1>5, <1>6 DEF SuiteInv

LEMMA SuiteStutters ==
  ASSUME SuiteInv, UNCHANGED vars
  PROVE  SuiteInv'
<1>1. UNCHANGED <<placement, trial, step, rows, server, counted, meters,
                  waiting, exits, output, exited>>
  BY DEF vars
<1>2. SuiteTypeInv'
  BY <1>1 DEF SuiteInv, SuiteTypeInv
<1>3. CountedOnce' /\ ReportInv'
  BY <1>1 DEF SuiteInv, CountedOnce, ReportInv
<1>4. RowInv' /\ MeterInv'
  BY <1>1 DEF SuiteInv, RowInv, MeterInv
<1>5. QED
  BY <1>2, <1>3, <1>4 DEF SuiteInv

LEMMA SuiteNextInv ==
  ASSUME SuiteInv, Next \/ UNCHANGED vars
  PROVE  SuiteInv'
<1>1. CASE Script
  <2>1. ASSUME NEW h \in Host, LauncherReturns(h) PROVE SuiteInv'
    BY <2>1, LauncherReturnsInv
  <2>2. QED
    BY <1>1, <2>1, CleanupInv, StartServerInv, ServerReadyInv, LaunchMetersInv,
       LaunchersDoneInv, ServerDoneInv, RecordInv DEF Script
<1>2. CASE Server
  BY <1>2, ListenInv, ReportStepInv DEF Server
<1>3. CASE MeterEnds
  <2>1. PICK m \in meters : Submit(m) \/ MeterFails(m)
    BY <1>3 DEF MeterEnds
  <2>2. QED
    BY <2>1, SubmitInv, MeterFailsInv
<1>4. CASE Fault
  <2>1. ASSUME NEW h \in Host, LauncherFails(h) PROVE SuiteInv'
    BY <2>1, LauncherFailsInv
  <2>2. QED
    BY <1>4, <2>1, SshFailsInv, ExtractFailsInv, ServerFailsInv DEF Fault
<1>5. QED
  BY <1>1, <1>2, <1>3, <1>4, SuiteStutters DEF Next

LEMMA SuiteConsequences ==
  SuiteInv => TypeOK /\ PassRowComplete /\ LeftoversExplained
<1> SUFFICES ASSUME SuiteInv PROVE TypeOK /\ PassRowComplete /\ LeftoversExplained
  OBVIOUS
<1>1. rows \in Seq(Row) /\ DOMAIN rows = 1 .. Len(rows) /\ Len(rows) \in Nat
  BY DEF SuiteInv, SuiteTypeInv
<1>2. trial \in 1 .. TRIALS /\ \A m \in meters : m \in MeterProcess /\ m.run <= trial
  BY DEF SuiteInv, SuiteTypeInv
<1>3. TypeOK
  <2>1. Len(rows) <= TRIALS
    <3>1. Len(rows) \in {trial - 1, trial}
      BY DEF SuiteInv, RowInv
    <3>2. trial \in Int /\ TRIALS \in Int /\ trial <= TRIALS
      BY <1>2, SuiteAssumption
    <3>3. QED
      BY ONLY <3>1, <3>2
  <2>2. \A m \in meters : m.run \in 1 .. trial /\ m.host \in Host /\ m.id \in Int
    BY <1>2, SuiteAssumption DEF MeterProcess
  <2>3. QED
    BY <2>1, <2>2 DEF SuiteInv, SuiteTypeInv, TypeOK
<1>4. PassRowComplete
  BY <1>1 DEF SuiteInv, RowInv, PassRowComplete
<1>5. LeftoversExplained
  <2>1. SUFFICES ASSUME NEW m \in meters
        PROVE  IF m.run \in DOMAIN rows THEN m.host \in rows[m.run].exits
               ELSE step \in {"exit", "record"} => m.host \in exits
    BY DEF LeftoversExplained
  <2>2. m.run \in Nat /\ m.run >= 1
    BY <1>2, SuiteAssumption DEF MeterProcess
  <2>3. m.run \in DOMAIN rows <=> m.run <= Len(rows)
    BY <1>1, <2>2
  <2>4. QED
    BY <1>1, <2>2, <2>3 DEF SuiteInv, MeterInv
<1>6. QED
  BY <1>3, <1>4, <1>5

-----------------------------------------------------------------------------
(* Each step of the harness of the all-party protocol keeps CaseInv.       *)

LEMMA CaseInitInv ==
  ASSUME NEW there \in {"cleanup", "done"}, CaseInitAt(there)
  PROVE  CaseInv
<1>1. /\ at = there /\ case = 1 /\ launched = 0 /\ sessions = {} /\ begun = {}
      /\ before \in BOOLEAN /\ logs = Logs(Old) /\ fetched = Logs("none")
      /\ matrix = <<>> /\ printed = {} /\ stale = {}
  BY DEF CaseInitAt
<1>2. CaseTypeInv
  <2>1. /\ logs \in [Node -> {"none", "begun", "aggregate"}]
        /\ fetched \in [Node -> {"none", "begun", "aggregate"}]
    BY <1>1 DEF Logs, Old
  <2>2. matrix \in Seq({"PASS", "FAIL"})
    BY <1>1
  <2>3. launched \in 0 .. Nodes
    BY <1>1, CaseAssumption
  <2>4. QED
    BY <1>1, <2>1, <2>2, <2>3 DEF CaseTypeInv
<1>3. SessionInv /\ LogInv
  <2>1. \A n \in Node : ~(n < 0)
    BY CaseAssumption DEF Node
  <2>2. QED
    BY <1>1, <2>1 DEF SessionInv, LogInv
<1>4. MatrixInv
  BY <1>1 DEF MatrixInv
<1>5. QED
  BY <1>2, <1>3, <1>4 DEF CaseInv

LEMMA CleanupBeforeInv ==
  ASSUME CaseInv, CleanupBefore
  PROVE  CaseInv'
<1>1. /\ at = "cleanup" /\ at' = "launch" /\ sessions' \subseteq sessions
      /\ begun' = {s.id : s \in sessions'}
      /\ UNCHANGED <<case, launched, before, logs, fetched, stale, matrix,
                     printed>>
  BY DEF CleanupBefore, hosts, remote_cleanup, OfCase
<1>2. CaseTypeInv'
  <2>1. begun' \in SUBSET Node
    BY <1>1 DEF CaseInv, CaseTypeInv
  <2>2. QED
    BY <1>1, <2>1 DEF CaseInv, CaseTypeInv
<1>3. SessionInv'
  BY <1>1 DEF CaseInv, CaseTypeInv, SessionInv
<1>4. LogInv'
  <2>1. \A n \in Node : ~(n < launched)
    BY <1>1, CaseAssumption DEF CaseInv, SessionInv, Node
  <2>2. QED
    BY <1>1, <2>1 DEF CaseInv, LogInv
<1>5. MatrixInv'
  BY <1>1 DEF CaseInv, MatrixInv
<1>6. QED
  BY <1>2, <1>3, <1>4, <1>5 DEF CaseInv

LEMMA launch_nodeInv ==
  ASSUME CaseInv, launch_node
  PROVE  CaseInv'
<1> DEFINE new == [case |-> case, id |-> launched, open |-> FALSE]
<1>0. /\ launched \in Node /\ launched \in Nat /\ Nodes \in Nat /\ launched + 1 \in 0 .. Nodes
      /\ new \in [case : Nat, id : Node, open : BOOLEAN]
      /\ new.case = case /\ new.id = launched /\ ~new.open
  <2>1. launched < Nodes /\ launched \in 0 .. Nodes /\ case \in Nat /\ Nodes \in Nat
    BY CaseAssumption DEF launch_node, CaseInv, CaseTypeInv
  <2>2. QED
    BY <2>1 DEF Node
<1>1. /\ at = "launch" /\ launched < Nodes /\ launched' = launched + 1
      /\ sessions' = sessions \cup {new}
      /\ UNCHANGED <<at, case, begun, before, logs, fetched, stale, matrix, printed>>
  BY DEF launch_node, hosts, remote_cleanup, OfCase
<1> HIDE DEF new
<1>2. CaseTypeInv'
  BY <1>0, <1>1 DEF CaseInv, CaseTypeInv
<1>3. SessionInv'
  <2>1. \A s \in sessions :
          /\ s.id \in Nat /\ s.case <= case
          /\ s.case = case => s.id < launched
    <3>1. \A s \in sessions : s.id \in Node
      BY DEF CaseInv, CaseTypeInv
    <3>2. \A i \in Node : i \in Nat
      BY <1>0 DEF Node
    <3>3. QED
      BY <3>1, <3>2 DEF CaseInv, SessionInv
  <2>2. <<case, launched>> \notin printed
    BY <1>0 DEF CaseInv, SessionInv
  <2>3. \A e \in printed : e[2] \in Nat
    BY <1>0 DEF CaseInv, CaseTypeInv, Node
  <2>4. \A s \in sessions' :
          /\ s.case <= case
          /\ s.case = case => s.id < launched + 1 /\ <<case, s.id>> \notin printed
          /\ s.case # case => <<s.case, s.id>> \in stale
    <3>1. case \in Nat /\ case <= case
      BY DEF CaseInv, CaseTypeInv
    <3>2. \A s \in sessions :
            /\ s.case <= case
            /\ s.case = case => s.id < launched + 1 /\ <<case, s.id>> \notin printed
            /\ s.case # case => <<s.case, s.id>> \in stale
      <4>1. \A i \in Nat : i < launched => i < launched + 1
        BY <1>0
      <4>2. QED
        BY <2>1, <4>1 DEF CaseInv, SessionInv
    <3>3. new.case <= case /\ new.id < launched + 1 /\ <<case, new.id>> \notin printed
      BY <1>0, <2>2, <3>1
    <3>4. QED
      BY <1>0, <1>1, <3>2, <3>3
  <2>5. \A s, u \in sessions' : s.case = u.case /\ s.id = u.id => s = u
    BY <1>0, <1>1, <2>1 DEF CaseInv, SessionInv
  <2>6. \A e \in printed : e[1] <= case /\ (e[1] = case => e[2] < launched + 1)
    BY <1>0, <2>3 DEF CaseInv, SessionInv
  <2>7. QED
    BY <1>1, <2>4, <2>5, <2>6 DEF SessionInv
<1>4. LogInv'
  <2>1. ASSUME NEW n \in Node, n < launched + 1
        PROVE  \/ logs[n] = "begun" \/ <<case, n>> \in printed
               \/ \E s \in sessions' : s.case = case /\ s.id = n /\ ~s.open
    <3>1. n < launched \/ n = launched
      BY <1>0, <2>1 DEF Node
    <3>2. CASE n < launched
      BY <1>1, <3>2 DEF CaseInv, LogInv
    <3>3. CASE n = launched
      BY <1>0, <1>1, <3>3
    <3>4. QED
      BY <3>1, <3>2, <3>3
  <2>2. QED
    BY <1>1, <2>1 DEF CaseInv, LogInv
<1>5. MatrixInv'
  BY <1>1 DEF CaseInv, MatrixInv
<1>6. QED
  BY <1>2, <1>3, <1>4, <1>5 DEF CaseInv

LEMMA AllLaunchedInv ==
  ASSUME CaseInv, AllLaunched
  PROVE  CaseInv'
<1>1. /\ at = "launch" /\ launched = Nodes /\ at' = "wait"
      /\ UNCHANGED <<case, launched, sessions, begun, before, logs, printed,
                     fetched, stale, matrix>>
  BY DEF AllLaunched, hosts, remote_cleanup, OfCase
<1>2. CaseTypeInv'
  BY <1>1 DEF CaseInv, CaseTypeInv
<1>3. SessionInv'
  BY <1>1 DEF CaseInv, CaseTypeInv, SessionInv
<1>4. LogInv'
  BY <1>1 DEF CaseInv, CaseTypeInv, SessionInv, LogInv
<1>5. MatrixInv'
  BY <1>1 DEF CaseInv, MatrixInv
<1>6. QED
  BY <1>2, <1>3, <1>4, <1>5 DEF CaseInv

LEMMA SessionsGoneInv ==
  ASSUME CaseInv, SessionsGone
  PROVE  CaseInv'
<1>1. /\ at = "wait" /\ at' = "collect"
      /\ \A s \in sessions : s.case # case
      /\ UNCHANGED <<case, launched, sessions, begun, before, logs, printed,
                     fetched, stale, matrix>>
  BY DEF SessionsGone, hosts, remote_cleanup, OfCase
<1>2. CaseTypeInv'
  BY <1>1 DEF CaseInv, CaseTypeInv
<1>3. SessionInv'
  BY <1>1 DEF CaseInv, CaseTypeInv, SessionInv
<1>4. LogInv'
  BY <1>1 DEF CaseInv, LogInv
<1>5. MatrixInv'
  BY <1>1 DEF CaseInv, MatrixInv
<1>6. QED
  BY <1>2, <1>3, <1>4, <1>5 DEF CaseInv

LEMMA DeadlinePassesInv ==
  ASSUME CaseInv, DeadlinePasses
  PROVE  CaseInv'
<1>1. /\ at = "wait" /\ at' = "collect"
      /\ \A s \in sessions : s.case = case => s.open
      /\ sessions' \subseteq sessions
      /\ UNCHANGED <<case, launched, begun, before, logs, fetched, stale, matrix,
                     printed>>
  BY DEF DeadlinePasses, hosts, remote_cleanup, OfCase
<1>2. CaseTypeInv'
  BY <1>1 DEF CaseInv, CaseTypeInv
<1>3. SessionInv'
  BY <1>1 DEF CaseInv, CaseTypeInv, SessionInv
<1>4. LogInv'
  BY <1>1 DEF CaseInv, LogInv
<1>5. MatrixInv'
  BY <1>1 DEF CaseInv, MatrixInv
<1>6. QED
  BY <1>2, <1>3, <1>4, <1>5 DEF CaseInv

LEMMA SshAbortsInv ==
  ASSUME CaseInv, SshAborts
  PROVE  CaseInv'
<1>1. /\ at = "launch" /\ at' = "aborted"
      /\ UNCHANGED <<case, launched, sessions, begun, before, logs, printed,
                     fetched, stale, matrix>>
  BY DEF SshAborts, hosts, remote_cleanup, OfCase
<1>2. CaseTypeInv'
  BY <1>1 DEF CaseInv, CaseTypeInv
<1>3. SessionInv'
  BY <1>1 DEF CaseInv, CaseTypeInv, SessionInv
<1>4. LogInv'
  BY <1>1 DEF CaseInv, CaseTypeInv, SessionInv, LogInv
<1>5. MatrixInv'
  BY <1>1 DEF CaseInv, MatrixInv
<1>6. QED
  BY <1>2, <1>3, <1>4, <1>5 DEF CaseInv

LEMMA collect_logsInv ==
  ASSUME CaseInv, collect_logs
  PROVE  CaseInv'
<1>a. PICK came \in SUBSET {i \in Node : logs[i] # "none"} :
        \E left \in SUBSET (Node \ came) :
          /\ fetched' = [i \in Node |-> IF i \in came THEN logs[i]
                                       ELSE IF i \in left THEN "aggregate"
                                       ELSE "none"]
          /\ stale' = stale \cup ({case} \X left)
  BY DEF collect_logs
<1>b. PICK left \in SUBSET (Node \ came) :
        /\ fetched' = [i \in Node |-> IF i \in came THEN logs[i]
                                     ELSE IF i \in left THEN "aggregate"
                                     ELSE "none"]
        /\ stale' = stale \cup ({case} \X left)
  BY <1>a
<1>1. /\ at = "collect" /\ at' = "analyze" /\ stale \subseteq stale'
      /\ UNCHANGED <<case, launched, sessions, begun, before, logs, printed,
                     matrix>>
  BY <1>b DEF collect_logs, hosts
<1>2. CaseTypeInv'
  <2>1. stale' \in SUBSET (Nat \X Node)
    BY <1>b DEF CaseInv, CaseTypeInv
  <2>2. fetched' \in [Node -> {"none", "begun", "aggregate"}]
    BY <1>b DEF CaseInv, CaseTypeInv
  <2>3. QED
    BY <1>1, <2>1, <2>2 DEF CaseInv, CaseTypeInv
<1>3. SessionInv'
  BY <1>1 DEF CaseInv, CaseTypeInv, SessionInv
<1>4. LogInv'
  <2>1. ASSUME NEW n \in Node, fetched'[n] = "aggregate"
        PROVE  <<case, n>> \in printed \cup stale'
    <3>1. CASE n \in came
      <4>1. logs[n] = "aggregate"
        BY <1>b, <2>1, <3>1
      <4>2. n < launched
        BY <1>1, CaseAssumption DEF CaseInv, LogInv, Node
      <4>3. QED
        BY <1>1, <4>1, <4>2 DEF CaseInv, LogInv
    <3>2. CASE n \notin came
      BY <1>b, <2>1, <3>2
    <3>3. QED
      BY <3>1, <3>2
  <2>2. QED
    BY <1>1, <2>1 DEF CaseInv, LogInv
<1>5. MatrixInv'
  BY <1>1 DEF CaseInv, MatrixInv
<1>6. QED
  BY <1>2, <1>3, <1>4, <1>5 DEF CaseInv

LEMMA analyze_caseInv ==
  ASSUME CaseInv, analyze_case
  PROVE  CaseInv'
<1>1. /\ at = "analyze" /\ matrix' = Append(matrix, CaseStatus)
      /\ \/ at' = "done" /\ UNCHANGED <<case, launched, begun, logs>>
         \/ /\ CaseStatus = "PASS" /\ at' = "cleanup" /\ case' = case + 1
            /\ launched' = 0 /\ begun' = {} /\ logs' = Logs(Old)
      /\ UNCHANGED <<sessions, before, fetched, stale, printed>>
  BY DEF analyze_case, CaseStatus
<1>a. /\ matrix \in Seq({"PASS", "FAIL"}) /\ Len(matrix) = case - 1
      /\ case \in Nat /\ CaseStatus \in {"PASS", "FAIL"}
      /\ printed \in SUBSET (Nat \X Node)
  BY <1>1 DEF CaseInv, CaseTypeInv, MatrixInv, CaseStatus
<1>b. /\ matrix' \in Seq({"PASS", "FAIL"}) /\ Len(matrix') = case
      /\ \A c \in 1 .. Len(matrix) : matrix'[c] = matrix[c]
      /\ matrix'[case] = CaseStatus
  BY <1>1, <1>a
<1>c. CaseStatus = "PASS" => {case} \X Node \subseteq printed \cup stale
  <2>1. CaseStatus = "PASS" => \A n \in Node : <<case, n>> \in printed \cup stale
    BY <1>1 DEF CaseInv, LogInv, CaseStatus
  <2>2. QED
    BY <2>1
<1>d. CaseStatus = "PASS" => \A s \in sessions : <<s.case, s.id>> \in stale
  <2>1. \A s \in sessions :
          s.id \in Node /\ (s.case = case => <<case, s.id>> \notin printed)
    BY DEF CaseInv, CaseTypeInv, SessionInv
  <2>2. \A s \in sessions : s.case # case => <<s.case, s.id>> \in stale
    BY DEF CaseInv, SessionInv
  <2>3. QED
    BY <1>c, <2>1, <2>2
<1>2. CaseTypeInv'
  <2>1. case' \in Nat /\ launched' \in 0 .. Nodes /\ begun' \in SUBSET Node
    BY <1>1, <1>a, CaseAssumption DEF CaseInv, CaseTypeInv
  <2>2. logs' \in [Node -> {"none", "begun", "aggregate"}]
    BY <1>1 DEF CaseInv, CaseTypeInv, Logs, Old
  <2>3. at' \in {"cleanup", "done"}
    BY <1>1
  <2>4. /\ sessions' = sessions /\ fetched' = fetched
        /\ printed' = printed /\ stale' = stale
    BY <1>1
  <2>5. QED
    BY <1>b, <2>1, <2>2, <2>3, <2>4 DEF CaseInv, CaseTypeInv
<1>3. SessionInv'
  <2>1. CASE at' = "done" /\ UNCHANGED <<case, launched, begun, logs>>
    BY <1>1, <2>1 DEF CaseInv, SessionInv
  <2>2. CASE CaseStatus = "PASS" /\ at' = "cleanup" /\ case' = case + 1 /\ launched' = 0
    <3>1. \A e \in printed : e[1] \in Nat /\ e[1] <= case
      BY <1>a DEF CaseInv, SessionInv
    <3>2. \A e \in printed : e[1] <= case + 1 /\ e[1] # case + 1
      BY <1>a, <3>1
    <3>3. \A s \in sessions : s.case \in Nat /\ s.case <= case
      BY DEF CaseInv, CaseTypeInv, SessionInv
    <3>4. \A s \in sessions : s.case <= case + 1 /\ s.case # case + 1
      BY <1>a, <3>3
    <3>5. \A s, u \in sessions : s.case = u.case /\ s.id = u.id => s = u
      BY DEF CaseInv, SessionInv
    <3>6. QED
      BY <1>1, <1>d, <2>2, <3>2, <3>4, <3>5 DEF SessionInv
  <2>3. QED
    BY <1>1, <2>1, <2>2
<1>4. LogInv'
  <2>1. CASE at' = "done" /\ UNCHANGED <<case, launched, begun, logs>>
    BY <1>1, <2>1 DEF CaseInv, LogInv
  <2>2. CASE at' = "cleanup" /\ launched' = 0
    <3>1. \A n \in Node : ~(n < 0)
      BY CaseAssumption DEF Node
    <3>2. QED
      BY <1>1, <2>2, <3>1 DEF LogInv
  <2>3. QED
    BY <1>1, <2>1, <2>2
<1>5. MatrixInv'
  <2>1. at' \notin {"done", "aborted"} => Len(matrix') = case' - 1
    BY <1>1, <1>a, <1>b
  <2>2. ASSUME NEW c \in 1 .. Len(matrix'), matrix'[c] = "PASS"
        PROVE  {c} \X Node \subseteq printed \cup stale
    <3>1. c = case \/ c \in 1 .. Len(matrix)
      BY <1>a, <1>b
    <3>2. QED
      BY <1>b, <1>c, <2>2, <3>1 DEF CaseInv, MatrixInv
  <2>3. QED
    BY <1>1, <2>1, <2>2 DEF MatrixInv
<1>6. QED
  BY <1>2, <1>3, <1>4, <1>5 DEF CaseInv

LEMMA NodeStartsInv ==
  ASSUME CaseInv, NEW s \in sessions, NodeStarts(s)
  PROVE  CaseInv'
<1> DEFINE opened == [s EXCEPT !.open = TRUE]
<1>0. /\ opened \in [case : Nat, id : Node, open : BOOLEAN]
      /\ opened.case = s.case /\ opened.id = s.id /\ opened.open
  BY DEF CaseInv, CaseTypeInv
<1>1. /\ ~s.open /\ sessions' = (sessions \ {s}) \cup {opened}
      /\ IF s.case = case
         THEN begun' = begun \cup {s.id} /\ logs' = [logs EXCEPT ![s.id] = "begun"]
         ELSE UNCHANGED <<begun, logs>>
      /\ UNCHANGED <<at, case, launched, before, fetched, stale, matrix, printed>>
  BY DEF NodeStarts, hosts, remote_cleanup, OfCase
<1> HIDE DEF opened
<1>2. CaseTypeInv'
  <2>1. s.id \in Node
    BY DEF CaseInv, CaseTypeInv
  <2>2. QED
    BY <1>0, <1>1, <2>1 DEF CaseInv, CaseTypeInv
<1>3. SessionInv'
  <2>1. \A u, v \in sessions' : u.case = v.case /\ u.id = v.id => u = v
    <3>1. \A u \in sessions : u.case = s.case /\ u.id = s.id => u = s
      BY DEF CaseInv, SessionInv
    <3>2. QED
      BY <1>0, <1>1, <3>1 DEF CaseInv, SessionInv
  <2>2. QED
    BY <1>0, <1>1, <2>1 DEF CaseInv, SessionInv
<1>4. LogInv'
  <2>1. /\ s.case \in Nat /\ s.id \in Node
        /\ logs \in [Node -> {"none", "begun", "aggregate"}]
    BY DEF CaseInv, CaseTypeInv
  <2>2. ASSUME NEW n \in Node, n < launched
        PROVE  \/ logs'[n] = "begun" \/ <<case, n>> \in printed
               \/ \E u \in sessions' : u.case = case /\ u.id = n /\ ~u.open
    <3>1. \/ logs[n] = "begun" \/ <<case, n>> \in printed
          \/ \E u \in sessions : u.case = case /\ u.id = n /\ ~u.open
      BY <2>2 DEF CaseInv, LogInv
    <3>2. CASE s.case = case /\ s.id = n
      BY <1>0, <1>1, <2>1, <3>2
    <3>3. CASE ~(s.case = case /\ s.id = n)
      <4>1. logs'[n] = logs[n]
        BY <1>1, <2>1, <3>3
      <4>2. \A u \in sessions : u.case = case /\ u.id = n => u \in sessions'
        BY <1>1, <3>3
      <4>3. QED
        BY <3>1, <4>1, <4>2
    <3>4. QED
      BY <3>2, <3>3
  <2>3. at \in {"collect", "analyze"} => \A u \in sessions' : u.case = case => u.open
    BY <1>0, <1>1 DEF CaseInv, LogInv
  <2>4. QED
    BY <1>1, <2>2, <2>3 DEF CaseInv, LogInv
<1>5. MatrixInv'
  BY <1>1 DEF CaseInv, MatrixInv
<1>6. QED
  BY <1>2, <1>3, <1>4, <1>5 DEF CaseInv

LEMMA NodePrintsInv ==
  ASSUME CaseInv, NEW s \in sessions, NodePrints(s)
  PROVE  CaseInv'
<1>1. /\ s.open /\ s.case = case /\ begun = Node
      /\ sessions' = sessions \ {s}
      /\ logs' = [logs EXCEPT ![s.id] = "aggregate"]
      /\ printed' = printed \cup {<<case, s.id>>}
      /\ UNCHANGED <<at, case, launched, begun, before, fetched, stale, matrix>>
  BY DEF NodePrints, hosts, remote_cleanup, OfCase
<1>2. CaseTypeInv'
  BY <1>1 DEF CaseInv, CaseTypeInv
<1>3. SessionInv'
  BY <1>1 DEF CaseInv, CaseTypeInv, SessionInv
<1>4. LogInv'
  <2>1. s.id \in Node /\ logs \in [Node -> {"none", "begun", "aggregate"}]
    BY DEF CaseInv, CaseTypeInv
  <2>2. ASSUME NEW n \in Node, n < launched
        PROVE  \/ logs'[n] = "begun" \/ <<case, n>> \in printed'
               \/ \E u \in sessions' : u.case = case /\ u.id = n /\ ~u.open
    BY <1>1, <2>1, <2>2 DEF CaseInv, LogInv
  <2>3. QED
    BY <1>1, <2>2 DEF CaseInv, LogInv
<1>5. MatrixInv'
  BY <1>1 DEF CaseInv, MatrixInv
<1>6. QED
  BY <1>2, <1>3, <1>4, <1>5 DEF CaseInv

LEMMA NodeEndsInv ==
  ASSUME CaseInv, NEW s \in sessions, NodeEnds(s)
  PROVE  CaseInv'
<1>1. /\ s.open /\ sessions' = sessions \ {s}
      /\ UNCHANGED <<at, case, launched, begun, before, logs, fetched, stale, matrix,
                     printed>>
  BY DEF NodeEnds, hosts, remote_cleanup, OfCase
<1>2. CaseTypeInv'
  BY <1>1 DEF CaseInv, CaseTypeInv
<1>3. SessionInv'
  BY <1>1 DEF CaseInv, CaseTypeInv, SessionInv
<1>4. LogInv'
  BY <1>1 DEF CaseInv, CaseTypeInv, SessionInv, LogInv
<1>5. MatrixInv'
  BY <1>1 DEF CaseInv, MatrixInv
<1>6. QED
  BY <1>2, <1>3, <1>4, <1>5 DEF CaseInv

LEMMA CaseStutters ==
  ASSUME CaseInv, UNCHANGED caseVars
  PROVE  CaseInv'
<1>1. UNCHANGED <<at, case, launched, sessions, begun, before, logs, fetched,
                  stale, matrix, printed>>
  BY DEF caseVars, hosts
<1>2. CaseTypeInv'
  BY <1>1 DEF CaseInv, CaseTypeInv
<1>3. SessionInv' /\ LogInv'
  BY <1>1 DEF CaseInv, SessionInv, LogInv
<1>4. MatrixInv'
  BY <1>1 DEF CaseInv, MatrixInv
<1>5. QED
  BY <1>2, <1>3, <1>4 DEF CaseInv

LEMMA CaseNextInv ==
  ASSUME CaseInv, CaseNext \/ UNCHANGED caseVars
  PROVE  CaseInv'
<1>1. CASE run_case
  BY <1>1, CleanupBeforeInv, launch_nodeInv, AllLaunchedInv, SessionsGoneInv,
     DeadlinePassesInv, SshAbortsInv, collect_logsInv, analyze_caseInv
     DEF run_case
<1>2. CASE \E s \in sessions : NodeStarts(s) \/ NodePrints(s) \/ NodeEnds(s)
  BY <1>2, NodeStartsInv, NodePrintsInv, NodeEndsInv
<1>3. QED
  BY <1>1, <1>2, CaseStutters DEF CaseNext

LEMMA CaseConsequences == CaseInv => PassRowOfCase /\ CasesApart
<1> SUFFICES ASSUME CaseInv PROVE PassRowOfCase /\ CasesApart
  OBVIOUS
<1>1. DOMAIN matrix = 1 .. Len(matrix)
  BY DEF CaseInv, CaseTypeInv
<1>2. PassRowOfCase
  BY <1>1 DEF CaseInv, MatrixInv, PassRowOfCase
<1>3. CasesApart
  BY DEF CaseInv, SessionInv, CasesApart
<1>4. QED
  BY <1>2, <1>3

-----------------------------------------------------------------------------
HarnessInv == SuiteInv /\ CaseInv

THEOREM HarnessAlways == HarnessSpec => []HarnessInv
<1>1. HarnessInit => HarnessInv
  BY SuiteInit, CaseInitInv DEF HarnessInit, HarnessInv, Init, CaseInit
<1>2. HarnessInv /\ [HarnessNext]_<<vars, caseVars>> => HarnessInv'
  <2>1. SUFFICES ASSUME HarnessInv, [HarnessNext]_<<vars, caseVars>>
                 PROVE  HarnessInv'
    OBVIOUS
  <2>2. /\ Next \/ UNCHANGED vars
        /\ CaseNext \/ UNCHANGED caseVars
    BY <2>1 DEF HarnessNext
  <2>3. QED
    BY <2>1, <2>2, SuiteNextInv, CaseNextInv DEF HarnessInv
<1>3. QED
  BY <1>1, <1>2, PTL DEF HarnessSpec

(* The values of the suite's variables, and at most TRIALS rows.           *)
THEOREM SuiteTypeCorrect == HarnessSpec => []TypeOK
<1>1. HarnessInv => TypeOK
  BY SuiteConsequences DEF HarnessInv
<1>2. QED
  BY <1>1, HarnessAlways, PTL

(* A row that is of its own trial's report says PASS only if every meter   *)
(* submitted in that very trial, whatever survives of earlier ones; a row  *)
(* of the report that an earlier run has left, which the script takes when *)
(* the fetch fails under a reused --out, is not covered                    *)
(* (run_secure_agg_suite_pc5.sh:142-238).                                  *)
THEOREM PassRowsComplete == HarnessSpec => []PassRowComplete
<1>1. HarnessInv => PassRowComplete
  BY SuiteConsequences DEF HarnessInv
<1>2. QED
  BY <1>1, HarnessAlways, PTL

(* A meter that outlives its trial has a launcher that failed, and the row *)
(* says so (run_secure_agg_suite_pc5.sh:192-194, 231-232).                 *)
THEOREM LeftoversInRows == HarnessSpec => []LeftoversExplained
<1>1. HarnessInv => LeftoversExplained
  BY SuiteConsequences DEF HarnessInv
<1>2. QED
  BY <1>1, HarnessAlways, PTL

(* A row of the all-party harness says PASS only if every node printed the *)
(* aggregate in that case, or is one whose log was not fetched and whose   *)
(* copy an earlier run had left in $OUTDIR; the logs of earlier cases that *)
(* are still on the hosts are never taken for this one's                   *)
(* (run_scale_suite_pc5.sh:23-32, 138-167, 189-219).                       *)
THEOREM PassRowsOfCase == HarnessSpec => []PassRowOfCase
<1>1. HarnessInv => PassRowOfCase
  BY CaseConsequences DEF HarnessInv
<1>2. QED
  BY <1>1, HarnessAlways, PTL

(* Nodes of two cases never run at the same time, whatever remote_cleanup  *)
(* misses, unless an earlier run's copy stood in for the log of the node   *)
(* that goes on (run_scale_suite_pc5.sh:105-118, 159-167, 258-259,         *)
(* 297-303).                                                               *)
THEOREM CasesNeverOverlap == HarnessSpec => []CasesApart
<1>1. HarnessInv => CasesApart
  BY CaseConsequences DEF HarnessInv
<1>2. QED
  BY <1>1, HarnessAlways, PTL
=============================================================================
