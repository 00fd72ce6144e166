------------------------------ MODULE SecureAgg -----------------------------
(***************************************************************************)
(* The central aggregation path: secure_agg_meter masks its value with one *)
(* pairwise mask per other meter and submits it in one packet on one       *)
(* connection; secure_agg_server takes connections one by one until it has *)
(* counted all N meters or its deadline passes, and compares the sum with  *)
(* the expected one.                                                       *)
(*                                                                         *)
(* A meter may be launched twice, may be killed or lose power at any time, *)
(* what it has sent may be lost on its way, and processes of an earlier    *)
(* run or foreign ones may connect too.                                    *)
(***************************************************************************)
EXTENDS MpcField, Sequences

CONSTANTS
  N,              \* --n, the number of meters
  CheckTestId,    \* whether the server was given --test-id
  Values,         \* bound: what meters may have as --value
  MaxLaunches,    \* bound: how often a meter is launched in this run
  MaxForeign,     \* bound: how many connections are not of this run
  Backlog         \* how many connections the server's kernel queues

ASSUME AggAssumption ==
  /\ N \in Nat \ {0} /\ CheckTestId \in BOOLEAN /\ Values \subseteq Field
  /\ MaxLaunches \in Nat /\ MaxForeign \in Nat /\ Backlog \in Nat \ {0}

Meter == 0 .. (N - 1)
Pairs == {e \in Meter \X Meter : e[1] < e[2]}

VARIABLES
  value,      \* --value of each meter
  mask,       \* pair_mask(a, b, key) for a < b, any field elements
  launched,   \* how often each meter was launched
  passed,     \* the processes of meters, as <<id, launch>>, that printed
              \* STATUS=PASS
  lost,       \* those of them whose packet their machine or the network lost
  foreign,    \* how many connections of others there have been
  queue,      \* the server's backlog: connections to be accepted
  server,     \* "poll", "recv" or, after the loop, "done"
  client,     \* the accepted connection, client_fd
  expired,    \* timeout_ms have passed since the server's t0
  seen,       \* seen[], as the set of ids
  received, duplicates, invalid, timed_out, aggregate

run == <<value, mask>>
counters == <<received, duplicates, invalid, aggregate>>
vars == <<value, mask, launched, passed, lost, foreign, queue, server, client,
          expired, seen, received, duplicates, invalid, timed_out, aggregate>>

-----------------------------------------------------------------------------
mod_add(a, b) == U64(a + b) % P
mod_sub(a, b) == U64(P + a - b) % P

(* Mutant: both meters of a pair add their mask.                           *)
masked_value_adds(id) ==
  LET masked[k \in 0 .. N] ==
        IF k = 0 THEN value[id] % P
        ELSE LET j == k - 1
             IN  IF j = id THEN masked[j]
                 ELSE IF id < j THEN mod_add(masked[j], mask[<<id, j>>])
                 ELSE mod_add(masked[j], mask[<<j, id>>])
  IN  masked[N]

(* compute_masked_value: the lower id of a pair adds the pair's mask, the  *)
(* higher one takes it away.  masked[k] is the value after k iterations.   *)
masked_value(id) ==
  LET masked[k \in 0 .. N] ==
        IF k = 0 THEN value[id] % P
        ELSE LET j == k - 1
             IN  IF j = id THEN masked[j]
                 ELSE IF id < j THEN mod_add(masked[j], mask[<<id, j>>])
                 ELSE mod_sub(masked[j], mask[<<j, id>>])
  IN  masked[N]

(* A packet: whether magic, version and type are right, and the other      *)
(* three fields.                                                           *)
Packet(ok, test, id, v) ==
  [format |-> ok, test_id |-> test, id |-> id, masked_value |-> v]
Submission(i) == Packet(TRUE, "this", i, masked_value(i))

(* What others send: a packet of an earlier run, or one that is not a      *)
(* submission for some reason.                                             *)
ForeignPackets ==
  {Packet(TRUE, "old", i, v) : i \in Meter, v \in Field} \cup
  {Packet(FALSE, "this", 0, 0), Packet(TRUE, "this", N, 0), Packet(TRUE, "this", 0, P)}

(* A connection: its packet, the process of this run it is by (none, if it *)
(* is foreign), and what became of the 20 bytes.  The sender has not handed*)
(* them over yet ("part"), its kernel or the network has them ("sent"),    *)
(* they have arrived ("full"), they were lost ("lost"), or the server finds*)
(* the connection ended without them ("cut").                              *)
Connection(p, by) == [packet |-> p, by |-> by, bytes |-> "part"]

Init ==
  /\ value \in [Meter -> Values]
  /\ mask \in [Pairs -> Field]
  /\ launched = [i \in Meter |-> 0]
  /\ passed = {} /\ lost = {}
  /\ foreign = 0
  /\ queue = <<>>
  /\ server = "poll" /\ client = <<>> /\ expired = FALSE
  /\ seen = {}
  /\ received = 0 /\ duplicates = 0 /\ invalid = 0 /\ timed_out = FALSE
  /\ aggregate = 0

-----------------------------------------------------------------------------
(* The other ends.                                                         *)

(* While the backlog is full connect is tried again and again.             *)
Arrive(p, by) ==
  Len(queue) < Backlog /\ queue' = Append(queue, Connection(p, by))

(* A meter of this run connects.  Nothing is sent yet.                     *)
Launch(i) ==
  /\ server # "done" /\ launched[i] < MaxLaunches
  /\ launched' = [launched EXCEPT ![i] = @ + 1]
  /\ Arrive(Submission(i), {<<i, launched[i] + 1>>})
  /\ UNCHANGED <<run, passed, lost, foreign, server, client, expired, seen,
                 timed_out, counters>>

ForeignConnects ==
  /\ server # "done" /\ foreign < MaxForeign
  /\ foreign' = foreign + 1
  /\ \E p \in ForeignPackets : Arrive(p, {})
  /\ UNCHANGED <<run, passed, lost, launched, server, client, expired, seen,
                 timed_out, counters>>

(* The bytes of one connection, queued or accepted, go from one state to   *)
(* another; `passed' and `lost' record it of a meter of this run.          *)
Record(c, to) ==
  /\ passed' = IF to = "sent" THEN passed \cup c.by ELSE passed
  /\ lost' = IF to = "lost" THEN lost \cup c.by ELSE lost

Becomes(from, to) ==
  /\ \/ \E k \in DOMAIN queue :
          /\ queue[k].bytes = from
          /\ queue' = [queue EXCEPT ![k].bytes = to]
          /\ Record(queue[k], to)
          /\ UNCHANGED client
     \/ /\ server = "recv" /\ client.bytes = from
        /\ client' = [client EXCEPT !.bytes = to]
        /\ Record(client, to)
        /\ UNCHANGED queue
  /\ UNCHANGED <<run, launched, foreign, server, expired, seen, timed_out,
                 counters>>

(* send_full completes when the local kernel has taken the bytes: the meter*)
(* closes its socket and prints STATUS=PASS.                               *)
Sends == Becomes("part", "sent")

(* The kernels get them to the server's host; or the meter's host loses    *)
(* power or its link, or the server's accept queue overflows, before they  *)
(* do.                                                                     *)
Arrives == Becomes("sent", "full")
Loses == Becomes("sent", "lost")

(* The process is killed before it has sent, or the loss is noticed: the   *)
(* connection ends.  It may as well never be noticed.                      *)
Breaks == Becomes("part", "cut") \/ Becomes("lost", "cut")

Without(q, k) == SubSeq(q, 1, k - 1) \o SubSeq(q, k + 1, Len(q))

(* A connection that the server's kernel has dropped is never accepted.    *)
Vanishes ==
  /\ \E k \in DOMAIN queue :
       /\ queue[k].bytes \in {"lost", "cut"}
       /\ queue' = Without(queue, k)
  /\ UNCHANGED <<run, passed, lost, launched, foreign, server, client, expired,
                 seen, timed_out, counters>>

-----------------------------------------------------------------------------
(* The server's loop.                                                      *)

Expire ==
  /\ ~expired /\ server # "done"
  /\ expired' = TRUE
  /\ UNCHANGED <<run, passed, lost, launched, foreign, queue, server, client, seen,
                 timed_out, counters>>

(* The loop ends: the sockets are closed, and what is queued is lost.      *)
EndLoop(t) ==
  /\ server' = "done"
  /\ timed_out' = t
  /\ queue' = <<>>
  /\ UNCHANGED <<run, passed, lost, launched, foreign, client, expired, seen, counters>>

(* Mutant: poll() waits without regard to the deadline.                    *)
NoTimeOut == FALSE

(* left <= 0, or poll() returns 0 because nothing came in the time left.   *)
TimesOut == server = "poll" /\ received < N /\ expired /\ EndLoop(TRUE)

CountedAll == server = "poll" /\ received = N /\ EndLoop(FALSE)

(* poll() fails with something else than EINTR.                            *)
PollFails == server = "poll" /\ received < N /\ EndLoop(FALSE)

Accept ==
  /\ server = "poll" /\ received < N /\ ~expired /\ queue # <<>>
  /\ client' = Head(queue)
  /\ queue' = Tail(queue)
  /\ server' = "recv"
  /\ UNCHANGED <<run, passed, lost, launched, foreign, expired, seen, timed_out, counters>>

(* accept() fails: the connection was aborted while it was queued.         *)
AcceptFails ==
  /\ server = "poll" /\ received < N /\ ~expired /\ queue # <<>>
  /\ Head(queue).bytes = "cut"
  /\ queue' = Tail(queue)
  /\ invalid' = invalid + 1
  /\ UNCHANGED <<run, passed, lost, launched, foreign, server, client, expired, seen,
                 received, duplicates, timed_out, aggregate>>

(* Mutant: ids are compared with n - 1.                                    *)
AcceptableButLast(p) ==
  /\ p.format /\ p.id + 1 < N /\ p.masked_value < P
  /\ CheckTestId => p.test_id = "this"

(* Mutant: the test id of the packet is not compared.                      *)
AcceptableAnyRun(p) ==
  p.format /\ p.id < N /\ p.masked_value < P

(* Mutant: the id of the packet is not compared with n.                    *)
AcceptableAnyId(p) ==
  /\ p.format /\ p.masked_value < P
  /\ CheckTestId => p.test_id = "this"

Acceptable(p) ==
  /\ p.format /\ p.id < N /\ p.masked_value < P
  /\ CheckTestId => p.test_id = "this"

Close ==
  /\ server' = "poll" /\ client' = <<>>
  /\ UNCHANGED <<run, passed, lost, launched, foreign, queue, expired, timed_out>>

(* The connection ends short, or the packet is not an acceptable one.      *)
Reject ==
  /\ server = "recv"
  /\ \/ client.bytes = "cut"
     \/ client.bytes = "full" /\ ~Acceptable(client.packet)
  /\ invalid' = invalid + 1
  /\ Close
  /\ UNCHANGED <<seen, received, duplicates, aggregate>>

Duplicate ==
  /\ server = "recv" /\ client.bytes = "full" /\ Acceptable(client.packet)
  /\ client.packet.id \in seen
  /\ duplicates' = duplicates + 1
  /\ Close
  /\ UNCHANGED <<seen, received, invalid, aggregate>>

(* Mutant: a submission of an id already seen is counted again.            *)
CountAgain ==
  /\ server = "recv" /\ client.bytes = "full" /\ Acceptable(client.packet)
  /\ seen' = seen \cup {client.packet.id}
  /\ received' = received + 1
  /\ aggregate' = U64(aggregate + client.packet.masked_value) % P
  /\ Close
  /\ UNCHANGED <<duplicates, invalid>>

Count ==
  /\ server = "recv" /\ client.bytes = "full" /\ Acceptable(client.packet)
  /\ client.packet.id \notin seen
  /\ seen' = seen \cup {client.packet.id}
  /\ received' = received + 1
  /\ aggregate' = U64(aggregate + client.packet.masked_value) % P
  /\ Close
  /\ UNCHANGED <<duplicates, invalid>>

Server ==
  TimesOut \/ CountedAll \/ Accept \/ Reject \/ Duplicate \/ Count
Others ==
  \/ (\E i \in Meter : Launch(i)) \/ ForeignConnects
  \/ Sends \/ Arrives \/ Loses \/ Breaks \/ Vanishes
Next == Server \/ PollFails \/ AcceptFails \/ Expire \/ Others
Spec == Init /\ [][Next]_vars

(* The server runs, and time passes.                                       *)
FairServerSpec == Spec /\ WF_vars(Server) /\ WF_vars(Expire)

(* Moreover whoever connects gets its packet through, or the server is told*)
(* that the connection has ended.                                          *)
FairSpec == FairServerSpec /\ WF_vars(Sends \/ Arrives \/ Breaks)

-----------------------------------------------------------------------------
(* What the harness passes as --expected (run_secure_agg_suite_pc5.sh:     *)
(* 84-88): the plain sum of the values.                                    *)
expected_raw ==
  LET sum[k \in 0 .. N] == IF k = 0 THEN 0 ELSE sum[k - 1] + value[k - 1]
  IN  sum[N]

(* The verdict the server prints and exits with.                           *)
Passes == received = N /\ aggregate = expected_raw % P

TypeOK ==
  /\ value \in [Meter -> Field] /\ mask \in [Pairs -> Field]
  /\ launched \in [Meter -> 0 .. MaxLaunches]
  /\ passed \cup lost \subseteq Meter \X (1 .. MaxLaunches)
  /\ foreign \in 0 .. MaxForeign
  /\ server \in {"poll", "recv", "done"}
  /\ expired \in BOOLEAN /\ timed_out \in BOOLEAN
  /\ seen \subseteq Meter
  /\ received \in 0 .. N /\ duplicates \in Nat /\ invalid \in Nat
  /\ aggregate \in Field

(* The aggregate is at any time the sum of exactly one submission of this  *)
(* run for every id seen, whatever duplicates, stale packets and foreign   *)
(* ones came between (secure_agg_server.c:229-248).                        *)
AggregateOfSeen ==
  aggregate = FieldFold(0, [i \in Meter |-> IF i \in seen THEN masked_value(i)
                                                         ELSE 0], N)

(* Once all are counted the masks have cancelled: the server prints PASS   *)
(* whatever the masks are and in whatever order the meters came            *)
(* (secure_agg_meter.c:42-59, secure_agg_server.c:264-265).                *)
AllCountedPasses == (server = "done" /\ seen = Meter) => Passes

(* The server keeps a Tally: no duplicate counts, PASS is said when all    *)
(* meters are counted and their masks have cancelled, and never before,    *)
(* not even when a partial aggregate is right by chance                    *)
(* (secure_agg_server.c:239-248, 264-265).                                 *)
ServersTally == INSTANCE Tally WITH
  Member <- Meter,
  counted <- seen,
  verdict <- IF server # "done" THEN "none" ELSE IF Passes THEN "PASS" ELSE "FAIL",
  late <- timed_out
ImplementsTally == ServersTally!Spec

OnItsWay(s, c) == s \in c.by /\ c.bytes \in {"sent", "full"}

(* While the server runs, what a process means by STATUS=PASS is true: its *)
(* meter has been counted, or its packet is still on its way through the   *)
(* network and the backlog, whatever was rejected, duplicated or cut off   *)
(* around it; unless the packet was lost before it arrived, which the meter*)
(* never learns (secure_agg_meter.c:233-253, secure_agg_server.c:210-258). *)
SubmissionsNotLost ==
  server # "done" =>
    \A s \in passed \ lost :
      \/ s[1] \in seen
      \/ \E k \in DOMAIN queue : OnItsWay(s, queue[k])
      \/ server = "recv" /\ OnItsWay(s, client)

(* "Wait for the next connection, honoring the overall deadline.  A        *)
(* dropped client can no longer hang the server forever."                  *)
(* (secure_agg_server.c:184-185)                                           *)
ServerEnds == <>(server = "done")
=============================================================================
