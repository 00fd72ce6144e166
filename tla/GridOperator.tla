---------------------------- MODULE GridOperator ----------------------------
(***************************************************************************)
(* The operator variant of mpc_c_lib: N meters (test_uc1.c) exchange their *)
(* shares and send their partial sums to the grid operator                 *)
(* (test_operator.c), the only one to learn the sum.                       *)
(*                                                                         *)
(* Neither program looks at the result of a send or a receive of its       *)
(* protocol: a receive that failed leaves whatever the variable held.      *)
(* Meters may be killed and, the operator still waiting, started again.    *)
(*                                                                         *)
(* A share is abstracted to the run of the meters that it was split in, a  *)
(* partial sum to the run of every share in it, and a word that was never  *)
(* received to 0.  Shares of one run add up to the inputs and no others do *)
(* but by chance.                                                          *)
(***************************************************************************)
EXTENDS Integers, Sequences

CONSTANTS
  N,        \* the number of meters
  MaxRuns,  \* bound: how often the meters are started
  MaxFails  \* bound: killed meters and timeouts on others

Meter == 0 .. (N - 1)
Run == 1 .. MaxRuns
Sum == [Meter -> Run \cup {0}]     \* what a received partial sum stands for
Garbage == [q \in Meter |-> 0]
None == <<>>

VARIABLES
  faulty,     \* whether anything fails in this behaviour
  fails,      \* how many meters were killed and timeouts on others happened
  run,        \* how often the meters were started
  at,         \* where in main a meter is
  peer,       \* j of its loop over the other meters, its own id skipped
  sent,       \* <<p, q>>: a share of p that q has not read
  received,   \* the run of the share received from each meter, 0 if none was
  queue,      \* the backlog of the operator's listening socket
  operator,   \* "off", in "accept", in "recv", or "done"
  i,          \* the operator's loop index
  cfd,        \* the connection it accepted
  partials,   \* partials[], None where received_from[] is 0
  ignored     \* whether a failed receive was taken for one that succeeded

fault == <<faulty, fails>>
meters == <<run, at, peer, sent, received>>
operators == <<operator, i, cfd, partials>>
vars == <<faulty, fails, run, at, peer, sent, received, queue, operator, i, cfd,
          partials, ignored>>

-----------------------------------------------------------------------------
Init ==
  /\ faulty \in BOOLEAN /\ fails = 0
  /\ run = 1
  /\ at = [p \in Meter |-> "off"]
  /\ peer = [p \in Meter |-> 0]
  /\ sent = {}
  /\ received = [p \in Meter |-> Garbage]
  /\ queue = <<>>
  /\ operator = "off" /\ i = 0 /\ cfd = None
  /\ partials = [p \in Meter |-> None]
  /\ ignored = FALSE

FirstPeer(p) == IF p = 0 THEN 1 ELSE 0
NextPeer(p) == IF peer[p] + 1 = p THEN p + 1 ELSE peer[p] + 1

Goto(p, there) == at' = [at EXCEPT ![p] = there]

(* The end of an iteration, and after the last one what follows the loop.  *)
Advance(p, then) ==
  IF NextPeer(p) < N
  THEN peer' = [peer EXCEPT ![p] = NextPeer(p)] /\ UNCHANGED at
  ELSE peer' = [peer EXCEPT ![p] = FirstPeer(p)] /\ Goto(p, then)

-----------------------------------------------------------------------------
(* A meter.                                                                *)

Start(p) ==
  /\ at[p] = "off" /\ Goto(p, "init")
  /\ UNCHANGED <<fault, run, peer, sent, received, queue, operators, ignored>>

(* Mutant: the own share is not kept.                                      *)
InitReturnsWithoutOwn(p, first) ==
  /\ at[p] = "init" /\ \A q \in Meter : at[q] # "off"
  /\ Goto(p, first)
  /\ peer' = [peer EXCEPT ![p] = FirstPeer(p)]
  /\ UNCHANGED <<fault, run, sent, received, queue, operators, ignored>>

(* comm_init returns when all meters have been started (StartupBarrier of  *)
(* CommInit); share_split follows and the own share is kept.               *)
InitReturns(p, first) ==
  /\ at[p] = "init" /\ \A q \in Meter : at[q] # "off"
  /\ Goto(p, first)
  /\ peer' = [peer EXCEPT ![p] = FirstPeer(p)]
  /\ received' = [received EXCEPT ![p][p] = run]
  /\ UNCHANGED <<fault, run, sent, queue, operators, ignored>>

(* comm_send.  A meter that is gone or has closed reads it no more.        *)
SendShare(p, then) ==
  /\ at[p] = "send"
  /\ sent' = IF at[peer[p]] \in {"init", "send", "recv"}
             THEN sent \cup {<<p, peer[p]>>} ELSE sent
  /\ Advance(p, then)
  /\ UNCHANGED <<fault, run, received, queue, operators, ignored>>

RecvShare(p, then) ==
  /\ at[p] = "recv" /\ <<peer[p], p>> \in sent
  /\ sent' = sent \ {<<peer[p], p>>}
  /\ received' = [received EXCEPT ![p][peer[p]] = run]
  /\ Advance(p, then)
  /\ UNCHANGED <<fault, run, queue, operators, ignored>>

Fails == faulty /\ fails < MaxFails /\ fails' = fails + 1 /\ UNCHANGED faulty

(* comm_recv returns -1: nothing came within MPC_RECV_TIMEOUT, or the peer *)
(* has closed or died, which may also drop what it had sent.               *)
RecvFails(p, then) ==
  /\ at[p] = "recv"
  /\ IF at[peer[p]] = "dead" THEN UNCHANGED fault ELSE Fails
  /\ <<peer[p], p>> \in sent => at[peer[p]] \notin {"send", "recv"}
  /\ sent' = sent \ {<<peer[p], p>>}
  /\ ignored' = TRUE
  /\ Advance(p, then)
  /\ UNCHANGED <<run, received, queue, operators>>

(* comm_close and the partial sum; then connect_to_operator retries until  *)
(* the operator listens.  Nothing is sent yet.                             *)
Connect(p, listening) ==
  /\ at[p] = "connect" /\ listening
  /\ queue' = Append(queue, [from |-> p, run |-> run, sum |-> received[p],
                             words |-> 0])
  /\ Goto(p, "report")
  /\ UNCHANGED <<fault, run, peer, sent, received, operators, ignored>>

Mine(p, c) == c # None /\ c.from = p /\ c.run = run
Deliver(p, k) ==
  /\ queue' = [x \in DOMAIN queue |->
                 IF Mine(p, queue[x]) THEN [queue[x] EXCEPT !.words = k]
                 ELSE queue[x]]
  /\ cfd' = IF Mine(p, cfd) THEN [cfd EXCEPT !.words = k] ELSE cfd

(* The id and the partial sum are sent and the connection is closed; if    *)
(* the operator has closed it before, nobody hears of that.                *)
Report(p) ==
  /\ at[p] = "report" /\ Deliver(p, 2) /\ Goto(p, "done")
  /\ UNCHANGED <<fault, run, peer, sent, received, operator, i, partials,
                 ignored>>

(* A meter is killed; of its report at most the first word is through.     *)
Crash(p) ==
  /\ Fails /\ at[p] \notin {"off", "done", "dead"}
  /\ IF at[p] = "report" THEN \E k \in {0, 1} : Deliver(p, k)
                         ELSE UNCHANGED <<queue, cfd>>
  /\ sent' = {m \in sent : m[2] # p}
  /\ Goto(p, "dead")
  /\ UNCHANGED <<run, peer, received, operator, i, partials, ignored>>

(* All meters are started again, with the operator still waiting.          *)
Restart ==
  /\ run < MaxRuns /\ operator # "done"
  /\ \A p \in Meter : at[p] \in {"done", "dead"}
  /\ \E p \in Meter : at[p] = "dead"
  /\ run' = run + 1
  /\ at' = [p \in Meter |-> "off"]
  /\ peer' = [p \in Meter |-> 0]
  /\ sent' = {}
  /\ received' = [p \in Meter |-> Garbage]
  /\ UNCHANGED <<fault, queue, operators, ignored>>

-----------------------------------------------------------------------------
(* The operator.                                                           *)

Listening == operator \in {"accept", "recv"}

Listen ==
  /\ operator = "off" /\ operator' = "accept"
  /\ UNCHANGED <<fault, meters, queue, i, cfd, partials, ignored>>

(* Mutant: the loop does not end at n.                                     *)
AcceptAnyMore ==
  /\ operator = "accept" /\ queue # <<>>
  /\ cfd' = Head(queue) /\ queue' = Tail(queue)
  /\ operator' = "recv"
  /\ UNCHANGED <<fault, meters, i, partials, ignored>>

Accept ==
  /\ operator = "accept" /\ i < N /\ queue # <<>>
  /\ cfd' = Head(queue) /\ queue' = Tail(queue)
  /\ operator' = "recv"
  /\ UNCHANGED <<fault, meters, i, partials, ignored>>

Open(c) == c.run = run /\ at[c.from] = "report"
Whole(c) == c.words = 2
CutOff(c) == c.words < 2 /\ ~Open(c)

(* What the iteration does with an id and a partial sum, read or not.      *)
Take(id, sum) ==
  /\ operator' = "accept" /\ cfd' = None
  /\ IF id \in Meter
     THEN partials' = [partials EXCEPT ![id] = sum] /\ i' = i + 1
     ELSE UNCHANGED <<partials, i>>
  /\ UNCHANGED <<fault, meters, queue>>

TakeReport ==
  /\ operator = "recv" /\ Whole(cfd) /\ Take(cfd.from, cfd.sum)
  /\ UNCHANGED ignored

(* The connection ended before both words were read: what is missing of    *)
(* them is what the memory held, for the id any number (N: one that is     *)
(* refused).                                                               *)
TakeGarbage ==
  /\ operator = "recv" /\ CutOff(cfd)
  /\ \E id \in IF cfd.words = 1 THEN {cfd.from} ELSE 0 .. N :
       /\ Take(id, Garbage)
       /\ ignored' = (ignored \/ id \in Meter)

(* The operator prints the sum, or the first meter it has not heard of.    *)
Finish ==
  /\ operator = "accept" /\ i = N
  /\ operator' = "done" /\ queue' = <<>>
  /\ UNCHANGED <<fault, meters, i, cfd, partials, ignored>>

-----------------------------------------------------------------------------
(* Mutant: the meters receive all shares before they send any.             *)
MeterRecvFirst(p) ==
  \/ Start(p) \/ InitReturns(p, "recv") \/ RecvShare(p, "send")
  \/ SendShare(p, "connect") \/ Connect(p, Listening) \/ Report(p)

(* "Send all shares first (4 bytes each -- fits in TCP buffer, no          *)
(* deadlock) then receive all."                                            *)
MeterStep(p) ==
  \/ Start(p) \/ InitReturns(p, "send") \/ SendShare(p, "recv")
  \/ RecvShare(p, "connect") \/ Connect(p, Listening) \/ Report(p)

OperatorStep == Listen \/ Accept \/ TakeReport \/ Finish
Failure ==
  \/ \E p \in Meter : RecvFails(p, "connect") \/ Crash(p)
  \/ TakeGarbage \/ Restart
Next == (\E p \in Meter : MeterStep(p)) \/ OperatorStep \/ Failure

-----------------------------------------------------------------------------
TypeOK ==
  /\ faulty \in BOOLEAN /\ fails \in 0 .. MaxFails /\ run \in Run
  /\ at \in [Meter -> {"off", "init", "send", "recv", "connect", "report",
                       "done", "dead"}]
  /\ peer \in [Meter -> 0 .. N]
  /\ sent \subseteq Meter \X Meter
  /\ received \in [Meter -> Sum]
  /\ operator \in {"off", "accept", "recv", "done"} /\ i \in 0 .. N
  /\ partials \in [Meter -> Sum \cup {None}] /\ ignored \in BOOLEAN

Heard(p) == partials[p] # None
Printed == operator = "done" /\ \A p \in Meter : Heard(p)
OfOneRun == \A p, q \in Meter : partials[p][p] = partials[q][q]
RightSum == \A p, q \in Meter : partials[p][q] = partials[0][0]

(* The operator prints a wrong aggregate only if one of the receives whose *)
(* result nobody looks at failed (test_operator.c:87-88, test_uc1.c:99) or *)
(* the meters were started again under it: with neither, the sum is right, *)
(* and no meter is reported missing.                                       *)
WrongOnlyIfIgnored ==
  (operator = "done" /\ ~ignored) =>
     /\ Printed \/ run > 1
     /\ Printed /\ OfOneRun => RightSum
=============================================================================
