----------------------------- MODULE MpcRunner ------------------------------
(***************************************************************************)
(* The all-party secure sum of mpc_run_from_config (mpc_runner.c), from    *)
(* the return of comm_init to the return of the function, in N processes   *)
(* joined by one TCP connection per pair.                                  *)
(*                                                                         *)
(* Every party splits its value in N shares (round 0), exchanges shares    *)
(* with the others in id order (round 1), adds up what it got, exchanges   *)
(* partial sums in the same order (round 2) and adds those up.  In one     *)
(* exchange the lower id sends first.  The four bytes of a message carry   *)
(* no round, so only the order of the exchanges tells a share from a       *)
(* partial sum.                                                            *)
(*                                                                         *)
(* A process may fail at any point: a send or a receive returns an error,  *)
(* the receive times out, SIGPIPE or a power cut kills it.  The messages   *)
(* that a failed process had in flight may be lost with it.                *)
(***************************************************************************)
EXTENDS MpcField, Sequences

CONSTANT N      \* the number of parties, the result of load_cluster_config

ASSUME PartiesAssumption == N \in Nat \ {0}

Party == 0 .. (N - 1)
Failed == {"MPC_ERR_SEND", "MPC_ERR_RECV", "killed"}

VARIABLES
  value,      \* my_value of each party
  shares,     \* my_shares
  received,   \* received
  partial,    \* partial
  aggregate,  \* final_aggregate
  round,      \* 0 before share_split, then the exchange loop the party is in
  peer,       \* that loop's j, with the party's own id skipped
  half,       \* 0 before the first call of the iteration, 1 between the two
  status,     \* "running", the status returned, or "killed" by a signal
  chan        \* chan[p][q]: messages p has sent and q has not received

data == <<value, shares, received, partial, aggregate>>
control == <<round, peer, half>>
vars == <<value, shares, received, partial, aggregate,
          round, peer, half, status, chan>>

-----------------------------------------------------------------------------
(* The loop index: j runs over 0 .. N-1 without the party's own id.        *)
FirstPeer(p) == IF p = 0 THEN 1 ELSE 0
NextPeer(p, j) == IF j + 1 = p THEN j + 2 ELSE j + 1

Running(p) == status[p] = "running"
InExchange(p) == Running(p) /\ round[p] \in {1, 2} /\ peer[p] < N

(* Mutants: both parties send first; both receive first.                   *)
BothSendFirst(p) == InExchange(p) /\ half[p] = 0
BothRecvFirst(p) == InExchange(p) /\ half[p] = 1

(* The party with the lower id sends in the first half of the iteration.   *)
SendTurn(p) == InExchange(p) /\ (half[p] = 0 <=> p < peer[p])
RecvTurn(p) == InExchange(p) /\ ~SendTurn(p)

Payload(p, q, r) == IF r = 1 THEN shares[p][q] ELSE partial[p]

NextCall(p) ==
  /\ half' = [half EXCEPT ![p] = 1 - @]
  /\ peer' = IF half[p] = 0 THEN peer
             ELSE [peer EXCEPT ![p] = NextPeer(p, @)]
  /\ round' = round

(* The party stops; the kernel closes its sockets and frees what it had    *)
(* not read.                                                               *)
Stop(p, s) ==
  /\ status' = [status EXCEPT ![p] = s]
  /\ chan' = [i \in Party |-> [chan[i] EXCEPT ![p] = <<>>]]
  /\ UNCHANGED <<data, control>>

-----------------------------------------------------------------------------
Init ==
  /\ value \in [Party -> Field]
  /\ shares = [p \in Party |-> [j \in Party |-> 0]]
  /\ received = [p \in Party |-> [j \in Party |-> 0]]
  /\ partial = [p \in Party |-> 0]
  /\ aggregate = [p \in Party |-> 0]
  /\ round = [p \in Party |-> 0]
  /\ peer = [p \in Party |-> FirstPeer(p)]
  /\ half = [p \in Party |-> 0]
  /\ status = [p \in Party |-> "running"]
  /\ chan = [p \in Party |-> [q \in Party |-> <<>>]]

SplitShares(p) ==
  /\ Running(p) /\ round[p] = 0
  /\ \E rand \in [0 .. (N - 2) -> Field] :
       shares' = [shares EXCEPT ![p] = share_split(value[p], rand, N)]
  /\ round' = [round EXCEPT ![p] = 1]
  /\ UNCHANGED <<value, received, partial, aggregate, peer, half, status, chan>>

(* comm_send succeeds: the kernel took the bytes.  If the peer has stopped *)
(* nobody will read them.                                                  *)
Send(p) ==
  /\ SendTurn(p)
  /\ NextCall(p)
  /\ chan' = IF Running(peer[p])
             THEN [chan EXCEPT ![p][peer[p]] =
                     Append(@, Payload(p, peer[p], round[p]))]
             ELSE chan
  /\ UNCHANGED <<data, status>>

(* comm_recv returns a message, which goes to received[j] in round 1 and   *)
(* into final_aggregate in round 2.                                        *)
Recv(p) ==
  /\ RecvTurn(p)
  /\ chan[peer[p]][p] # <<>>
  /\ LET m == Head(chan[peer[p]][p])
     IN  IF round[p] = 1
         THEN /\ received' = [received EXCEPT ![p][peer[p]] = m]
              /\ UNCHANGED aggregate
         ELSE /\ aggregate' = [aggregate EXCEPT ![p] = field_add(@, m)]
              /\ UNCHANGED received
  /\ chan' = [chan EXCEPT ![peer[p]][p] = Tail(@)]
  /\ NextCall(p)
  /\ UNCHANGED <<value, shares, partial, status>>

(* Mutant: the sum starts from 0, not from the share the party kept.       *)
PartialSumWithoutOwn(p) == FieldFold(0, received[p], N)

PartialSum(p) ==
  FieldFold(shares[p][p],
            [j \in Party |-> IF j = p THEN 0 ELSE received[p][j]], N)

(* Mutant: the loop of round 1 ends one peer early.                        *)
ComputePartialEarly(p) ==
  /\ Running(p) /\ round[p] = 1 /\ peer[p] >= N - 1 /\ half[p] = 0
  /\ partial' = [partial EXCEPT ![p] = PartialSum(p)]
  /\ aggregate' = [aggregate EXCEPT ![p] = PartialSum(p)]
  /\ round' = [round EXCEPT ![p] = 2]
  /\ peer' = [peer EXCEPT ![p] = FirstPeer(p)]
  /\ UNCHANGED <<value, shares, received, half, status, chan>>

ComputePartial(p) ==
  /\ Running(p) /\ round[p] = 1 /\ peer[p] = N
  /\ partial' = [partial EXCEPT ![p] = PartialSum(p)]
  /\ aggregate' = [aggregate EXCEPT ![p] = PartialSum(p)]
  /\ round' = [round EXCEPT ![p] = 2]
  /\ peer' = [peer EXCEPT ![p] = FirstPeer(p)]
  /\ UNCHANGED <<value, shares, received, half, status, chan>>

(* Mutant: the loop of round 2 ends one peer early.                        *)
FinishEarly(p) ==
  /\ Running(p) /\ round[p] = 2 /\ peer[p] >= N - 1 /\ half[p] = 0
  /\ Stop(p, "MPC_OK")

Finish(p) ==
  /\ Running(p) /\ round[p] = 2 /\ peer[p] = N
  /\ Stop(p, "MPC_OK")

-----------------------------------------------------------------------------
(* Failures.                                                               *)

(* send() or recv() returns an error, poll() fails, or the peer closed.    *)
SendFails(p) == SendTurn(p) /\ Stop(p, "MPC_ERR_SEND")
RecvFails(p) == RecvTurn(p) /\ Stop(p, "MPC_ERR_RECV")

(* Mutant: poll() without a timeout, comm_recv waits on.                   *)
NoTimeout(p) == FALSE

(* poll() returns 0: no byte came for MPC_RECV_TIMEOUT.                    *)
Timeout(p) ==
  /\ RecvTurn(p) /\ chan[peer[p]][p] = <<>>
  /\ Stop(p, "MPC_ERR_RECV")

(* SIGPIPE on a send to a peer that is gone (no MSG_NOSIGNAL, no handler), *)
(* or the process is killed from outside or loses power.                   *)
Crash(p) == Running(p) /\ Stop(p, "killed")

(* The connections of a failed process are reset, which can drop the last  *)
(* bytes it sent.                                                          *)
LoseTail(p, q) ==
  /\ status[p] \in Failed /\ chan[p][q] # <<>>
  /\ chan' = [chan EXCEPT ![p][q] = SubSeq(@, 1, Len(@) - 1)]
  /\ UNCHANGED <<data, control, status>>

-----------------------------------------------------------------------------
Step(p) ==
  SplitShares(p) \/ Send(p) \/ Recv(p) \/ ComputePartial(p) \/ Finish(p)

Fault(p) ==
  \/ SendFails(p) \/ RecvFails(p) \/ Timeout(p) \/ Crash(p)
  \/ \E q \in Party : LoseTail(p, q)

(* All parties have returned or died.                                      *)
Terminated == \A p \in Party : ~Running(p)
Done == Terminated /\ UNCHANGED vars

Next == (\E p \in Party : Step(p) \/ Fault(p)) \/ Done
Spec == Init /\ [][Next]_vars

-----------------------------------------------------------------------------
(* How many messages p has sent to q, and received from q.                 *)
Exchanged(p, q, sendsFirst) ==
  IF round[p] = 0 THEN 0
  ELSE round[p] - 1 +
       (IF q < peer[p] \/ (q = peer[p] /\ half[p] = 1 /\ sendsFirst)
        THEN 1 ELSE 0)
Sent(p, q) == Exchanged(p, q, p < q)
Received(p, q) == Exchanged(p, q, q < p)

TypeOK ==
  /\ value \in [Party -> Field]
  /\ shares \in [Party -> [Party -> Field]]
  /\ received \in [Party -> [Party -> Field]]
  /\ partial \in [Party -> Field]
  /\ aggregate \in [Party -> Field]
  /\ round \in [Party -> 0 .. 2]
  /\ peer \in [Party -> 0 .. N]
  /\ half \in [Party -> {0, 1}]
  /\ status \in [Party -> {"running", "MPC_OK"} \cup Failed]
  /\ chan \in [Party -> [Party -> Seq(Field)]]

(* The value the parties compute: the sum of all inputs in the field.      *)
Total == FieldFold(0, value, N)

(* Whatever fails, a party that returns MPC_OK returns the sum of all      *)
(* inputs: global_aggregate is never a wrong number, and two parties that  *)
(* succeed agree (mpc_runner.c:359-380).                                   *)
AggregateCorrect == \A p \in Party : status[p] = "MPC_OK" => aggregate[p] = Total

(* A message is taken for what it is although it carries no tag: what p    *)
(* reads from q in round 1 is q's share for p, and in round 2 q's partial  *)
(* sum (mpc_runner.c:279-297, 331-349).                                    *)
RoundsNeverMix ==
  \A p \in Party :
    (RecvTurn(p) /\ chan[peer[p]][p] # <<>>) =>
       /\ round[peer[p]] >= round[p]
       /\ Head(chan[peer[p]][p]) = Payload(peer[p], p, round[p])

(* "The party with the LOWER id always sends first" (mpc_comm.h:15-17)     *)
(* keeps two parties in step: no connection ever holds more than one       *)
(* unread message, whatever the others do, so no send needs more buffer    *)
(* than one message to return.                                             *)
OneMessageInFlight == \A p, q \in Party : Len(chan[p][q]) <= 1

(* A party succeeds only if every other party got as far as sending it a   *)
(* partial sum, so no failure before that can go unnoticed.                *)
SuccessNeedsAll ==
  \A p, q \in Party :
    (p # q /\ status[p] = "MPC_OK") => round[q] = 2 /\ Sent(q, p) = 2

(* The protocol implements SecureSum: nobody contributes before everybody  *)
(* has joined, and every result delivered is the sum of all inputs.        *)
Sum == INSTANCE SecureSum WITH
  input <- value,
  stage <- round,
  outcome <- [p \in Party |->
                CASE status[p] = "running" -> "none"
                  [] status[p] = "MPC_OK" -> "ok"
                  [] OTHER -> "failed"],
  output <- [p \in Party |-> IF status[p] = "MPC_OK" THEN aggregate[p] ELSE 0]
ImplementsSecureSum == Sum!Spec

-----------------------------------------------------------------------------
(* Why the safety properties hold, as an inductive invariant.              *)

(* The loop index is never the party's own id, and a call is in its second *)
(* half only inside an exchange.                                           *)
LoopInv ==
  \A p \in Party :
    /\ peer[p] # p
    /\ half[p] = 1 => peer[p] < N
    /\ round[p] = 0 => peer[p] = FirstPeer(p) /\ half[p] = 0
    /\ status[p] = "MPC_OK" => round[p] = 2 /\ peer[p] = N

(* Nobody receives what was not sent, and a connection is empty or holds   *)
(* the one message that was sent and not received.                         *)
ChannelInv ==
  \A p, q \in Party :
    /\ p # q => Received(q, p) <= Sent(p, q)
    /\ chan[p][q] # <<>> =>
         /\ p # q
         /\ Running(q)
         /\ Sent(p, q) = Received(q, p) + 1
         /\ chan[p][q] = <<Payload(p, q, Sent(p, q))>>

(* The shares of an input add up to it.                                    *)
SharesInv ==
  \A p \in Party : round[p] >= 1 => share_reconstruct(shares[p], N) = value[p]

(* What was received in round 1 is what the sender split.                  *)
ReceivedInv ==
  \A p, q \in Party :
    (p # q /\ Received(p, q) >= 1) => received[p][q] = shares[q][p]

(* A partial sum is the sum of the shares meant for the party.             *)
PartialInv ==
  \A p \in Party :
    round[p] = 2 =>
      partial[p] = FieldFold(0, [j \in Party |-> shares[j][p]], N)

(* The running aggregate is the sum of the partial sums received so far.   *)
AggregateInv ==
  \A p \in Party :
    round[p] = 2 =>
      aggregate[p] =
        FieldFold(0, [j \in Party |->
                        IF j = p \/ Received(p, j) = 2 THEN partial[j] ELSE 0], N)

IInv ==
  /\ TypeOK
  /\ LoopInv
  /\ ChannelInv
  /\ SharesInv
  /\ ReceivedInv
  /\ PartialInv
  /\ AggregateInv

-----------------------------------------------------------------------------
(* What main returns for the status of mpc_run_from_config                 *)
(* (meter_node.c:113-116, bench_mpc.c:78-81).                              *)
ExitCode(s) == IF s = "MPC_OK" THEN 0 ELSE 1

(* "Returning a specific code (instead of a bare 1) lets the benchmark     *)
(* scripts classify a failure from the process exit code alone", and code  *)
(* 5 is for "recv timed out waiting for a peer" (mpc_status.h:7-8, 17): a  *)
(* process that ends because a receive timed out exits with 5.             *)
TimeoutExitCode == [][\A p \in Party : Timeout(p) => ExitCode(status'[p]) = 5]_vars
=============================================================================
