-------------------------- MODULE MpcRunner_proofs --------------------------
(***************************************************************************)
(* The safety of the all-party secure sum, proved for every number of      *)
(* parties, every field and every failure the model of MpcRunner has.      *)
(* Last comes RunnerTiming: no receive times out that should not.          *)
(***************************************************************************)
EXTENDS RunnerTiming, MpcField_proofs

-----------------------------------------------------------------------------
(* Stopping a party keeps the types.                                       *)
LEMMA StopType ==
  ASSUME TypeOK, NEW p \in Party, NEW s \in {"MPC_OK"} \cup Failed, Stop(p, s)
  PROVE  TypeOK'
<1>1. status' \in [Party -> {"running", "MPC_OK"} \cup Failed]
  BY DEF TypeOK, Stop
<1>2. chan' \in [Party -> [Party -> Seq(Field)]]
  <2>1. chan' = [i \in Party |-> [chan[i] EXCEPT ![p] = <<>>]]
    BY DEF Stop
  <2>2. <<>> \in Seq(Field)
    OBVIOUS
  <2>3. \A i \in Party : chan[i] \in [Party -> Seq(Field)]
    BY DEF TypeOK
  <2>4. \A i \in Party : [chan[i] EXCEPT ![p] = <<>>] \in [Party -> Seq(Field)]
    BY <2>2, <2>3
  <2>5. QED
    BY <2>1, <2>4
<1>3. QED
  BY <1>1, <1>2 DEF TypeOK, Stop, data, control

(* Inside an exchange the loop index is a party.                           *)
LEMMA PeerParty ==
  ASSUME TypeOK, NEW p \in Party, InExchange(p)
  PROVE  peer[p] \in Party /\ round[p] \in {1, 2} /\ Running(p)
<1>1. peer[p] \in 0 .. N /\ peer[p] < N
  BY DEF TypeOK, InExchange
<1>2. peer[p] \in Party
  BY ONLY <1>1, PartiesAssumption DEF Party
<1>3. QED
  BY <1>2 DEF InExchange

(* Going to the next call keeps the types of the control variables.        *)
LEMMA NextCallType ==
  ASSUME TypeOK, NEW p \in Party, InExchange(p), NextCall(p)
  PROVE  /\ round' \in [Party -> 0 .. 2]
         /\ peer' \in [Party -> 0 .. N]
         /\ half' \in [Party -> {0, 1}]
<1>1. N \in Nat \ {0}
  BY PartiesAssumption
<1>2. NextPeer(p, peer[p]) \in 0 .. N
  <2>1. peer[p] \in 0 .. N /\ peer[p] < N /\ p \in 0 .. (N - 1)
    BY DEF InExchange, TypeOK, Party
  <2>2. QED
    BY ONLY <1>1, <2>1 DEF NextPeer
<1>3. 1 - half[p] \in {0, 1}
  <2>1. half[p] \in {0, 1}
    BY DEF TypeOK
  <2>2. QED
    BY ONLY <2>1
<1>4. peer' \in [Party -> 0 .. N]
  BY <1>2 DEF NextCall, TypeOK
<1>5. half' \in [Party -> {0, 1}]
  BY <1>3 DEF NextCall, TypeOK
<1>6. QED
  BY <1>4, <1>5 DEF NextCall, TypeOK

(* A partial sum is a field element.                                       *)
LEMMA PartialSumType ==
  ASSUME TypeOK, NEW p \in Party
  PROVE  PartialSum(p) \in Field
<1> DEFINE f == [j \in Party |-> IF j = p THEN 0 ELSE received[p][j]]
<1>1. N \in Nat /\ shares[p][p] \in Field
  BY PartiesAssumption DEF TypeOK
<1>2. \A k \in Party : f[k] \in Field
  <2>1. 0 \in Field
    BY FieldAssumption DEF Field
  <2>2. \A k \in Party : received[p][k] \in Field
    BY DEF TypeOK
  <2>3. QED
    BY <2>1, <2>2
<1>3. FieldFold(shares[p][p], f, N) \in Field
  BY <1>1, <1>2, FoldType DEF Party
<1>4. QED
  BY <1>3 DEF PartialSum

LEMMA TypeInit == Init => TypeOK
<1> SUFFICES ASSUME Init PROVE TypeOK
  OBVIOUS
<1>1. 0 \in Field /\ <<>> \in Seq(Field)
  BY FieldAssumption DEF Field
<1>2. \A p \in Party : FirstPeer(p) \in 0 .. N
  BY PartiesAssumption DEF FirstPeer, Party
<1>3. QED
  BY <1>1, <1>2 DEF Init, TypeOK

(* One step per action.                                                    *)
LEMMA TypeNext == TypeOK /\ [Next]_vars => TypeOK'
<1> SUFFICES ASSUME TypeOK, [Next]_vars PROVE TypeOK'
  OBVIOUS
<1> USE DEF data, control
<1>1. ASSUME NEW p \in Party, SplitShares(p) PROVE TypeOK'
  <2>1. PICK rand \in [0 .. (N - 2) -> Field] :
          shares' = [shares EXCEPT ![p] = share_split(value[p], rand, N)]
    BY <1>1 DEF SplitShares
  <2>2. share_split(value[p], rand, N) \in [Party -> Field]
    BY SharesReconstruct, PartiesAssumption DEF TypeOK, Party
  <2>3. shares' \in [Party -> [Party -> Field]]
    BY <2>1, <2>2 DEF TypeOK
  <2>4. round' \in [Party -> 0 .. 2]
    BY <1>1 DEF SplitShares, TypeOK
  <2>5. QED
    BY <1>1, <2>3, <2>4 DEF SplitShares, TypeOK
<1>2. ASSUME NEW p \in Party, Send(p) PROVE TypeOK'
  <2>1. InExchange(p)
    BY <1>2 DEF Send, SendTurn
  <2>2. /\ round' \in [Party -> 0 .. 2]
        /\ peer' \in [Party -> 0 .. N]
        /\ half' \in [Party -> {0, 1}]
    BY <1>2, <2>1, NextCallType DEF Send
  <2>3. peer[p] \in Party
    BY <2>1, PeerParty
  <2>4. Payload(p, peer[p], round[p]) \in Field
    BY <2>3 DEF Payload, TypeOK
  <2>5. Append(chan[p][peer[p]], Payload(p, peer[p], round[p])) \in Seq(Field)
    BY <2>3, <2>4 DEF TypeOK
  <2>6. chan' \in [Party -> [Party -> Seq(Field)]]
    BY <1>2, <2>3, <2>5 DEF Send, TypeOK
  <2>7. QED
    BY <1>2, <2>2, <2>6 DEF Send, TypeOK
<1>3. ASSUME NEW p \in Party, Recv(p) PROVE TypeOK'
  <2>1. InExchange(p)
    BY <1>3 DEF Recv, RecvTurn
  <2>2. /\ round' \in [Party -> 0 .. 2]
        /\ peer' \in [Party -> 0 .. N]
        /\ half' \in [Party -> {0, 1}]
    BY <1>3, <2>1, NextCallType DEF Recv
  <2>3. peer[p] \in Party
    BY <2>1, PeerParty
  <2> DEFINE m == Head(chan[peer[p]][p])
  <2>4. m \in Field /\ Tail(chan[peer[p]][p]) \in Seq(Field)
    BY <1>3, <2>3 DEF Recv, TypeOK
  <2>5. chan' \in [Party -> [Party -> Seq(Field)]]
    BY <1>3, <2>3, <2>4 DEF Recv, TypeOK
  <2>6. field_add(aggregate[p], m) \in Field
    BY <2>4, AddType DEF TypeOK
  <2>7. /\ received' \in [Party -> [Party -> Field]]
        /\ aggregate' \in [Party -> Field]
    <3> HIDE DEF m
    <3>1. CASE round[p] = 1
      <4>1. received' = [received EXCEPT ![p][peer[p]] = m] /\ aggregate' = aggregate
        BY <1>3, <3>1 DEF Recv, m
      <4>2. QED
        BY <4>1, <2>3, <2>4 DEF TypeOK
    <3>2. CASE round[p] # 1
      <4>1. aggregate' = [aggregate EXCEPT ![p] = field_add(aggregate[p], m)]
            /\ received' = received
        BY <1>3, <3>2 DEF Recv, m
      <4>2. QED
        BY <4>1, <2>6 DEF TypeOK
    <3>3. QED
      BY <3>1, <3>2
  <2>8. QED
    BY <1>3, <2>2, <2>5, <2>7 DEF Recv, TypeOK
<1>4. ASSUME NEW p \in Party, ComputePartial(p) PROVE TypeOK'
  <2>1. PartialSum(p) \in Field
    BY PartialSumType
  <2>2. FirstPeer(p) \in 0 .. N
    BY PartiesAssumption DEF FirstPeer, Party
  <2>3. QED
    BY <1>4, <2>1, <2>2 DEF ComputePartial, TypeOK
<1>5. ASSUME NEW p \in Party, NEW s \in {"MPC_OK"} \cup Failed, Stop(p, s)
      PROVE  TypeOK'
  BY <1>5, StopType
<1>6. ASSUME NEW p \in Party, NEW q \in Party, LoseTail(p, q) PROVE TypeOK'
  <2>1. chan[p][q] \in Seq(Field) /\ chan[p][q] # <<>>
    BY <1>6 DEF LoseTail, TypeOK
  <2>2. SubSeq(chan[p][q], 1, Len(chan[p][q]) - 1) \in Seq(Field)
    BY <2>1
  <2>3. chan' \in [Party -> [Party -> Seq(Field)]]
    BY <1>6, <2>2 DEF LoseTail, TypeOK
  <2>4. QED
    BY <1>6, <2>3 DEF LoseTail, TypeOK
<1>7. CASE UNCHANGED vars
  BY <1>7 DEF vars, TypeOK
<1>8. QED
  BY <1>1, <1>2, <1>3, <1>4, <1>5, <1>6, <1>7
  DEF Next, Step, Fault, Done, Finish, SendFails, RecvFails, Timeout, Crash, Failed

(* Type correctness: every value the parties hold or send stays a field    *)
(* element, so no partial sum or aggregate of mpc_runner.c ever leaves the *)
(* field or wraps, and no party's loop index passes N.                     *)
THEOREM TypeCorrect == Spec => []TypeOK
<1>1. QED
  BY TypeInit, TypeNext, PTL DEF Spec

-----------------------------------------------------------------------------
(* Counting the messages of a pair.                                        *)

(* The four counts of a pair lie within 0 .. 2 and say which round their   *)
(* party is in; the side that sends first is at most one send ahead of its *)
(* own receives, the other side at most one receive ahead of its sends.    *)
LEMMA CountBounds ==
  ASSUME TypeOK, NEW p \in Party, NEW q \in Party, p # q
  PROVE  /\ Sent(p, q) \in 0 .. 2 /\ Received(p, q) \in 0 .. 2
         /\ Sent(p, q) <= round[p] /\ Received(p, q) <= round[p]
         /\ round[p] <= Sent(p, q) + 1 /\ round[p] <= Received(p, q) + 1
         /\ p < q => /\ Received(p, q) <= Sent(p, q)
                     /\ Sent(p, q) <= Received(p, q) + 1
         /\ q < p => /\ Sent(p, q) <= Received(p, q)
                     /\ Received(p, q) <= Sent(p, q) + 1
<1>1. /\ round[p] \in 0 .. 2 /\ peer[p] \in Int
      /\ p \in Int /\ q \in Int
  BY PartiesAssumption DEF TypeOK, Party
<1>2. QED
  BY ONLY <1>1, p # q DEF Sent, Received, Exchanged

(* What is known of the pair when a party sends to its peer ...            *)
LEMMA SendTurnCount ==
  ASSUME TypeOK, LoopInv, NEW p \in Party, SendTurn(p)
  PROVE  /\ peer[p] \in Party /\ peer[p] # p /\ round[p] \in {1, 2}
         /\ Sent(p, peer[p]) = round[p] - 1
         /\ Received(p, peer[p]) =
              IF p < peer[p] THEN round[p] - 1 ELSE round[p]
<1>1. /\ peer[p] \in Party /\ round[p] \in {1, 2}
      /\ (half[p] = 0 <=> p < peer[p]) /\ half[p] \in {0, 1}
  BY PeerParty DEF SendTurn, TypeOK
<1>2. peer[p] # p
  BY DEF LoopInv
<1>3. p \in Int /\ peer[p] \in Int
  BY <1>1, PartiesAssumption DEF Party
<1>4. QED
  BY <1>1, <1>2, <1>3 DEF Sent, Received, Exchanged

(* ... and when it receives from it.                                       *)
LEMMA RecvTurnCount ==
  ASSUME TypeOK, LoopInv, NEW p \in Party, RecvTurn(p)
  PROVE  /\ peer[p] \in Party /\ peer[p] # p /\ round[p] \in {1, 2}
         /\ Received(p, peer[p]) = round[p] - 1
<1>1. /\ peer[p] \in Party /\ round[p] \in {1, 2}
      /\ ~(half[p] = 0 <=> p < peer[p]) /\ half[p] \in {0, 1}
  BY PeerParty DEF RecvTurn, SendTurn, TypeOK
<1>2. peer[p] # p
  BY DEF LoopInv
<1>3. p \in Int /\ peer[p] \in Int
  BY <1>1, PartiesAssumption DEF Party
<1>4. QED
  BY <1>1, <1>2, <1>3 DEF Received, Exchanged

(* A call counts one message of one pair and of no other.                  *)
LEMMA NextCallCount ==
  ASSUME TypeOK, LoopInv, NEW p \in Party, InExchange(p), NextCall(p),
         NEW i \in Party, NEW q \in Party, i # q
  PROVE  /\ Sent(i, q)' =
              IF i = p /\ q = peer[p] /\ SendTurn(p)
              THEN Sent(i, q) + 1 ELSE Sent(i, q)
         /\ Received(i, q)' =
              IF i = p /\ q = peer[p] /\ RecvTurn(p)
              THEN Received(i, q) + 1 ELSE Received(i, q)
<1>1. /\ peer[p] \in Int /\ peer[p] # p /\ round[p] \in {1, 2}
      /\ half[p] \in {0, 1} /\ p \in Int /\ i \in Int /\ q \in Int
  <2>1. p \in Int /\ i \in Int /\ q \in Int /\ (peer[p] \in Party => peer[p] \in Int)
    BY PartiesAssumption DEF Party
  <2>2. peer[p] \in Party /\ round[p] \in {1, 2}
    BY PeerParty
  <2>3. peer[p] # p /\ half[p] \in {0, 1}
    BY DEF LoopInv, TypeOK
  <2>4. QED
    BY <2>1, <2>2, <2>3
<1>2. CASE i # p
  <2>1. round'[i] = round[i] /\ peer'[i] = peer[i] /\ half'[i] = half[i]
    BY <1>2 DEF NextCall, TypeOK
  <2>2. QED
    BY <1>2, <2>1 DEF Sent, Received, Exchanged
<1>3. CASE i = p
  <2>1. /\ round'[p] = round[p]
        /\ half'[p] = 1 - half[p]
        /\ peer'[p] = IF half[p] = 0 THEN peer[p] ELSE NextPeer(p, peer[p])
    BY DEF NextCall, TypeOK
  <2>2. SendTurn(p) <=> (half[p] = 0 <=> p < peer[p])
    BY DEF SendTurn
  <2>3. RecvTurn(p) <=> ~SendTurn(p)
    BY DEF RecvTurn
  <2>4. QED
    BY ONLY <1>1, <1>3, <2>1, <2>2, <2>3, i # q
    DEF Sent, Received, Exchanged, NextPeer
<1>4. QED
  BY <1>2, <1>3

(* A party that stops disturbs no count.                                   *)
LEMMA SameCount ==
  ASSUME UNCHANGED control
  PROVE  \A i, q : Sent(i, q)' = Sent(i, q) /\ Received(i, q)' = Received(i, q)
BY DEF control, Sent, Received, Exchanged

-----------------------------------------------------------------------------
(* The loop index.                                                         *)
LEMMA FirstPeerOther ==
  ASSUME NEW p \in Party
  PROVE  FirstPeer(p) # p /\ FirstPeer(p) <= N
BY PartiesAssumption DEF FirstPeer, Party

LEMMA NextCallLoop ==
  ASSUME TypeOK, LoopInv, NEW p \in Party, InExchange(p), NextCall(p),
         status' = status
  PROVE  LoopInv'
<1> SUFFICES ASSUME NEW i \in Party
             PROVE  /\ peer'[i] # i
                    /\ half'[i] = 1 => peer'[i] < N
                    /\ round'[i] = 0 => peer'[i] = FirstPeer(i) /\ half'[i] = 0
                    /\ status'[i] = "MPC_OK" => round'[i] = 2 /\ peer'[i] = N
  BY DEF LoopInv, FirstPeer
<1>1. /\ peer[i] # i
      /\ half[i] = 1 => peer[i] < N
      /\ round[i] = 0 => peer[i] = FirstPeer(i) /\ half[i] = 0
      /\ status[i] = "MPC_OK" => round[i] = 2 /\ peer[i] = N
  BY DEF LoopInv
<1>2. CASE i # p
  <2>1. round'[i] = round[i] /\ peer'[i] = peer[i] /\ half'[i] = half[i]
    BY <1>2 DEF NextCall, TypeOK
  <2>2. QED
    BY <1>1, <2>1
<1>3. CASE i = p
  <2>1. /\ round'[p] = round[p]
        /\ half'[p] = 1 - half[p]
        /\ peer'[p] = IF half[p] = 0 THEN peer[p] ELSE NextPeer(p, peer[p])
    BY DEF NextCall, TypeOK
  <2>2. peer[p] \in 0 .. N /\ half[p] \in {0, 1} /\ p \in Int
    BY PartiesAssumption DEF TypeOK, Party
  <2>3. round[p] \in {1, 2} /\ peer[p] < N /\ status[p] = "running"
    BY DEF InExchange, Running
  <2>4. QED
    BY ONLY <1>1, <1>3, <2>1, <2>2, <2>3, PartiesAssumption, status' = status
    DEF NextPeer
<1>4. QED
  BY <1>2, <1>3

LEMMA LoopNext == TypeOK /\ LoopInv /\ [Next]_vars => LoopInv'
<1> SUFFICES ASSUME TypeOK, LoopInv, [Next]_vars PROVE LoopInv'
  OBVIOUS
<1>1. ASSUME NEW p \in Party, SplitShares(p) PROVE LoopInv'
  <2>1. /\ peer' = peer /\ half' = half /\ status' = status
        /\ round' = [round EXCEPT ![p] = 1] /\ status[p] # "MPC_OK"
    BY <1>1 DEF SplitShares, Running
  <2>2. QED
    BY <2>1 DEF LoopInv, TypeOK, FirstPeer
<1>2. ASSUME NEW p \in Party, Send(p) \/ Recv(p) PROVE LoopInv'
  BY <1>2, NextCallLoop DEF Send, Recv, SendTurn, RecvTurn
<1>3. ASSUME NEW p \in Party, ComputePartial(p) PROVE LoopInv'
  <2>1. /\ peer' = [peer EXCEPT ![p] = FirstPeer(p)]
        /\ half' = half /\ status' = status /\ status[p] # "MPC_OK"
        /\ round' = [round EXCEPT ![p] = 2]
        /\ peer[p] = N
    BY <1>3 DEF ComputePartial, Running
  <2>2. half[p] # 1
    BY <2>1, PartiesAssumption DEF LoopInv
  <2>3. QED
    BY <2>1, <2>2, FirstPeerOther DEF LoopInv, TypeOK, FirstPeer
<1>4. ASSUME NEW p \in Party, Finish(p) PROVE LoopInv'
  <2>1. /\ UNCHANGED <<peer, half, round>> /\ round[p] = 2 /\ peer[p] = N
        /\ status' = [status EXCEPT ![p] = "MPC_OK"]
    BY <1>4 DEF Finish, Stop, control
  <2>2. QED
    BY <2>1 DEF LoopInv, TypeOK, FirstPeer
<1>5. ASSUME NEW p \in Party, NEW s \in Failed, Stop(p, s) PROVE LoopInv'
  <2>1. /\ UNCHANGED <<peer, half, round>>
        /\ status' = [status EXCEPT ![p] = s] /\ s # "MPC_OK"
    BY <1>5 DEF Stop, control, Failed
  <2>2. QED
    BY <2>1 DEF LoopInv, TypeOK, FirstPeer
<1>6. ASSUME NEW p \in Party, NEW q \in Party, LoseTail(p, q) PROVE LoopInv'
  BY <1>6 DEF LoseTail, LoopInv, control, FirstPeer
<1>7. CASE UNCHANGED vars
  BY <1>7 DEF vars, LoopInv, FirstPeer
<1>8. QED
  BY <1>1, <1>2, <1>3, <1>4, <1>5, <1>6, <1>7
  DEF Next, Step, Fault, Done, SendFails, RecvFails, Timeout, Crash, Failed

-----------------------------------------------------------------------------
(* The connections.                                                        *)

(* A message in flight is the only one, and the last the sender sent.      *)
Pair(p, q) ==
  /\ Received(q, p) <= Sent(p, q)
  /\ chan[p][q] # <<>> =>
       /\ Running(q)
       /\ Sent(p, q) = Received(q, p) + 1
       /\ chan[p][q] = <<Payload(p, q, Sent(p, q))>>

LEMMA ChannelPairs ==
  ChannelInv <=> \A p, q \in Party : IF p = q THEN chan[p][q] = <<>> ELSE Pair(p, q)
BY DEF ChannelInv, Pair

(* At a send everything sent before has been received: the peer cannot     *)
(* have got to its own call, which comes after, without receiving it.      *)
LEMMA SendFindsEmpty ==
  ASSUME TypeOK, LoopInv, ChannelInv, NEW p \in Party, SendTurn(p)
  PROVE  Received(peer[p], p) = Sent(p, peer[p]) /\ chan[p][peer[p]] = <<>>
<1> DEFINE q == peer[p]
<1>1. /\ q \in Party /\ q # p
      /\ Sent(p, q) = round[p] - 1
      /\ Received(p, q) = IF p < q THEN round[p] - 1 ELSE round[p]
      /\ round[p] \in {1, 2}
  BY SendTurnCount
<1> HIDE DEF q
<1>2. /\ Received(q, p) <= Sent(p, q) /\ Received(p, q) <= Sent(q, p)
      /\ chan[p][q] # <<>> => Sent(p, q) = Received(q, p) + 1
  BY <1>1 DEF ChannelInv
<1>3. /\ Sent(q, p) \in 0 .. 2 /\ Received(q, p) \in 0 .. 2
      /\ q < p => /\ Received(q, p) <= Sent(q, p)
                  /\ Sent(q, p) <= Received(q, p) + 1
      /\ p < q => /\ Sent(q, p) <= Received(q, p)
                  /\ Received(q, p) <= Sent(q, p) + 1
  BY <1>1, CountBounds
<1>4. p \in Int /\ q \in Int
  BY <1>1, PartiesAssumption DEF Party
<1>5. Received(q, p) = Sent(p, q)
  BY ONLY <1>1, <1>2, <1>3, <1>4
<1>6. QED
  BY ONLY <1>2, <1>3, <1>5 DEF q

(* At a receive the message in the connection, if any, is the one of the   *)
(* receiver's round.                                                       *)
LEMMA RecvFindsRound ==
  ASSUME TypeOK, LoopInv, ChannelInv, NEW p \in Party, RecvTurn(p),
         chan[peer[p]][p] # <<>>
  PROVE  /\ Received(p, peer[p]) = round[p] - 1
         /\ Sent(peer[p], p) = round[p]
         /\ chan[peer[p]][p] = <<Payload(peer[p], p, round[p])>>
<1>1. /\ peer[p] \in Party /\ peer[p] # p /\ round[p] \in {1, 2}
      /\ Received(p, peer[p]) = round[p] - 1
  BY RecvTurnCount
<1>2. /\ Sent(peer[p], p) = Received(p, peer[p]) + 1
      /\ chan[peer[p]][p] = <<Payload(peer[p], p, Sent(peer[p], p))>>
  BY <1>1 DEF ChannelInv
<1>3. Sent(peer[p], p) = round[p]
  BY ONLY <1>1, <1>2
<1>4. QED
  BY <1>1, <1>2, <1>3

(* A step that leaves a pair's two counts, its connection and the payload  *)
(* in it alone keeps the pair.                                             *)
LEMMA SamePair ==
  ASSUME NEW i \in Party, NEW q \in Party, Pair(i, q),
         Sent(i, q)' = Sent(i, q), Received(q, i)' = Received(q, i),
         chan'[i][q] = <<>> \/
           /\ chan'[i][q] = chan[i][q]
           /\ status'[q] = status[q]
           /\ Payload(i, q, Sent(i, q))' = Payload(i, q, Sent(i, q))
  PROVE  Pair(i, q)'
BY DEF Pair, Running

LEMMA ChannelNext ==
  TypeOK /\ LoopInv /\ ChannelInv /\ [Next]_vars => ChannelInv'
<1> SUFFICES ASSUME TypeOK, LoopInv, ChannelInv, [Next]_vars,
                    NEW i \in Party, NEW q \in Party
             PROVE  IF i = q THEN chan'[i][q] = <<>> ELSE Pair(i, q)'
  BY DEF ChannelInv, Pair
<1>0. IF i = q THEN chan[i][q] = <<>> ELSE Pair(i, q)
  BY ChannelPairs
<1> USE DEF data
<1>1. ASSUME NEW p \in Party, SplitShares(p)
      PROVE  IF i = q THEN chan'[i][q] = <<>> ELSE Pair(i, q)'
  <2>1. /\ UNCHANGED <<peer, half, status, chan, partial>>
        /\ round[p] = 0 /\ peer[p] = FirstPeer(p) /\ half[p] = 0
        /\ round' = [round EXCEPT ![p] = 1]
    BY <1>1 DEF SplitShares, LoopInv
  <2>2. \A j \in Party \ {p} : FirstPeer(p) <= j
    BY PartiesAssumption DEF FirstPeer, Party
  <2>3. ASSUME NEW j \in Party, NEW k \in Party, j # k
        PROVE  Sent(j, k)' = Sent(j, k) /\ Received(j, k)' = Received(j, k)
    <3>1. CASE j # p
      BY <3>1, <2>1 DEF Sent, Received, Exchanged, TypeOK
    <3>2. CASE j = p
      <4>1. round'[p] = 1 /\ peer'[p] = FirstPeer(p) /\ half'[p] = 0
        BY <2>1 DEF TypeOK
      <4>2. ~(k < FirstPeer(p))
        BY <2>2, <2>3, <3>2, PartiesAssumption DEF FirstPeer, Party
      <4>3. QED
        BY <2>1, <3>2, <4>1, <4>2 DEF Sent, Received, Exchanged
    <3>3. QED
      BY <3>1, <3>2
  <2>4. CASE i # q /\ chan[i][q] # <<>>
    <3>1. Sent(i, q) \in 1 .. 2
      <4>1. Sent(i, q) = Received(q, i) + 1
        BY <1>0, <2>4 DEF Pair
      <4>2. QED
        BY <4>1, <2>4, CountBounds
    <3>2. i # p
      BY <3>1, <2>1 DEF Sent, Exchanged
    <3>3. Payload(i, q, Sent(i, q))' = Payload(i, q, Sent(i, q))
      <4>1. shares'[i] = shares[i]
        BY <1>1, <3>2 DEF SplitShares, TypeOK
      <4>2. QED
        BY <4>1, <2>1, <2>3, <2>4 DEF Payload
    <3>4. QED
      BY <3>3, <2>4, <2>3, <2>1, <1>0, SamePair
  <2>5. CASE i # q /\ chan[i][q] = <<>>
    BY <2>5, <2>3, <2>1, <1>0, SamePair
  <2>6. QED
    BY <2>4, <2>5, <1>0, <2>1
<1>2. ASSUME NEW p \in Party, Send(p)
      PROVE  IF i = q THEN chan'[i][q] = <<>> ELSE Pair(i, q)'
  <2>1. SendTurn(p) /\ NextCall(p) /\ InExchange(p) /\ ~RecvTurn(p)
    BY <1>2 DEF Send, SendTurn, RecvTurn
  <2>2. /\ peer[p] \in Party /\ peer[p] # p /\ round[p] \in {1, 2}
        /\ Sent(p, peer[p]) = round[p] - 1
    BY <2>1, SendTurnCount
  <2>3. Received(peer[p], p) = Sent(p, peer[p]) /\ chan[p][peer[p]] = <<>>
    BY <2>1, SendFindsEmpty
  <2>4. ASSUME i # q
        PROVE  /\ Received(q, i)' = Received(q, i)
               /\ Sent(i, q)' = IF i = p /\ q = peer[p] THEN Sent(i, q) + 1
                                                        ELSE Sent(i, q)
    BY <2>1, <2>4, NextCallCount
  <2>5. /\ UNCHANGED <<shares, partial, status>>
        /\ chan' = IF Running(peer[p])
                   THEN [chan EXCEPT ![p][peer[p]] =
                           Append(chan[p][peer[p]], Payload(p, peer[p], round[p]))]
                   ELSE chan
    BY <1>2 DEF Send
  <2>6. CASE i = p /\ q = peer[p]
    <3>1. Sent(i, q)' = round[p] /\ Received(q, i)' = round[p] - 1
      BY <2>2, <2>3, <2>4, <2>6
    <3>2. Payload(i, q, Sent(i, q))' = Payload(p, peer[p], round[p])
      BY <3>1, <2>5, <2>6 DEF Payload
    <3>3. chan'[i][q] = IF Running(q) THEN <<Payload(p, peer[p], round[p])>> ELSE <<>>
      BY <2>2, <2>3, <2>5, <2>6 DEF TypeOK
    <3>4. QED
      BY <3>1, <3>2, <3>3, <2>2, <2>5, <2>6 DEF Pair, Running
  <2>7. CASE ~(i = p /\ q = peer[p])
    <3>1. chan'[i][q] = chan[i][q]
      BY <2>5, <2>7 DEF TypeOK
    <3>2. i # q => Payload(i, q, Sent(i, q))' = Payload(i, q, Sent(i, q))
      BY <2>4, <2>5, <2>7 DEF Payload
    <3>3. QED
      BY <3>1, <3>2, <2>4, <2>5, <2>7, <1>0, SamePair
  <2>8. QED
    BY <2>6, <2>7
<1>3. ASSUME NEW p \in Party, Recv(p)
      PROVE  IF i = q THEN chan'[i][q] = <<>> ELSE Pair(i, q)'
  <2>1. RecvTurn(p) /\ NextCall(p) /\ InExchange(p) /\ ~SendTurn(p)
    BY <1>3 DEF Recv, RecvTurn
  <2>2. /\ peer[p] \in Party /\ peer[p] # p /\ round[p] \in {1, 2}
        /\ Received(p, peer[p]) = round[p] - 1
    BY <2>1, RecvTurnCount
  <2>3. /\ Sent(peer[p], p) = round[p]
        /\ chan[peer[p]][p] = <<Payload(peer[p], p, round[p])>>
    BY <1>3, <2>1, RecvFindsRound DEF Recv
  <2>4. ASSUME i # q
        PROVE  /\ Sent(i, q)' = Sent(i, q)
               /\ Received(q, i)' = IF q = p /\ i = peer[p]
                                    THEN Received(q, i) + 1 ELSE Received(q, i)
    BY <2>1, <2>4, NextCallCount
  <2>5. /\ UNCHANGED <<shares, partial, status>>
        /\ chan' = [chan EXCEPT ![peer[p]][p] = Tail(chan[peer[p]][p])]
    BY <1>3 DEF Recv
  <2>6. CASE q = p /\ i = peer[p]
    <3>1. chan'[i][q] = <<>>
      BY <2>2, <2>3, <2>5, <2>6 DEF TypeOK
    <3>2. Sent(i, q)' = round[p] /\ Received(q, i)' = round[p]
      BY <2>2, <2>3, <2>4, <2>6
    <3>3. QED
      BY <3>1, <3>2, <2>2, <2>6 DEF Pair
  <2>7. CASE ~(q = p /\ i = peer[p])
    <3>1. chan'[i][q] = chan[i][q]
      BY <2>5, <2>7 DEF TypeOK
    <3>2. i # q => Payload(i, q, Sent(i, q))' = Payload(i, q, Sent(i, q))
      BY <2>4, <2>5, <2>7 DEF Payload
    <3>3. QED
      BY <3>1, <3>2, <2>4, <2>5, <2>7, <1>0, SamePair
  <2>8. QED
    BY <2>6, <2>7
<1>4. ASSUME NEW p \in Party, ComputePartial(p)
      PROVE  IF i = q THEN chan'[i][q] = <<>> ELSE Pair(i, q)'
  <2>1. /\ UNCHANGED <<shares, half, status, chan>>
        /\ round[p] = 1 /\ peer[p] = N
        /\ round' = [round EXCEPT ![p] = 2]
        /\ peer' = [peer EXCEPT ![p] = FirstPeer(p)]
    BY <1>4 DEF ComputePartial
  <2>2. half[p] = 0
    BY <2>1, PartiesAssumption DEF LoopInv, TypeOK
  <2>3. ASSUME NEW j \in Party, NEW k \in Party, j # k
        PROVE  Sent(j, k)' = Sent(j, k) /\ Received(j, k)' = Received(j, k)
    <3>1. CASE j # p
      BY <3>1, <2>1 DEF Sent, Received, Exchanged, TypeOK
    <3>2. CASE j = p
      <4>1. round'[p] = 2 /\ peer'[p] = FirstPeer(p) /\ half'[p] = 0
        BY <2>1, <2>2 DEF TypeOK
      <4>2. ~(k < FirstPeer(p)) /\ k < N
        BY <2>3, <3>2, PartiesAssumption DEF FirstPeer, Party
      <4>3. QED
        BY <2>1, <2>2, <3>2, <4>1, <4>2 DEF Sent, Received, Exchanged
    <3>3. QED
      BY <3>1, <3>2
  <2>4. CASE i # q
    <3>1. i = p => Sent(i, q) = 1
      <4>1. i = p => q < N /\ q \in Int
        BY PartiesAssumption DEF Party
      <4>2. QED
        BY <4>1, <2>1, <2>2 DEF Sent, Exchanged
    <3>2. Payload(i, q, Sent(i, q))' = Payload(i, q, Sent(i, q))
      <4>1. i # p => partial'[i] = partial[i]
        BY <1>4 DEF ComputePartial, TypeOK
      <4>2. QED
        BY <4>1, <3>1, <2>1, <2>3, <2>4 DEF Payload
    <3>3. QED
      BY <3>2, <2>4, <2>3, <2>1, <1>0, SamePair
  <2>5. QED
    BY <2>4, <1>0, <2>1
<1>5. ASSUME NEW p \in Party, NEW s, Stop(p, s)
      PROVE  IF i = q THEN chan'[i][q] = <<>> ELSE Pair(i, q)'
  <2>1. /\ UNCHANGED <<shares, partial, round, peer, half>>
        /\ chan' = [j \in Party |-> [chan[j] EXCEPT ![p] = <<>>]]
        /\ status' = [status EXCEPT ![p] = s]
    BY <1>5 DEF Stop, control
  <2>2. Sent(i, q)' = Sent(i, q) /\ Received(q, i)' = Received(q, i)
    BY <2>1 DEF Sent, Received, Exchanged
  <2>3. Payload(i, q, Sent(i, q))' = Payload(i, q, Sent(i, q))
    BY <2>1, <2>2 DEF Payload
  <2>4. chan'[i][q] = IF q = p THEN <<>> ELSE chan[i][q]
    BY <2>1 DEF TypeOK
  <2>5. q # p => status'[q] = status[q]
    BY <2>1 DEF TypeOK
  <2>6. QED
    BY <2>2, <2>3, <2>4, <2>5, <1>0, SamePair
<1>6. ASSUME NEW p \in Party, NEW k \in Party, LoseTail(p, k)
      PROVE  IF i = q THEN chan'[i][q] = <<>> ELSE Pair(i, q)'
  <2>1. /\ UNCHANGED <<shares, partial, round, peer, half, status>>
        /\ chan[p][k] # <<>>
        /\ chan' = [chan EXCEPT ![p][k] = SubSeq(chan[p][k], 1, Len(chan[p][k]) - 1)]
    BY <1>6 DEF LoseTail, control
  <2>2. Sent(i, q)' = Sent(i, q) /\ Received(q, i)' = Received(q, i)
    BY <2>1 DEF Sent, Received, Exchanged
  <2>3. Payload(i, q, Sent(i, q))' = Payload(i, q, Sent(i, q))
    BY <2>1, <2>2 DEF Payload
  <2>4. CASE i = p /\ q = k
    <3>1. i # q
      BY <1>0, <2>1, <2>4
    <3>2. chan[i][q] = <<Payload(i, q, Sent(i, q))>>
      BY <1>0, <2>1, <2>4, <3>1 DEF Pair
    <3>3. chan'[i][q] = <<>>
      BY <2>1, <2>4, <3>2 DEF TypeOK
    <3>4. QED
      BY <3>1, <3>3, <2>2, <1>0, SamePair
  <2>5. CASE ~(i = p /\ q = k)
    <3>1. chan'[i][q] = chan[i][q]
      BY <2>1, <2>5 DEF TypeOK
    <3>2. QED
      BY <3>1, <2>1, <2>2, <2>3, <1>0, SamePair
  <2>6. QED
    BY <2>4, <2>5
<1>7. CASE UNCHANGED vars
  <2>1. /\ UNCHANGED <<shares, partial, round, peer, half, status, chan>>
    BY <1>7 DEF vars
  <2>2. QED
    BY <2>1, <1>0 DEF Pair, Sent, Received, Exchanged, Payload, Running
<1>8. QED
  BY <1>1, <1>2, <1>3, <1>4, <1>5, <1>6, <1>7
  DEF Next, Step, Fault, Done, Finish, SendFails, RecvFails, Timeout, Crash

-----------------------------------------------------------------------------
(* The data.  CtlInv is what the control alone guarantees.                 *)
CtlInv == TypeOK /\ LoopInv /\ ChannelInv

(* A party that got through a round has received from every other party.   *)
LEMMA RoundDone ==
  ASSUME TypeOK, NEW p \in Party, NEW q \in Party, p # q, peer[p] = N,
         round[p] \in {1, 2}
  PROVE  Received(p, q) = round[p]
<1>1. q < N /\ q \in Int
  BY PartiesAssumption DEF Party
<1>2. QED
  BY <1>1 DEF Received, Exchanged, TypeOK

(* Receiving is never ahead of sending, nor sending of the sender's round. *)
LEMMA ReceivedMeansSent ==
  ASSUME CtlInv, NEW p \in Party, NEW q \in Party, p # q
  PROVE  Received(p, q) <= Sent(q, p) /\ Received(p, q) <= round[q]
<1>1. Received(p, q) <= Sent(q, p)
  BY DEF CtlInv, ChannelInv
<1>2. /\ Sent(q, p) <= round[q] /\ Sent(q, p) \in 0 .. 2 /\ Received(p, q) \in 0 .. 2
      /\ round[q] \in 0 .. 2
  BY CountBounds DEF CtlInv, TypeOK
<1>3. QED
  BY ONLY <1>1, <1>2

(* Once a party is in round 2 every party has split its value.             *)
LEMMA RoundTwoAllSplit ==
  ASSUME CtlInv, NEW p \in Party, round[p] = 2
  PROVE  \A q \in Party : round[q] >= 1
<1> SUFFICES ASSUME NEW q \in Party, q # p PROVE round[q] >= 1
  OBVIOUS
<1>1. round[p] <= Received(p, q) + 1 /\ Received(p, q) \in 0 .. 2
  BY CountBounds DEF CtlInv
<1>2. Received(p, q) <= round[q] /\ round[q] \in 0 .. 2
  BY ReceivedMeansSent DEF CtlInv, TypeOK
<1>3. QED
  BY ONLY <1>1, <1>2, round[p] = 2

(* The steps by what they do to the data and to the counts.                *)
LEMMA SplitEffect ==
  ASSUME CtlInv, NEW p \in Party, SplitShares(p)
  PROVE  /\ UNCHANGED <<value, received, partial, aggregate>>
         /\ round[p] = 0 /\ round' = [round EXCEPT ![p] = 1]
         /\ \A i \in Party \ {p} : shares'[i] = shares[i]
         /\ share_reconstruct(shares'[p], N) = value[p]
         /\ \A i, q \in Party : i # q => Received(i, q)' = Received(i, q)
<1>1. PICK rand \in [0 .. (N - 2) -> Field] :
        shares' = [shares EXCEPT ![p] = share_split(value[p], rand, N)]
  BY DEF SplitShares
<1>2. share_reconstruct(share_split(value[p], rand, N), N) = value[p]
  BY SharesReconstruct, PartiesAssumption DEF CtlInv, TypeOK
<1>3. /\ shares'[p] = share_split(value[p], rand, N)
      /\ \A i \in Party \ {p} : shares'[i] = shares[i]
  BY <1>1 DEF CtlInv, TypeOK
<1>4. ASSUME NEW i \in Party, NEW q \in Party, i # q
      PROVE  Received(i, q)' = Received(i, q)
  <2>1. CASE i # p
    BY <2>1 DEF SplitShares, Received, Exchanged, CtlInv, TypeOK
  <2>2. CASE i = p
    <3>1. round[p] = 0 /\ round'[p] = 1 /\ peer'[p] = FirstPeer(p) /\ half'[p] = 0
      BY DEF SplitShares, CtlInv, LoopInv, TypeOK
    <3>2. ~(q < FirstPeer(p))
      BY <1>4, <2>2, PartiesAssumption DEF FirstPeer, Party
    <3>3. QED
      BY <2>2, <3>1, <3>2 DEF Received, Exchanged
  <2>3. QED
    BY <2>1, <2>2
<1>5. QED
  BY <1>2, <1>3, <1>4 DEF SplitShares

LEMMA SendEffect ==
  ASSUME CtlInv, NEW p \in Party, Send(p)
  PROVE  /\ UNCHANGED <<value, shares, received, partial, aggregate, round>>
         /\ \A i, q \in Party : i # q => Received(i, q)' = Received(i, q)
<1>1. SendTurn(p) /\ NextCall(p) /\ InExchange(p) /\ ~RecvTurn(p)
  BY DEF Send, SendTurn, RecvTurn
<1>2. ASSUME NEW i \in Party, NEW q \in Party, i # q
      PROVE  Received(i, q)' = Received(i, q)
  BY <1>1, <1>2, NextCallCount DEF CtlInv
<1>3. QED
  BY <1>2 DEF Send, NextCall, data

LEMMA RecvEffect ==
  ASSUME CtlInv, NEW p \in Party, Recv(p)
  PROVE  /\ peer[p] \in Party /\ peer[p] # p /\ round[p] \in {1, 2}
         /\ UNCHANGED <<value, shares, partial, round>>
         /\ Received(p, peer[p]) = round[p] - 1
         /\ \A i, q \in Party : i # q =>
              Received(i, q)' = IF i = p /\ q = peer[p] THEN round[p]
                                                        ELSE Received(i, q)
         /\ round[peer[p]] >= round[p]
         /\ round[p] = 1 =>
              /\ aggregate' = aggregate
              /\ received' = [received EXCEPT ![p][peer[p]] = shares[peer[p]][p]]
         /\ round[p] = 2 =>
              /\ received' = received
              /\ aggregate' = [aggregate EXCEPT ![p] =
                                  field_add(aggregate[p], partial[peer[p]])]
<1>1. RecvTurn(p) /\ NextCall(p) /\ InExchange(p)
  BY DEF Recv, RecvTurn
<1>2. /\ peer[p] \in Party /\ peer[p] # p /\ round[p] \in {1, 2}
      /\ Received(p, peer[p]) = round[p] - 1
  BY <1>1, RecvTurnCount DEF CtlInv
<1>3. /\ Sent(peer[p], p) = round[p]
      /\ chan[peer[p]][p] = <<Payload(peer[p], p, round[p])>>
  BY <1>1, RecvFindsRound DEF CtlInv, Recv
<1>4. Head(chan[peer[p]][p]) = Payload(peer[p], p, round[p])
  BY <1>3
<1>5. ASSUME NEW i \in Party, NEW q \in Party, i # q
      PROVE  Received(i, q)' = IF i = p /\ q = peer[p] THEN round[p]
                                                       ELSE Received(i, q)
  BY <1>1, <1>2, <1>5, NextCallCount DEF CtlInv
<1>6. round[peer[p]] >= round[p]
  <2>1. Sent(peer[p], p) <= round[peer[p]]
    BY <1>2, CountBounds DEF CtlInv
  <2>2. QED
    BY <2>1, <1>3
<1>7. round[p] = 1 =>
        /\ aggregate' = aggregate
        /\ received' = [received EXCEPT ![p][peer[p]] = shares[peer[p]][p]]
  BY <1>4 DEF Recv, Payload
<1>8. round[p] = 2 =>
        /\ received' = received
        /\ aggregate' = [aggregate EXCEPT ![p] =
                            field_add(aggregate[p], partial[peer[p]])]
  BY <1>4 DEF Recv, Payload
<1>9. UNCHANGED <<value, shares, partial, round>>
  BY DEF Recv, NextCall
<1>10. QED
  BY <1>2, <1>5, <1>6, <1>7, <1>8, <1>9

LEMMA ComputeEffect ==
  ASSUME CtlInv, NEW p \in Party, ComputePartial(p)
  PROVE  /\ UNCHANGED <<value, shares, received>>
         /\ round[p] = 1 /\ round' = [round EXCEPT ![p] = 2]
         /\ partial' = [partial EXCEPT ![p] = PartialSum(p)]
         /\ aggregate' = [aggregate EXCEPT ![p] = PartialSum(p)]
         /\ \A i, q \in Party : i # q => Received(i, q)' = Received(i, q)
         /\ \A q \in Party \ {p} : Received(p, q) = 1
<1>1. /\ UNCHANGED <<value, shares, received, half>>
      /\ round[p] = 1 /\ peer[p] = N
      /\ round' = [round EXCEPT ![p] = 2]
      /\ peer' = [peer EXCEPT ![p] = FirstPeer(p)]
      /\ partial' = [partial EXCEPT ![p] = PartialSum(p)]
      /\ aggregate' = [aggregate EXCEPT ![p] = PartialSum(p)]
  BY DEF ComputePartial
<1>2. half[p] = 0
  BY <1>1, PartiesAssumption DEF CtlInv, LoopInv, TypeOK
<1>3. \A q \in Party \ {p} : Received(p, q) = 1
  BY <1>1, RoundDone DEF CtlInv
<1>4. ASSUME NEW i \in Party, NEW q \in Party, i # q
      PROVE  Received(i, q)' = Received(i, q)
  <2>1. CASE i # p
    BY <2>1, <1>1 DEF Received, Exchanged, CtlInv, TypeOK
  <2>2. CASE i = p
    <3>1. round'[p] = 2 /\ peer'[p] = FirstPeer(p) /\ half'[p] = 0
      BY <1>1, <1>2 DEF CtlInv, TypeOK
    <3>2. ~(q < FirstPeer(p))
      BY <1>4, <2>2, PartiesAssumption DEF FirstPeer, Party
    <3>3. Received(p, q)' = 1
      BY <1>4, <2>2, <3>1, <3>2 DEF Received, Exchanged
    <3>4. QED
      BY <1>3, <1>4, <2>2, <3>3
  <2>3. QED
    BY <2>1, <2>2
<1>5. QED
  BY <1>1, <1>3, <1>4

(* Every other step leaves the data and the counts alone.                  *)
LEMMA OtherEffect ==
  ASSUME NEW p \in Party, NEW q \in Party,
         \/ Finish(p) \/ Fault(p) \/ LoseTail(p, q) \/ UNCHANGED vars
  PROVE  /\ UNCHANGED <<value, shares, received, partial, aggregate, round>>
         /\ \A i, j \in Party : Received(i, j)' = Received(i, j)
<1>1. UNCHANGED data /\ UNCHANGED control
  BY DEF Finish, Fault, Stop, SendFails, RecvFails, Timeout, Crash, LoseTail,
         vars, data, control
<1>2. QED
  BY <1>1, SameCount DEF data, control

LEMMA Cases ==
  ASSUME [Next]_vars
  PROVE  \E p \in Party : \/ SplitShares(p) \/ Send(p) \/ Recv(p)
                         \/ ComputePartial(p)
                         \/ Finish(p) \/ Fault(p) \/ UNCHANGED vars
<1>1. 0 \in Party
  BY PartiesAssumption DEF Party
<1>2. QED
  BY <1>1 DEF Next, Step, Done

LEMMA SharesNext == CtlInv /\ SharesInv /\ [Next]_vars => SharesInv'
<1> SUFFICES ASSUME CtlInv, SharesInv, [Next]_vars,
                    NEW i \in Party, round'[i] >= 1
             PROVE  share_reconstruct(shares'[i], N) = value'[i]
  BY DEF SharesInv, share_reconstruct, FieldFold, field_add, U32
<1>1. round[i] >= 1 => share_reconstruct(shares[i], N) = value[i]
  BY DEF SharesInv
<1>2. ASSUME NEW p \in Party, SplitShares(p)
      PROVE  share_reconstruct(shares'[i], N) = value'[i]
  BY <1>1, <1>2, SplitEffect DEF CtlInv, TypeOK
<1>3. ASSUME NEW p \in Party, Send(p)
      PROVE  share_reconstruct(shares'[i], N) = value'[i]
  BY <1>1, <1>3, SendEffect
<1>4. ASSUME NEW p \in Party, Recv(p)
      PROVE  share_reconstruct(shares'[i], N) = value'[i]
  BY <1>1, <1>4, RecvEffect
<1>5. ASSUME NEW p \in Party, ComputePartial(p)
      PROVE  share_reconstruct(shares'[i], N) = value'[i]
  <2>1. /\ shares' = shares /\ value' = value
        /\ round[p] = 1 /\ round' = [round EXCEPT ![p] = 2]
    BY <1>5, ComputeEffect
  <2>2. round[i] >= 1
    BY <2>1 DEF CtlInv, TypeOK
  <2>3. QED
    BY <1>1, <2>1, <2>2
<1>6. ASSUME NEW p \in Party, Finish(p) \/ Fault(p) \/ UNCHANGED vars
      PROVE  share_reconstruct(shares'[i], N) = value'[i]
  BY <1>1, <1>6, OtherEffect
<1>7. QED
  BY <1>2, <1>3, <1>4, <1>5, <1>6, Cases

LEMMA ReceivedNext == CtlInv /\ ReceivedInv /\ [Next]_vars => ReceivedInv'
<1> SUFFICES ASSUME CtlInv, ReceivedInv, [Next]_vars,
                    NEW i \in Party, NEW q \in Party, i # q,
                    Received(i, q)' >= 1
             PROVE  received'[i][q] = shares'[q][i]
  BY DEF ReceivedInv
<1>1. Received(i, q) >= 1 => received[i][q] = shares[q][i]
  BY DEF ReceivedInv
<1>2. ASSUME NEW p \in Party, SplitShares(p)
      PROVE  received'[i][q] = shares'[q][i]
  <2>1. Received(i, q) >= 1
    BY <1>2, SplitEffect
  <2>2. round[q] \in 0 .. 2 /\ Received(i, q) <= round[q] /\ Received(i, q) \in 0 .. 2
    BY ReceivedMeansSent, CountBounds DEF CtlInv, TypeOK
  <2>3. q # p
    BY <1>2, <2>1, <2>2, SplitEffect
  <2>4. QED
    BY <1>1, <1>2, <2>1, <2>3, SplitEffect
<1>3. ASSUME NEW p \in Party, Send(p)
      PROVE  received'[i][q] = shares'[q][i]
  BY <1>1, <1>3, SendEffect
<1>4. ASSUME NEW p \in Party, Recv(p)
      PROVE  received'[i][q] = shares'[q][i]
  <2>1. shares' = shares /\ peer[p] \in Party /\ round[p] \in {1, 2}
    BY <1>4, RecvEffect
  <2>2. CASE i = p /\ q = peer[p]
    <3>1. CASE round[p] = 1
      <4>1. received' = [received EXCEPT ![p][peer[p]] = shares[peer[p]][p]]
        BY <1>4, <3>1, RecvEffect
      <4>2. QED
        BY <4>1, <2>1, <2>2 DEF CtlInv, TypeOK
    <3>2. CASE round[p] = 2
      <4>1. received' = received /\ Received(p, peer[p]) = 1
        BY <1>4, <3>2, RecvEffect
      <4>2. QED
        BY <4>1, <2>1, <2>2, <1>1
    <3>3. QED
      BY <2>1, <3>1, <3>2
  <2>3. CASE ~(i = p /\ q = peer[p])
    <3>1. Received(i, q)' = Received(i, q)
      BY <1>4, <2>3, RecvEffect
    <3>2. received'[i][q] = received[i][q]
      <4>1. \/ received' = received
            \/ received' = [received EXCEPT ![p][peer[p]] = shares[peer[p]][p]]
        BY <1>4, RecvEffect
      <4>2. received \in [Party -> [Party -> Field]]
        BY DEF CtlInv, TypeOK
      <4>3. CASE received' = received
        BY <4>3
      <4>4. CASE received' = [received EXCEPT ![p][peer[p]] = shares[peer[p]][p]]
        <5>1. CASE i # p
          BY <4>2, <4>4, <5>1
        <5>2. CASE i = p
          <6>1. q # peer[p]
            BY <2>3, <5>2
          <6>2. received'[i] = [received[p] EXCEPT ![peer[p]] = shares[peer[p]][p]]
            BY <4>2, <4>4, <5>2
          <6>3. received[p] \in [Party -> Field]
            BY <4>2
          <6>4. QED
            BY <6>1, <6>2, <6>3, <5>2
        <5>3. QED
          BY <5>1, <5>2
      <4>5. QED
        BY <4>1, <4>3, <4>4
    <3>3. QED
      BY <3>1, <3>2, <2>1, <1>1
  <2>4. QED
    BY <2>2, <2>3
<1>5. ASSUME NEW p \in Party, ComputePartial(p)
      PROVE  received'[i][q] = shares'[q][i]
  BY <1>1, <1>5, ComputeEffect
<1>6. ASSUME NEW p \in Party, Finish(p) \/ Fault(p) \/ UNCHANGED vars
      PROVE  received'[i][q] = shares'[q][i]
  BY <1>1, <1>6, OtherEffect
<1>7. QED
  BY <1>2, <1>3, <1>4, <1>5, <1>6, Cases

(* The column of the shares meant for party k.                             *)
Column(k) == [j \in Party |-> shares[j][k]]

(* What ComputePartial computes is the sum of its column.                  *)
LEMMA PartialSumIsColumn ==
  ASSUME CtlInv, ReceivedInv, NEW p \in Party,
         \A q \in Party \ {p} : Received(p, q) = 1
  PROVE  PartialSum(p) = FieldFold(0, Column(p), N)
<1> DEFINE f == [j \in Party |-> IF j = p THEN 0 ELSE received[p][j]]
           x == shares[p][p]
<1>1. N \in Nat /\ 0 \in Field /\ p \in 0 .. (N - 1) /\ x \in Field
  <2>1. x \in Field
    BY DEF CtlInv, TypeOK
  <2>2. QED
    BY <2>1, PartiesAssumption, FieldAssumption DEF Party, Field
<1>2. \A k \in 0 .. (N - 1) : f[k] \in Field
  <2>1. \A k \in Party : received[p][k] \in Field
    BY DEF CtlInv, TypeOK
  <2>2. \A k \in Party : f[k] \in Field
    BY <1>1, <2>1
  <2>3. QED
    BY <2>2 DEF Party
<1>3. f[p] = 0 /\ Column(p)[p] = x
  BY DEF Column
<1>4. \A k \in 0 .. (N - 1) : k # p => Column(p)[k] = f[k]
  <2>1. \A k \in Party : k # p => received[p][k] = shares[k][p]
    BY DEF ReceivedInv
  <2>2. \A k \in Party : k # p => Column(p)[k] = f[k]
    BY <2>1 DEF Column
  <2>3. QED
    BY <2>2 DEF Party
<1> HIDE DEF f, x
<1>5. FieldFold(0, Column(p), N) = field_add(x, FieldFold(0, f, N))
  BY <1>1, <1>2, <1>3, <1>4, SumPoint
<1>6. FieldFold(x, f, N) = field_add(x, FieldFold(0, f, N))
  BY <1>1, <1>2, FoldShift
<1>7. PartialSum(p) = FieldFold(x, f, N)
  BY DEF PartialSum, f, x
<1>8. QED
  BY <1>5, <1>6, <1>7

LEMMA PartialNext ==
  CtlInv /\ ReceivedInv /\ PartialInv /\ [Next]_vars => PartialInv'
<1> SUFFICES ASSUME CtlInv, ReceivedInv, PartialInv, [Next]_vars,
                    NEW k \in Party, round'[k] = 2
             PROVE  partial'[k] = FieldFold(0, [j \in Party |-> shares'[j][k]], N)
  BY DEF PartialInv, FieldFold, field_add, U32
<1> DEFINE sum == FieldFold(0, Column(k), N)
           sum1 == FieldFold(0, [j \in Party |-> shares'[j][k]], N)
<1>1. round[k] = 2 => partial[k] = sum
  BY DEF PartialInv, Column
<1>2. shares' = shares => sum1 = sum
  BY DEF Column
<1> HIDE DEF sum, sum1
<1>3. ASSUME NEW p \in Party, SplitShares(p) PROVE partial'[k] = sum1
  <2>1. round[k] = 2
    BY <1>3, SplitEffect DEF CtlInv, TypeOK
  <2>2. round[p] >= 1
    BY <2>1, RoundTwoAllSplit
  <2>3. QED
    BY <1>3, <2>2, SplitEffect
<1>4. ASSUME NEW p \in Party, Send(p) PROVE partial'[k] = sum1
  BY <1>1, <1>2, <1>4, SendEffect
<1>5. ASSUME NEW p \in Party, Recv(p) PROVE partial'[k] = sum1
  BY <1>1, <1>2, <1>5, RecvEffect
<1>6. ASSUME NEW p \in Party, ComputePartial(p) PROVE partial'[k] = sum1
  <2>1. CASE k = p
    <3>1. PartialSum(p) = FieldFold(0, Column(p), N)
      BY <1>6, ComputeEffect, PartialSumIsColumn
    <3>2. QED
      BY <1>2, <1>6, <2>1, <3>1, ComputeEffect DEF sum, CtlInv, TypeOK
  <2>2. CASE k # p
    BY <1>1, <1>2, <1>6, <2>2, ComputeEffect DEF CtlInv, TypeOK
  <2>3. QED
    BY <2>1, <2>2
<1>7. ASSUME NEW p \in Party, Finish(p) \/ Fault(p) \/ UNCHANGED vars
      PROVE  partial'[k] = sum1
  BY <1>1, <1>2, <1>7, OtherEffect
<1>8. partial'[k] = sum1
  BY <1>3, <1>4, <1>5, <1>6, <1>7, Cases
<1>9. QED
  BY <1>8 DEF sum1

(* The summands of the aggregate of party p so far.                        *)
Summands(p) ==
  [j \in Party |-> IF j = p \/ Received(p, j) = 2 THEN partial[j] ELSE 0]

LEMMA SummandsType ==
  ASSUME TypeOK, NEW p \in Party
  PROVE  0 \in Field /\ \A k \in 0 .. (N - 1) : Summands(p)[k] \in Field
<1>1. 0 \in Field
  BY FieldAssumption DEF Field
<1>2. \A k \in Party : partial[k] \in Field
  BY DEF TypeOK
<1>3. \A k \in Party : Summands(p)[k] \in Field
  BY <1>1, <1>2 DEF Summands
<1>4. QED
  BY <1>1, <1>3 DEF Party

LEMMA AggregateNext ==
  CtlInv /\ AggregateInv /\ [Next]_vars => AggregateInv'
<1> DEFINE Summands1(i) == [j \in Party |-> IF j = i \/ Received(i, j)' = 2
                                           THEN partial'[j] ELSE 0]
<1> SUFFICES ASSUME CtlInv, AggregateInv, [Next]_vars,
                    NEW i \in Party, round'[i] = 2
             PROVE  aggregate'[i] = FieldFold(0, Summands1(i), N)
  BY DEF AggregateInv, FieldFold, field_add, U32
<1>0. N \in Nat /\ i \in 0 .. (N - 1)
  BY PartiesAssumption DEF Party
<1>1. round[i] = 2 => aggregate[i] = FieldFold(0, Summands(i), N)
  BY DEF AggregateInv, Summands
<1>2. ASSUME partial' = partial,
             \A j \in Party : j # i => Received(i, j)' = Received(i, j)
      PROVE  Summands1(i) = Summands(i)
  BY <1>2 DEF Summands
<1>3. ASSUME NEW p \in Party, SplitShares(p)
      PROVE  aggregate'[i] = FieldFold(0, Summands1(i), N)
  <2>1. round[i] = 2 /\ aggregate' = aggregate
    BY <1>3, SplitEffect DEF CtlInv, TypeOK
  <2>2. Summands1(i) = Summands(i)
    BY <1>3, <1>2, SplitEffect
  <2>3. QED
    BY <1>1, <2>1, <2>2
<1>4. ASSUME NEW p \in Party, Send(p)
      PROVE  aggregate'[i] = FieldFold(0, Summands1(i), N)
  <2>1. Summands1(i) = Summands(i)
    BY <1>4, <1>2, SendEffect
  <2>2. round[i] = 2 /\ aggregate' = aggregate
    BY <1>4, SendEffect
  <2>3. QED
    BY <1>1, <2>1, <2>2
<1>5. ASSUME NEW p \in Party, Recv(p)
      PROVE  aggregate'[i] = FieldFold(0, Summands1(i), N)
  <2>1. /\ peer[p] \in Party /\ peer[p] # p /\ round[p] \in {1, 2}
        /\ partial' = partial /\ round' = round
        /\ Received(p, peer[p]) = round[p] - 1
        /\ \A j, q \in Party : j # q =>
             Received(j, q)' = IF j = p /\ q = peer[p] THEN round[p]
                                                       ELSE Received(j, q)
    BY <1>5, RecvEffect
  <2>2. CASE i = p
    <3>1. round[p] = 2 /\ aggregate[p] = FieldFold(0, Summands(p), N)
      BY <1>1, <2>1, <2>2
    <3>2. aggregate'[p] = field_add(aggregate[p], partial[peer[p]])
      BY <1>5, <3>1, RecvEffect DEF CtlInv, TypeOK
    <3> DEFINE x == partial[peer[p]]
    <3>3. x \in Field /\ aggregate[p] \in Field
      BY <2>1 DEF CtlInv, TypeOK
    <3>4. Summands(p)[peer[p]] = 0 /\ Summands1(p)[peer[p]] = x
      BY <2>1, <3>1 DEF Summands
    <3>5. \A k \in 0 .. (N - 1) : k # peer[p] => Summands1(p)[k] = Summands(p)[k]
      <4>1. \A k \in Party : k # peer[p] => Summands1(p)[k] = Summands(p)[k]
        BY <2>1 DEF Summands
      <4>2. QED
        BY <4>1 DEF Party
    <3>6. peer[p] \in 0 .. (N - 1) /\ \A k \in 0 .. (N - 1) : Summands(p)[k] \in Field
      BY <2>1, SummandsType DEF CtlInv, Party
    <3> HIDE DEF Summands1, x
    <3>7. FieldFold(0, Summands1(p), N) = field_add(x, FieldFold(0, Summands(p), N))
      BY <1>0, <3>3, <3>4, <3>5, <3>6, SumPoint
    <3>8. field_add(x, aggregate[p]) = field_add(aggregate[p], x)
      BY <3>3, AddComm
    <3>9. QED
      BY <2>2, <3>1, <3>2, <3>7, <3>8 DEF x
  <2>3. CASE i # p
    <3>1. Summands1(i) = Summands(i)
      BY <1>2, <2>1, <2>3
    <3>2. aggregate'[i] = aggregate[i]
      <4>1. \/ aggregate' = aggregate
            \/ aggregate' = [aggregate EXCEPT ![p] =
                                field_add(aggregate[p], partial[peer[p]])]
        BY <1>5, RecvEffect
      <4>2. QED
        BY <4>1, <2>3 DEF CtlInv, TypeOK
    <3>3. QED
      BY <1>1, <2>1, <3>1, <3>2
  <2>4. QED
    BY <2>2, <2>3
<1>6. ASSUME NEW p \in Party, ComputePartial(p)
      PROVE  aggregate'[i] = FieldFold(0, Summands1(i), N)
  <2>1. /\ round[p] = 1 /\ round' = [round EXCEPT ![p] = 2]
        /\ partial' = [partial EXCEPT ![p] = PartialSum(p)]
        /\ aggregate' = [aggregate EXCEPT ![p] = PartialSum(p)]
        /\ \A j, q \in Party : j # q => Received(j, q)' = Received(j, q)
        /\ \A q \in Party \ {p} : Received(p, q) = 1
    BY <1>6, ComputeEffect
  <2>2. PartialSum(p) \in Field /\ 0 \in Field
    BY PartialSumType, FieldAssumption DEF CtlInv, Field
  <2>3. CASE i = p
    <3> DEFINE z == [j \in Party |-> 0]
    <3>1. Summands1(p)[p] = PartialSum(p)
      BY <2>1 DEF CtlInv, TypeOK
    <3>2. \A k \in 0 .. (N - 1) : k # p => Summands1(p)[k] = z[k]
      <4>1. \A k \in Party : k # p => Summands1(p)[k] = 0
        BY <2>1
      <4>2. QED
        BY <4>1 DEF Party
    <3>3. \A k \in 0 .. (N - 1) : z[k] = 0
      BY DEF Party
    <3> HIDE DEF z, Summands1
    <3>4. FieldFold(0, Summands1(p), N) = field_add(PartialSum(p), FieldFold(0, z, N))
      BY <1>0, <2>2, <2>3, <3>1, <3>2, <3>3, SumPoint
    <3>5. FieldFold(0, z, N) = 0
      BY <1>0, <3>3, SumZero
    <3>6. aggregate'[p] = PartialSum(p)
      BY <2>1 DEF CtlInv, TypeOK
    <3>7. QED
      BY <2>2, <2>3, <3>4, <3>5, <3>6, AddZero
  <2>4. CASE i # p
    <3>1. round[i] = 2 /\ aggregate'[i] = aggregate[i]
      BY <2>1, <2>4 DEF CtlInv, TypeOK
    <3>2. Received(i, p) # 2
      <4>1. Received(i, p) <= round[p]
        BY <2>4, ReceivedMeansSent
      <4>2. QED
        BY <4>1, <2>1
    <3>3. \A j \in Party : j # p => partial'[j] = partial[j]
      BY <2>1 DEF CtlInv, TypeOK
    <3>4. Summands1(i) = Summands(i)
      BY <2>1, <2>4, <3>2, <3>3 DEF Summands
    <3>5. QED
      BY <1>1, <3>1, <3>4
  <2>5. QED
    BY <2>3, <2>4
<1>7. ASSUME NEW p \in Party, Finish(p) \/ Fault(p) \/ UNCHANGED vars
      PROVE  aggregate'[i] = FieldFold(0, Summands1(i), N)
  <2>1. Summands1(i) = Summands(i)
    BY <1>7, <1>2, OtherEffect
  <2>2. round[i] = 2 /\ aggregate' = aggregate
    BY <1>7, OtherEffect
  <2>3. QED
    BY <1>1, <2>1, <2>2
<1>8. QED
  BY <1>3, <1>4, <1>5, <1>6, <1>7, Cases

-----------------------------------------------------------------------------
(* The inductive invariant holds at the start ...                          *)
LEMMA InvInit == Init => IInv
<1> SUFFICES ASSUME Init PROVE IInv
  OBVIOUS
<1>1. TypeOK
  BY TypeInit
<1>2. LoopInv
  BY FirstPeerOther DEF Init, LoopInv
<1>3. \A p, q \in Party : round[p] = 0 /\ chan[p][q] = <<>>
  BY DEF Init
<1>4. \A p, q \in Party : Sent(p, q) = 0 /\ Received(p, q) = 0
  BY <1>3 DEF Sent, Received, Exchanged
<1>5. ChannelInv
  BY <1>3, <1>4 DEF ChannelInv
<1>6. SharesInv /\ ReceivedInv /\ PartialInv /\ AggregateInv
  BY <1>3, <1>4 DEF SharesInv, ReceivedInv, PartialInv, AggregateInv
<1>7. QED
  BY <1>1, <1>2, <1>5, <1>6 DEF IInv

(* ... and every step keeps it.                                            *)
LEMMA InvNext == IInv /\ [Next]_vars => IInv'
BY TypeNext, LoopNext, ChannelNext, SharesNext, ReceivedNext, PartialNext,
   AggregateNext DEF IInv, CtlInv

(* In every reachable state a connection holds exactly what its sender     *)
(* sent and its receiver did not read, and every share, partial sum and    *)
(* aggregate a party holds is the one of the inputs (mpc_runner.c:262-357).*)
THEOREM InvCorrect == Spec => []IInv
BY InvInit, InvNext, PTL DEF Spec

-----------------------------------------------------------------------------
(* What the invariant implies.                                             *)

LEMMA InvSuccess == IInv => SuccessNeedsAll
<1> SUFFICES ASSUME IInv, NEW p \in Party, NEW q \in Party, p # q,
                    status[p] = "MPC_OK"
             PROVE  round[q] = 2 /\ Sent(q, p) = 2
  BY DEF SuccessNeedsAll
<1>1. CtlInv
  BY DEF IInv, CtlInv
<1>2. round[p] = 2 /\ peer[p] = N
  BY DEF IInv, LoopInv
<1>3. Received(p, q) = 2
  BY <1>1, <1>2, RoundDone DEF CtlInv
<1>4. Received(p, q) <= Sent(q, p) /\ Received(p, q) <= round[q]
  BY <1>1, ReceivedMeansSent
<1>5. Sent(q, p) \in 0 .. 2 /\ round[q] \in 0 .. 2
  BY <1>1, CountBounds DEF CtlInv, TypeOK
<1>6. QED
  BY ONLY <1>3, <1>4, <1>5

(* What a party holds at the end of round 2 is the sum of all inputs: it   *)
(* is the sum over the parties of the column sums of the shares, which is  *)
(* the sum of the row sums, and the rows are the shared values.            *)
LEMMA InvAggregate ==
  ASSUME IInv, NEW p \in Party, round[p] = 2, peer[p] = N
  PROVE  /\ \A q \in Party : round[q] = 2
         /\ aggregate[p] = Total
<1>1. CtlInv /\ N \in Nat
  BY PartiesAssumption DEF IInv, CtlInv
<1>2. \A q \in Party \ {p} : Received(p, q) = 2
  BY <1>1, RoundDone DEF CtlInv
<1>3. \A q \in Party : round[q] = 2
  <2> SUFFICES ASSUME NEW q \in Party, q # p PROVE round[q] = 2
    OBVIOUS
  <2>1. Received(p, q) = 2 /\ Received(p, q) <= round[q] /\ round[q] \in 0 .. 2
    BY <1>1, <1>2, ReceivedMeansSent DEF CtlInv, TypeOK
  <2>2. QED
    BY ONLY <2>1
<1> DEFINE M == [i \in Party |-> shares[i]]
           rows == [i \in Party |-> FieldFold(0, M[i], N)]
           cols == [j \in Party |-> FieldFold(0, [i \in Party |-> M[i][j]], N)]
<1>4. FieldFold(0, rows, N) = FieldFold(0, cols, N)
  <2>1. \A i, j \in 0 .. (N - 1) : M[i][j] \in Field
    BY <1>1 DEF CtlInv, TypeOK, Party
  <2> HIDE DEF M
  <2>2. QED
    BY <1>1, <2>1, SumSquare DEF Party
<1>5. FieldFold(0, rows, N) = Total
  <2>1. \A k \in Party : rows[k] = value[k]
    BY <1>3 DEF IInv, SharesInv, share_reconstruct
  <2>2. \A k \in 0 .. (N - 1) : rows[k] = value[k]
    BY <2>1 DEF Party
  <2> HIDE DEF rows
  <2>3. QED
    BY <1>1, <2>2, FoldCong DEF Total
<1>6. FieldFold(0, cols, N) = aggregate[p]
  <2>1. \A k \in Party : cols[k] = Summands(p)[k]
    <3> SUFFICES ASSUME NEW k \in Party PROVE cols[k] = Summands(p)[k]
      OBVIOUS
    <3>1. partial[k] = FieldFold(0, [j \in Party |-> shares[j][k]], N)
      BY <1>3 DEF IInv, PartialInv
    <3>2. [i \in Party |-> M[i][k]] = [j \in Party |-> shares[j][k]]
      OBVIOUS
    <3>3. Summands(p)[k] = partial[k]
      BY <1>2 DEF Summands
    <3>4. QED
      BY <3>1, <3>2, <3>3
  <2>2. \A k \in 0 .. (N - 1) : cols[k] = Summands(p)[k]
    BY <2>1 DEF Party
  <2>3. aggregate[p] = FieldFold(0, Summands(p), N)
    BY DEF IInv, AggregateInv, Summands
  <2> HIDE DEF cols
  <2>4. QED
    BY <1>1, <2>2, <2>3, FoldCong
<1>7. QED
  BY <1>3, <1>4, <1>5, <1>6

LEMMA InvAggregateCorrect == IInv => AggregateCorrect
<1> SUFFICES ASSUME IInv, NEW p \in Party, status[p] = "MPC_OK"
             PROVE  aggregate[p] = Total
  BY DEF AggregateCorrect
<1>1. round[p] = 2 /\ peer[p] = N
  BY DEF IInv, LoopInv
<1>2. QED
  BY <1>1, InvAggregate

LEMMA InvRounds == IInv => RoundsNeverMix
<1> SUFFICES ASSUME IInv, NEW p \in Party, RecvTurn(p), chan[peer[p]][p] # <<>>
             PROVE  /\ round[peer[p]] >= round[p]
                    /\ Head(chan[peer[p]][p]) = Payload(peer[p], p, round[p])
  BY DEF RoundsNeverMix
<1>1. TypeOK /\ LoopInv /\ ChannelInv
  BY DEF IInv
<1>2. /\ Sent(peer[p], p) = round[p]
      /\ chan[peer[p]][p] = <<Payload(peer[p], p, round[p])>>
  BY <1>1, RecvFindsRound
<1>3. peer[p] \in Party /\ peer[p] # p
  BY <1>1, RecvTurnCount
<1>4. Sent(peer[p], p) <= round[peer[p]]
  BY <1>1, <1>3, CountBounds
<1>5. QED
  BY <1>2, <1>4

LEMMA InvOneMessage == IInv => OneMessageInFlight
<1> SUFFICES ASSUME IInv, NEW p \in Party, NEW q \in Party
             PROVE  Len(chan[p][q]) <= 1
  BY DEF OneMessageInFlight
<1>1. CASE chan[p][q] = <<>>
  <2>1. Len(<<>>) = 0
    OBVIOUS
  <2>2. QED
    BY <1>1, <2>1
<1>2. CASE chan[p][q] = <<Payload(p, q, Sent(p, q))>>
  <2>1. Len(<<Payload(p, q, Sent(p, q))>>) = 1
    OBVIOUS
  <2>2. Len(chan[p][q]) = 1
    BY <1>2, <2>1, Zenon
  <2>3. QED
    BY <2>2
<1>3. QED
  BY <1>1, <1>2 DEF IInv, ChannelInv

-----------------------------------------------------------------------------
(* The theorems.                                                           *)

(* A party that returns MPC_OK has the sum of all inputs, whatever failed  *)
(* in the other parties (mpc_runner.c:359-380).                            *)
THEOREM AggregateSafe == Spec => []AggregateCorrect
BY InvCorrect, InvAggregateCorrect, PTL

(* A share is never read as a partial sum, nor the other way round, though *)
(* a message carries no tag (mpc_runner.c:279-297, 331-349).               *)
THEOREM RoundsSafe == Spec => []RoundsNeverMix
BY InvCorrect, InvRounds, PTL

(* A connection never holds more than one unread message                   *)
(* (mpc_comm.h:15-17).                                                     *)
THEOREM ChannelSafe == Spec => []OneMessageInFlight
BY InvCorrect, InvOneMessage, PTL

(* No party returns MPC_OK unless every party sent it a partial sum.       *)
THEOREM SuccessSafe == Spec => []SuccessNeedsAll
BY InvCorrect, InvSuccess, PTL

-----------------------------------------------------------------------------
(* The protocol implements SecureSum.                                      *)

(* The abstract outcome and output of a party.                             *)
Outcome == [p \in Party |->
              CASE status[p] = "running" -> "none"
                [] status[p] = "MPC_OK" -> "ok"
                [] OTHER -> "failed"]
Output == [p \in Party |-> IF status[p] = "MPC_OK" THEN aggregate[p] ELSE 0]

LEMMA SumTotal == Sum!Total = Total
BY DEF Sum!Total, Sum!FieldFold, Sum!field_add, Sum!U32,
       Total, FieldFold, field_add, U32

LEMMA SumParty == Sum!Party = Party
BY DEF Sum!Party, Party

LEMMA SumInit == Init => Sum!Init
<1> SUFFICES ASSUME Init PROVE Sum!Init
  OBVIOUS
<1>1. \A p \in Party : status[p] = "running"
  BY DEF Init
<1>2. Outcome = [p \in Party |-> "none"]
  BY <1>1 DEF Outcome
<1>3. Output = [p \in Party |-> 0]
  BY <1>1 DEF Output
<1>4. value \in [Party -> Field] /\ round = [p \in Party |-> 0]
  BY DEF Init
<1>5. QED
  BY <1>2, <1>3, <1>4, SumParty DEF Sum!Init, Outcome, Output, Sum!Field, Field

(* A party that stops with s moves the abstract state of that party only.  *)
LEMMA StopMaps ==
  ASSUME TypeOK, NEW p \in Party, Running(p), NEW s \in {"MPC_OK"} \cup Failed,
         Stop(p, s)
  PROVE  /\ Outcome[p] = "none"
         /\ Outcome' = [Outcome EXCEPT ![p] = IF s = "MPC_OK" THEN "ok" ELSE "failed"]
         /\ Output' = [Output EXCEPT ![p] = IF s = "MPC_OK" THEN aggregate[p] ELSE 0]
         /\ UNCHANGED <<value, round>>
<1>1. /\ status' = [status EXCEPT ![p] = s] /\ status[p] = "running"
      /\ UNCHANGED <<value, round, aggregate>>
  BY DEF Stop, data, control, Running
<1>2. status'[p] = s /\ s # "running" /\ \A q \in Party \ {p} : status'[q] = status[q]
  BY <1>1 DEF TypeOK, Failed
<1>3. Outcome[p] = "none"
  BY <1>1 DEF Outcome
<1>4. Outcome' = [Outcome EXCEPT ![p] = IF s = "MPC_OK" THEN "ok" ELSE "failed"]
  BY <1>2 DEF Outcome
<1>5. Output' = [Output EXCEPT ![p] = IF s = "MPC_OK" THEN aggregate[p] ELSE 0]
  BY <1>1, <1>2 DEF Output
<1>6. QED
  BY <1>1, <1>3, <1>4, <1>5

LEMMA FailMaps ==
  ASSUME TypeOK, NEW p \in Party, Running(p), NEW s \in Failed, Stop(p, s)
  PROVE  Sum!Next
<1>1. s # "MPC_OK"
  BY DEF Failed
<1>2. /\ Outcome[p] = "none"
      /\ Outcome' = [Outcome EXCEPT ![p] = "failed"]
      /\ Output' = [Output EXCEPT ![p] = 0]
      /\ UNCHANGED <<value, round>>
  BY <1>1, StopMaps
<1>3. Output[p] = 0
  BY DEF Output, Running
<1>4. Output' = Output
  BY <1>2, <1>3 DEF Output
<1>5. Sum!Abort(p)
  BY <1>2, <1>4 DEF Sum!Abort, Outcome, Output
<1>6. QED
  BY <1>5, SumParty DEF Sum!Next

(* A running party may change its own aggregate: nothing was delivered.    *)
LEMMA StutterMaps ==
  ASSUME UNCHANGED <<value, round, status>>,
         \A q \in Party : status[q] = "MPC_OK" => aggregate'[q] = aggregate[q]
  PROVE  UNCHANGED Sum!vars
<1>1. Outcome' = Outcome
  BY DEF Outcome
<1>2. Output' = Output
  BY DEF Output
<1>3. QED
  BY <1>1, <1>2 DEF Sum!vars, Outcome, Output

LEMMA SumNext == IInv /\ [Next]_vars => [Sum!Next]_Sum!vars
<1> SUFFICES ASSUME IInv, [Next]_vars PROVE Sum!Next \/ UNCHANGED Sum!vars
  OBVIOUS
<1>0. CtlInv /\ TypeOK
  BY DEF IInv, CtlInv
<1>1. ASSUME NEW p \in Party, SplitShares(p) PROVE Sum!Next
  <2>1. /\ UNCHANGED <<value, status, aggregate>> /\ Running(p) /\ round[p] = 0
        /\ round' = [round EXCEPT ![p] = 1]
    BY <1>1 DEF SplitShares
  <2>2. Outcome' = Outcome /\ Output' = Output /\ Outcome[p] = "none"
    BY <2>1 DEF Outcome, Output, Running
  <2>3. Sum!Join(p)
    BY <2>1, <2>2 DEF Sum!Join, Outcome, Output
  <2>4. QED
    BY <2>3, SumParty DEF Sum!Next
<1>2. ASSUME NEW p \in Party, Send(p) \/ Recv(p) PROVE UNCHANGED Sum!vars
  <2>1. /\ UNCHANGED <<value, round, status>> /\ status[p] = "running"
    BY <1>2 DEF Send, Recv, SendTurn, RecvTurn, InExchange, Running, NextCall, data
  <2>2. ASSUME NEW q \in Party, q # p PROVE aggregate'[q] = aggregate[q]
    <3>1. CASE Send(p)
      BY <3>1 DEF Send, data
    <3>2. CASE Recv(p)
      <4>1. \/ aggregate' = aggregate
            \/ aggregate' = [aggregate EXCEPT ![p] =
                                field_add(aggregate[p], partial[peer[p]])]
        BY <1>0, <3>2, RecvEffect
      <4>2. QED
        BY <4>1, <2>2, <1>0 DEF TypeOK
    <3>3. QED
      BY <1>2, <3>1, <3>2
  <2>3. QED
    BY <2>1, <2>2, StutterMaps
<1>3. ASSUME NEW p \in Party, ComputePartial(p) PROVE Sum!Next
  <2>1. /\ UNCHANGED <<value, status>> /\ Running(p) /\ round[p] = 1
        /\ round' = [round EXCEPT ![p] = 2]
        /\ aggregate' = [aggregate EXCEPT ![p] = PartialSum(p)]
    BY <1>3 DEF ComputePartial
  <2>2. Outcome' = Outcome /\ Outcome[p] = "none"
    BY <2>1 DEF Outcome, Running
  <2>3. Output' = Output
    BY <2>1, <1>0 DEF Output, Running, TypeOK
  <2>4. ASSUME NEW q \in Party PROVE round[q] >= 1
    <3>1. CASE q = p
      BY <2>1, <3>1
    <3>2. CASE q # p
      <4>1. Received(p, q) = 1
        BY <1>0, <1>3, <3>2, ComputeEffect
      <4>2. Received(p, q) <= round[q]
        BY <1>0, <3>2, ReceivedMeansSent
      <4>3. QED
        BY <4>1, <4>2
    <3>3. QED
      BY <3>1, <3>2
  <2>5. Sum!Contribute(p)
    BY <2>1, <2>2, <2>3, <2>4, SumParty DEF Sum!Contribute, Outcome, Output
  <2>6. QED
    BY <2>5, SumParty DEF Sum!Next
<1>4. ASSUME NEW p \in Party, Finish(p) PROVE Sum!Next
  <2>1. Running(p) /\ round[p] = 2 /\ peer[p] = N /\ Stop(p, "MPC_OK")
    BY <1>4 DEF Finish
  <2>2. /\ Outcome[p] = "none"
        /\ Outcome' = [Outcome EXCEPT ![p] = "ok"]
        /\ Output' = [Output EXCEPT ![p] = aggregate[p]]
        /\ UNCHANGED <<value, round>>
    BY <2>1, <1>0, StopMaps
  <2>3. aggregate[p] = Total /\ \A q \in Party : round[q] = 2
    BY <2>1, InvAggregate
  <2>4. Sum!Deliver(p)
    BY <2>2, <2>3, SumTotal, SumParty DEF Sum!Deliver, Outcome, Output
  <2>5. QED
    BY <2>4, SumParty DEF Sum!Next
<1>5. ASSUME NEW p \in Party, NEW s \in Failed, Running(p), Stop(p, s)
      PROVE  Sum!Next
  BY <1>0, <1>5, FailMaps
<1>6. ASSUME NEW p \in Party, NEW q \in Party, LoseTail(p, q) \/ UNCHANGED vars
      PROVE  UNCHANGED Sum!vars
  BY <1>6, StutterMaps DEF LoseTail, vars, data, control
<1>7. ASSUME NEW p \in Party, Fault(p)
      PROVE  \/ \E s \in Failed : Running(p) /\ Stop(p, s)
             \/ \E q \in Party : LoseTail(p, q)
  BY <1>7 DEF Fault, SendFails, RecvFails, Timeout, Crash, SendTurn, RecvTurn,
              InExchange, Failed
<1>8. QED
  BY <1>1, <1>2, <1>3, <1>4, <1>5, <1>6, <1>7, Cases

(* The code's protocol does what SecureSum promises: nobody contributes    *)
(* before all have joined, and what is delivered is the sum of all inputs. *)
THEOREM Refinement == Spec => ImplementsSecureSum
BY SumInit, SumNext, InvCorrect, PTL DEF Spec, ImplementsSecureSum, Sum!Spec

-----------------------------------------------------------------------------
(* No receive times out that should not.                                   *)
(*                                                                         *)
(* Take a message as the unit of time, let all parties start at 0 and      *)
(* every message take one unit: a lower id p then sends to q at 2q - 2 and *)
(* gets the answer at 2q, and round 2 begins at 2N - 2.  Depth is when, in *)
(* this schedule, a party makes its pending call, and Arrival when a       *)
(* message is received.                                                    *)
RoundStart(r) == IF r = 2 THEN 2 * N - 2 ELSE 0
Depth(p) ==
  RoundStart(round[p]) + (IF peer[p] < p THEN 2 * p - 1
                          ELSE 2 * (peer[p] - 1 + half[p]))
Arrival(p, q) == RoundStart(Sent(p, q)) + IF p < q THEN 2 * q - 1 ELSE 2 * p

(* The longest time that d messages take, and the longest wait.            *)
Way(d) == d * Latency
LongestWait == Way(2 * N - 3) + Longer(Skew, Latency)

(* Nobody is later than the schedule when that begins c from now.          *)
InTime(c) ==
  /\ \A p \in Party : Running(p) => 0 <= c + Way(Depth(p))
  /\ \A p \in Party : round[p] = 0 => Skew - clock <= c + Way(Depth(p))
  /\ \A p, q \in Party :
       chan[p][q] # <<>> => Latency - age[p][q] <= c + Way(Arrival(p, q))

(* In time nothing fails and no message is lost; and to whomever waits,    *)
(* there is a schedule that nobody is behind and by which the wait ends    *)
(* soon enough.                                                            *)
ClockInv ==
  /\ clock \in 0 .. Skew
  /\ age \in [Party -> [Party -> 0 .. Latency]]
  /\ waited \in [Party -> Nat]
NoFault ==
  /\ \A p \in Party : status[p] \in {"running", "MPC_OK"}
  /\ \A p, q \in Party :
       (p # q /\ Running(q) /\ Received(q, p) < Sent(p, q)) => chan[p][q] # <<>>
WaitInv ==
  \A p \in Party : RecvTurn(p) =>
    \E c \in Int : InTime(c) /\ waited[p] + c + Way(Depth(p)) <= LongestWait
TimedInv ==
  /\ IInv
  /\ mode = "clock" => ClockInv /\ NoFault /\ WaitInv

-----------------------------------------------------------------------------
(* The schedule.                                                           *)
LEMMA WayFacts ==
  ASSUME NEW d \in Nat, NEW e \in Nat
  PROVE  /\ Way(d) \in Nat
         /\ d <= e => Way(d) <= Way(e)
         /\ d < e => Way(d) + Latency <= Way(e)
         /\ Way(d + e) = Way(d) + Way(e)
<1>1. Latency \in Nat
  BY TimingAssumption
<1>2. \A a, b \in Nat : a * Latency \in Nat /\ (a + b) * Latency = a * Latency + b * Latency
  BY ONLY <1>1
<1>3. ASSUME d <= e PROVE d * Latency <= e * Latency
  <2>1. e - d \in Nat /\ d + (e - d) = e
    BY ONLY <1>3, d \in Nat, e \in Nat
  <2>2. e * Latency = d * Latency + (e - d) * Latency /\ (e - d) * Latency \in Nat
        /\ d * Latency \in Nat
    BY <2>1, <1>2
  <2>3. QED
    BY ONLY <2>2
<1>4. ASSUME d < e PROVE d * Latency + Latency <= e * Latency
  <2>1. e - d - 1 \in Nat /\ d + 1 + (e - d - 1) = e /\ d + 1 \in Nat
    BY ONLY <1>4, d \in Nat, e \in Nat
  <2>2. e * Latency = (d + 1) * Latency + (e - d - 1) * Latency
        /\ (e - d - 1) * Latency \in Nat
    BY <2>1, <1>2
  <2>3. (d + 1) * Latency = d * Latency + 1 * Latency /\ 1 * Latency = Latency
        /\ d * Latency \in Nat
    BY <1>1, <1>2
  <2>4. QED
    BY ONLY <1>1, <2>2, <2>3
<1>5. QED
  BY <1>2, <1>3, <1>4 DEF Way

(* What is known of a party at its pending call.                           *)
LEMMA ControlFacts ==
  ASSUME CtlInv, NEW p \in Party
  PROVE  /\ p \in Nat /\ p < N /\ N \in Nat
         /\ round[p] \in 0 .. 2 /\ peer[p] \in 0 .. N /\ half[p] \in {0, 1}
         /\ peer[p] # p
         /\ half[p] = 1 => peer[p] < N
         /\ round[p] = 0 => peer[p] = FirstPeer(p) /\ half[p] = 0
         /\ status[p] = "MPC_OK" => round[p] = 2 /\ peer[p] = N
BY PartiesAssumption DEF CtlInv, TypeOK, LoopInv, Party

LEMMA DepthType ==
  ASSUME CtlInv, NEW p \in Party
  PROVE  /\ Depth(p) \in Nat
         /\ round[p] # 2 => Depth(p) <= 2 * N - 2
         /\ round[p] = 2 => Depth(p) >= 2 * N - 2
<1>1. /\ p \in Nat /\ p < N /\ N \in Nat
      /\ round[p] \in 0 .. 2 /\ peer[p] \in 0 .. N /\ half[p] \in {0, 1}
      /\ peer[p] # p /\ (half[p] = 1 => peer[p] < N)
  BY ControlFacts
<1>2. QED
  BY ONLY <1>1 DEF Depth, RoundStart

LEMMA ArrivalType ==
  ASSUME CtlInv, NEW p \in Party, NEW q \in Party, p # q
  PROVE  Arrival(p, q) \in Nat /\ Arrival(p, q) >= 1
<1>1. p \in Nat /\ q \in Nat /\ N \in Nat /\ p < N /\ q < N
  BY ControlFacts
<1>2. QED
  BY ONLY <1>1, p # q DEF Arrival, RoundStart

(* A message on its way is not yet late for its receiver.                  *)
LEMMA ArrivalAfter ==
  ASSUME CtlInv, NEW p \in Party, NEW q \in Party, chan[p][q] # <<>>
  PROVE  /\ p # q /\ Running(q) /\ Depth(q) <= Arrival(p, q)
         /\ q < peer[q] /\ half[q] = 0 => Depth(q) < Arrival(p, q)
<1>1. p # q /\ Running(q) /\ Sent(p, q) = Received(q, p) + 1
  BY DEF CtlInv, ChannelInv
<1>2. /\ p \in Nat /\ q \in Nat /\ N \in Nat /\ p < N /\ q < N
      /\ round[q] \in 0 .. 2 /\ peer[q] \in 0 .. N /\ half[q] \in {0, 1}
      /\ peer[q] # q /\ (half[q] = 1 => peer[q] < N)
      /\ round[q] = 0 => peer[q] = FirstPeer(q) /\ half[q] = 0
  BY ControlFacts
<1>3. Sent(p, q) \in 0 .. 2
  BY <1>1, CountBounds DEF CtlInv
<1>4. Received(q, p) =
        IF round[q] = 0 THEN 0
        ELSE round[q] - 1 +
             (IF p < peer[q] \/ (p = peer[q] /\ half[q] = 1 /\ p < q) THEN 1 ELSE 0)
  BY DEF Received, Exchanged
<1>5. /\ Depth(q) <= Arrival(p, q)
      /\ q < peer[q] /\ half[q] = 0 => Depth(q) < Arrival(p, q)
  BY ONLY <1>1, <1>2, <1>3, <1>4 DEF Depth, Arrival, RoundStart, FirstPeer
<1>6. QED
  BY <1>1, <1>5

(* A message arrives one unit after it is sent.                            *)
LEMMA SendDepth ==
  ASSUME CtlInv, NEW p \in Party, SendTurn(p), NEW s, s = round[p]
  PROVE  RoundStart(s) + (IF p < peer[p] THEN 2 * peer[p] - 1 ELSE 2 * p) =
           Depth(p) + 1
<1>1. /\ p \in Nat /\ p < N /\ N \in Nat
      /\ round[p] \in 0 .. 2 /\ peer[p] \in 0 .. N /\ half[p] \in {0, 1}
      /\ peer[p] # p /\ (half[p] = 0 <=> p < peer[p])
  BY ControlFacts DEF SendTurn
<1>2. QED
  BY ONLY <1>1, s = round[p] DEF Depth, RoundStart

(* A party that waits for nothing in sight waits for one whose call comes  *)
(* first.                                                                  *)
LEMMA WaitsForEarlier ==
  ASSUME CtlInv, NEW p \in Party, RecvTurn(p), NEW q \in Party, q = peer[p],
         Sent(q, p) <= Received(p, q), RecvTurn(q) \/ round[q] = 0
  PROVE  Depth(q) < Depth(p)
<1>1. /\ p \in Nat /\ q \in Nat /\ N \in Nat /\ p < N /\ q < N
      /\ round[q] \in 0 .. 2 /\ peer[q] \in 0 .. N /\ half[q] \in {0, 1}
      /\ peer[q] # q /\ (half[q] = 1 => peer[q] < N)
      /\ round[q] = 0 => peer[q] = FirstPeer(q) /\ half[q] = 0
      /\ round[p] \in {1, 2} /\ peer[p] = q /\ half[p] \in {0, 1} /\ p # q
  BY ControlFacts DEF RecvTurn, InExchange
<1>2. Received(p, q) = round[p] - 1
  BY RecvTurnCount DEF CtlInv
<1>3. ~(half[p] = 0 <=> p < q)
  BY DEF RecvTurn, SendTurn
<1>4. round[q] = 0 \/ ~(half[q] = 0 <=> q < peer[q])
  BY DEF RecvTurn, SendTurn
<1>5. (IF round[q] = 0 THEN 0
       ELSE round[q] - 1 +
            (IF p < peer[q] \/ (p = peer[q] /\ half[q] = 1 /\ q < p) THEN 1 ELSE 0))
        <= round[p] - 1
  BY <1>2 DEF Sent, Exchanged
<1>6. round[q] <= round[p]
  BY ONLY <1>1, <1>5
<1>7. CASE round[q] = 0
  BY ONLY <1>1, <1>3, <1>7 DEF Depth, RoundStart, FirstPeer
<1>8. CASE round[q] = round[p]
  <2>1. ~(p < peer[q]) /\ ~(p = peer[q] /\ half[q] = 1 /\ q < p)
    BY ONLY <1>1, <1>5, <1>8
  <2>2. CASE p < q
    BY ONLY <1>1, <1>3, <1>8, <2>1, <2>2 DEF Depth, RoundStart
  <2>3. CASE q < p
    BY ONLY <1>1, <1>3, <1>4, <1>8, <2>1, <2>3 DEF Depth, RoundStart
  <2>4. QED
    BY ONLY <1>1, <2>2, <2>3
<1>9. CASE round[q] = 1 /\ round[p] = 2
  <2>1. Depth(q) <= 2 * N - 2
    BY <1>9, DepthType
  <2>2. Depth(p) > 2 * N - 2
    BY ONLY <1>1, <1>3, <1>9 DEF Depth, RoundStart
  <2>3. QED
    BY <1>9, <2>1, <2>2, DepthType, ControlFacts
<1>10. QED
  BY ONLY <1>1, <1>6, <1>7, <1>8, <1>9

(* Who waits in round 2 for what is due d after its beginning knows that   *)
(* everybody is d into round 1, and to send before it receives if no       *)
(* further.                                                                *)
LEMMA RoundTwoDepth ==
  ASSUME CtlInv, NEW p \in Party, RecvTurn(p), round[p] = 2,
         NEW d, d = Depth(p) - (2 * N - 2), NEW x \in Party
  PROVE  /\ round[x] >= 1 /\ d \in Nat /\ Depth(x) >= d
         /\ Depth(x) = d => x < peer[x] /\ half[x] = 0
<1> DEFINE q == peer[p]
<1>1. /\ p \in Nat /\ N \in Nat /\ p < N /\ q \in Nat /\ q < N /\ p # q
      /\ half[p] \in {0, 1} /\ q \in Party
      /\ ~(half[p] = 0 <=> p < q)
  BY ControlFacts, RecvTurnCount DEF RecvTurn, SendTurn, InExchange, CtlInv
<1>2. d = IF q < p THEN 2 * p - 1 ELSE 2 * q
  <2>1. Depth(p) = 2 * N - 2 + IF q < p THEN 2 * p - 1 ELSE 2 * (q - 1 + half[p])
    BY DEF Depth, RoundStart
  <2>2. QED
    BY ONLY <1>1, <2>1, d = Depth(p) - (2 * N - 2)
<1>3. \A y \in Party : y # p =>
        /\ Sent(y, p) >= 1 /\ Received(p, y) <= Sent(y, p)
        /\ y < q => Sent(y, p) = 2
  <2> SUFFICES ASSUME NEW y \in Party, y # p
               PROVE  /\ Sent(y, p) >= 1 /\ Received(p, y) <= Sent(y, p)
                      /\ y < q => Sent(y, p) = 2
    OBVIOUS
  <2>1. Received(p, y) <= Sent(y, p) /\ Sent(y, p) \in 0 .. 2
    BY ReceivedMeansSent, CountBounds DEF CtlInv
  <2>2. Received(p, y) >= 1 /\ Received(p, y) \in 0 .. 2 /\ (y < q => Received(p, y) = 2)
    BY <1>1 DEF Received, Exchanged
  <2>3. QED
    BY ONLY <2>1, <2>2
<1>4. /\ x \in Nat /\ x < N /\ round[x] \in 0 .. 2 /\ peer[x] \in 0 .. N
      /\ half[x] \in {0, 1} /\ peer[x] # x /\ (half[x] = 1 => peer[x] < N)
  BY ControlFacts
<1>5. Depth(x) = (IF round[x] = 2 THEN 2 * N - 2 ELSE 0) +
                 (IF peer[x] < x THEN 2 * x - 1 ELSE 2 * (peer[x] - 1 + half[x]))
  BY DEF Depth, RoundStart
<1>6. CASE x = p
  <2>1. Depth(p) \in Nat
    BY DepthType
  <2>2. QED
    BY ONLY <1>1, <1>2, <1>6, <2>1, round[p] = 2, d = Depth(p) - (2 * N - 2)
<1>7. CASE x # p
  <2>1. (IF round[x] = 0 THEN 0
         ELSE round[x] - 1 +
              (IF p < peer[x] \/ (p = peer[x] /\ half[x] = 1 /\ x < p) THEN 1 ELSE 0))
        = Sent(x, p)
    BY DEF Sent, Exchanged
  <2>2. Sent(x, p) >= 1 /\ (x < q => Sent(x, p) = 2)
    BY <1>3, <1>7
  <2>3. round[x] \in {1, 2}
    BY ONLY <1>4, <2>1, <2>2
  <2>4. CASE round[x] = 2
    <3>1. CASE x < q
      BY ONLY <1>1, <1>2, <1>4, <1>5, <1>7, <2>1, <2>2, <2>4, <3>1
    <3>2. CASE q <= x
      BY ONLY <1>1, <1>2, <1>4, <1>5, <1>7, <2>4, <3>2
    <3>3. QED
      BY ONLY <1>1, <1>4, <3>1, <3>2
  <2>5. CASE round[x] = 1
    <3>1. q <= x /\ (p < peer[x] \/ (p = peer[x] /\ half[x] = 1 /\ x < p))
      BY ONLY <1>1, <1>4, <2>1, <2>2, <2>5
    <3>2. CASE q < p \/ q < x
      BY ONLY <1>1, <1>2, <1>4, <1>5, <1>7, <2>5, <3>1, <3>2
    <3>3. CASE p < q /\ q = x
      <4>1. x < peer[x]
        <5>1. CASE p = x - 1
          BY ONLY <1>1, <1>4, <3>1, <3>3, <5>1
        <5>2. CASE p < x - 1
          <6> DEFINE y == x - 1
          <6>1. y \in Party /\ y # p /\ y # x /\ y < x /\ y < q
            BY <1>1, <1>4, <3>3, <5>2 DEF Party
          <6>2. Sent(y, p) = 2 /\ Sent(y, p) <= round[y] /\ round[y] \in 0 .. 2
            BY <1>3, <6>1, CountBounds DEF CtlInv, TypeOK
          <6>3. Received(y, x) <= Sent(x, y) /\ round[y] <= Received(y, x) + 1
                /\ Received(y, x) \in 0 .. 2 /\ Sent(x, y) \in 0 .. 2
            BY <6>1, ReceivedMeansSent, CountBounds DEF CtlInv
          <6>4. Sent(x, y) >= 1
            BY ONLY <6>2, <6>3
          <6>5. y < peer[x] \/ (y = peer[x] /\ half[x] = 1 /\ x < y)
            BY <2>5, <6>4 DEF Sent, Exchanged
          <6>6. QED
            BY ONLY <1>4, <6>1, <6>5
        <5>3. QED
          BY ONLY <1>1, <1>4, <3>3, <5>1, <5>2
      <4>2. QED
        BY ONLY <1>1, <1>2, <1>4, <1>5, <2>5, <3>3, <4>1
    <3>4. QED
      BY ONLY <1>1, <1>4, <3>1, <3>2, <3>3
  <2>6. QED
    BY <2>3, <2>4, <2>5
<1>8. QED
  BY <1>6, <1>7

(* Whoever waits can count on a schedule that begins late enough for all   *)
(* others, and soon enough for the wait to be no longer than the longest.  *)
FreshWait ==
  \A p \in Party : RecvTurn(p) =>
    \E c \in Int : InTime(c) /\ c + Way(Depth(p)) <= LongestWait

LEMMA WaitBegins == CtlInv /\ ClockInv => FreshWait
<1> SUFFICES ASSUME CtlInv, ClockInv, NEW p \in Party, RecvTurn(p)
             PROVE  \E c \in Int : InTime(c) /\ c + Way(Depth(p)) <= LongestWait
  BY DEF FreshWait
<1> DEFINE q == peer[p]
<1>1. /\ p \in Nat /\ N \in Nat /\ p < N /\ q \in Nat /\ q < N /\ p # q
      /\ half[p] \in {0, 1} /\ q \in Party /\ round[p] \in {1, 2}
      /\ ~(half[p] = 0 <=> p < q)
  BY ControlFacts, RecvTurnCount DEF RecvTurn, SendTurn, InExchange, CtlInv
<1>2. /\ Latency \in Nat /\ Skew \in Nat /\ clock \in 0 .. Skew
      /\ \A x, y \in Party : age[x][y] \in 0 .. Latency
  BY TimingAssumption DEF ClockInv
<1>3. Depth(p) = RoundStart(round[p]) + IF q < p THEN 2 * p - 1 ELSE 2 * q
  <2>1. Depth(p) = RoundStart(round[p]) +
                   IF q < p THEN 2 * p - 1 ELSE 2 * (q - 1 + half[p])
    BY DEF Depth
  <2>2. (IF q < p THEN 2 * p - 1 ELSE 2 * (q - 1 + half[p])) =
        (IF q < p THEN 2 * p - 1 ELSE 2 * q)
    BY ONLY <1>1
  <2>3. QED
    BY <2>1, <2>2
<1>4. /\ 2 * N - 3 \in Nat /\ 1 \in Nat /\ 2 * N - 2 = 2 * N - 3 + 1
      /\ 2 * N - 2 \in Nat
  BY ONLY <1>1
<1>5. /\ Way(2 * N - 2) = Way(2 * N - 3) + Latency
      /\ Way(2 * N - 3) \in Nat /\ Way(2 * N - 3) >= Latency
  <2>1. Way(1) = Latency
    BY ONLY <1>2 DEF Way
  <2>2. QED
    <3>1. Way(2 * N - 3 + 1) = Way(2 * N - 3) + Way(1) /\ Way(2 * N - 3) \in Nat
      BY <1>4, WayFacts
    <3>2. 1 <= 2 * N - 3
      BY ONLY <1>1
    <3>3. Way(1) <= Way(2 * N - 3)
      BY <1>4, <3>2, WayFacts
    <3>4. QED
      BY ONLY <1>4, <2>1, <3>1, <3>3
<1>6. /\ Longer(Skew, Latency) \in Nat
      /\ Longer(Skew, Latency) >= Skew /\ Longer(Skew, Latency) >= Latency
  BY ONLY <1>2 DEF Longer
<1>7. \A x \in Party : Depth(x) \in Nat /\ Way(Depth(x)) \in Nat
  BY DepthType, WayFacts
<1>8. \A x, y \in Party : chan[x][y] # <<>> =>
        Arrival(x, y) \in Nat /\ Way(Arrival(x, y)) >= Latency
                            /\ Way(Arrival(x, y)) \in Nat
  <2> SUFFICES ASSUME NEW x \in Party, NEW y \in Party, chan[x][y] # <<>>
               PROVE  Arrival(x, y) \in Nat /\ Way(Arrival(x, y)) >= Latency
                            /\ Way(Arrival(x, y)) \in Nat
    OBVIOUS
  <2>1. Arrival(x, y) \in Nat /\ 0 < Arrival(x, y)
    BY ArrivalAfter, ArrivalType
  <2>2. Way(0) \in Nat /\ Way(0) + Latency <= Way(Arrival(x, y)) /\ Way(Arrival(x, y)) \in Nat
    BY <2>1, WayFacts
  <2>3. QED
    BY ONLY <1>2, <2>1, <2>2
<1>9. CASE round[p] = 1 /\ q < p
  <2>1. InTime(Skew)
    BY <1>2, <1>7, <1>8 DEF InTime
  <2>2. Depth(p) <= 2 * N - 3
    BY ONLY <1>1, <1>3, <1>9 DEF RoundStart
  <2>3. Way(Depth(p)) <= Way(2 * N - 3)
    BY <1>4, <1>7, <2>2, WayFacts
  <2>4. Skew + Way(Depth(p)) <= LongestWait
    BY ONLY <1>2, <1>5, <1>6, <1>7, <2>3, p \in Party DEF LongestWait
  <2>5. QED
    BY <1>2, <2>1, <2>4
<1>10. CASE round[p] = 1 /\ p < q
  <2>1. 2 * q - 1 \in Nat /\ Depth(p) = 2 * q - 1 + 1 /\ Depth(p) <= 2 * N - 2
    BY ONLY <1>1, <1>3, <1>10 DEF RoundStart
  <2>2. /\ Way(2 * q - 1) \in Nat /\ Way(Depth(p)) = Way(2 * q - 1) + Latency
        /\ Way(Depth(p)) <= Way(2 * N - 2)
    <3>1. Way(1) = Latency
      BY ONLY <1>2 DEF Way
    <3>2. QED
      BY <1>4, <1>7, <2>1, <3>1, WayFacts
  <2>3. ASSUME NEW x \in Party, round[x] = 0
        PROVE  Way(2 * q - 1) <= Way(Depth(x))
    <3>1. x # p
      BY <1>1, <2>3
    <3>2. Received(p, x) = 0
      <4>1. Received(p, x) <= round[x] /\ Received(p, x) \in 0 .. 2
        BY <3>1, ReceivedMeansSent, CountBounds DEF CtlInv
      <4>2. QED
        BY ONLY <4>1, <2>3
    <3>3. /\ x \in Nat /\ x < N /\ peer[x] = FirstPeer(x) /\ half[x] = 0
          /\ ~(x < q)
      BY <1>10, <2>3, <3>2, ControlFacts DEF Received, Exchanged
    <3>4. Depth(x) = IF peer[x] < x THEN 2 * x - 1 ELSE 2 * (peer[x] - 1 + half[x])
      <4>1. Depth(x) = 0 + IF peer[x] < x THEN 2 * x - 1
                           ELSE 2 * (peer[x] - 1 + half[x])
        BY <2>3 DEF Depth, RoundStart
      <4>2. QED
        BY ONLY <3>3, <4>1 DEF FirstPeer
    <3>5. 2 * q - 1 <= Depth(x)
      BY ONLY <1>1, <1>10, <3>3, <3>4 DEF FirstPeer
    <3>6. QED
      BY <1>7, <2>1, <3>5, WayFacts
  <2> DEFINE c == IF Skew <= Way(2 * q - 1) THEN 0 ELSE Skew - Way(2 * q - 1)
  <2>4. c \in Nat /\ Skew <= c + Way(2 * q - 1)
    BY ONLY <1>2, <2>2
  <2>5. c + Way(Depth(p)) <= LongestWait
    BY ONLY <1>2, <1>5, <1>6, <1>7, <2>2, p \in Party DEF LongestWait
  <2> HIDE DEF c
  <2>6. InTime(c)
    <3>1. ASSUME NEW x \in Party, round[x] = 0
          PROVE  Skew - clock <= c + Way(Depth(x))
      <4>1. Way(2 * q - 1) <= Way(Depth(x)) /\ Way(Depth(x)) \in Nat
        BY <1>7, <2>3, <3>1
      <4>2. QED
        BY ONLY <1>2, <2>2, <2>4, <4>1
    <3>2. QED
      BY <1>2, <1>7, <1>8, <2>4, <3>1 DEF InTime
  <2>7. QED
    BY <2>4, <2>5, <2>6
<1>11. CASE round[p] = 2
  <2> DEFINE d == Depth(p) - (2 * N - 2)
  <2>1. d \in Nat /\ \A x \in Party : round[x] >= 1 /\ Depth(x) >= d
                               /\ (Depth(x) = d => x < peer[x] /\ half[x] = 0)
    BY <1>11, RoundTwoDepth
  <2>2. Depth(p) = d + (2 * N - 2)
    BY ONLY <1>1, <1>7, p \in Party
  <2> HIDE DEF d
  <2>3. Way(d) \in Nat /\ Way(Depth(p)) = Way(d) + Way(2 * N - 2)
    BY <1>4, <2>1, <2>2, WayFacts
  <2>4. 0 - Way(d) + Way(Depth(p)) <= LongestWait
    BY ONLY <1>2, <1>5, <1>6, <2>3 DEF LongestWait
  <2>5. \A x \in Party : Way(d) <= Way(Depth(x))
    BY <1>7, <2>1, WayFacts
  <2>6. ASSUME NEW x \in Party, NEW y \in Party, chan[x][y] # <<>>
        PROVE  Way(d) + Latency <= Way(Arrival(x, y)) /\ Way(Arrival(x, y)) \in Nat
    <3>1. /\ Depth(y) <= Arrival(x, y)
          /\ y < peer[y] /\ half[y] = 0 => Depth(y) < Arrival(x, y)
      BY <2>6, ArrivalAfter
    <3>2. Arrival(x, y) \in Nat /\ Depth(y) \in Nat
      BY <1>7, <1>8, <2>6
    <3>3. Depth(y) >= d /\ (Depth(y) = d => y < peer[y] /\ half[y] = 0)
      BY <2>1
    <3>4. d < Arrival(x, y)
      BY ONLY <2>1, <3>1, <3>2, <3>3
    <3>5. QED
      BY <2>1, <3>2, <3>4, WayFacts
  <2>7. InTime(0 - Way(d))
    <3>1. \A x \in Party : 0 <= 0 - Way(d) + Way(Depth(x))
      BY <1>7, <2>3, <2>5
    <3>2. \A x \in Party : round[x] # 0
      BY <2>1
    <3>3. \A x, y \in Party : chan[x][y] # <<>> =>
            Latency - age[x][y] <= 0 - Way(d) + Way(Arrival(x, y))
      <4> SUFFICES ASSUME NEW x \in Party, NEW y \in Party, chan[x][y] # <<>>
                   PROVE  Latency - age[x][y] <= 0 - Way(d) + Way(Arrival(x, y))
        OBVIOUS
      <4>1. age[x][y] \in 0 .. Latency
        BY <1>2
      <4>2. QED
        BY <1>2, <2>3, <2>6, <4>1
    <3>4. QED
      BY <3>1, <3>2, <3>3 DEF InTime
  <2>8. 0 - Way(d) \in Int
    BY <2>3
  <2>9. QED
    BY <2>4, <2>7, <2>8
<1>12. QED
  BY <1>1, <1>9, <1>10, <1>11

-----------------------------------------------------------------------------
(* What a step without a fault does to the schedule.                       *)

(* The beginning of a round sends and receives nothing.                    *)
LEMMA RoundBegins ==
  ASSUME CtlInv, NEW p \in Party, SplitShares(p) \/ ComputePartial(p)
  PROVE  /\ \A x, y \in Party : x # y =>
              Sent(x, y)' = Sent(x, y) /\ Received(x, y)' = Received(x, y)
         /\ \A x \in Party : Depth(x)' >= Depth(x)
<1>1. /\ p \in Nat /\ p < N /\ N \in Nat /\ round[p] \in 0 .. 2
      /\ peer[p] \in 0 .. N /\ half[p] \in {0, 1}
      /\ (half[p] = 1 => peer[p] < N)
      /\ round[p] = 0 => peer[p] = FirstPeer(p) /\ half[p] = 0
  BY ControlFacts
<1>2. /\ half' = half
      /\ \/ round[p] = 0 /\ round'[p] = 1 /\ peer'[p] = peer[p]
         \/ round[p] = 1 /\ peer[p] = N /\ round'[p] = 2 /\ peer'[p] = FirstPeer(p)
  BY DEF SplitShares, ComputePartial, CtlInv, TypeOK
<1>3. ASSUME NEW x \in Party, x # p
      PROVE  round'[x] = round[x] /\ peer'[x] = peer[x] /\ half'[x] = half[x]
  BY <1>3 DEF SplitShares, ComputePartial, CtlInv, TypeOK
<1>4. ASSUME NEW x \in Party, NEW y \in Party, x # y
      PROVE  Sent(x, y)' = Sent(x, y) /\ Received(x, y)' = Received(x, y)
  <2>1. CASE x # p
    <3>1. round'[x] = round[x] /\ peer'[x] = peer[x] /\ half'[x] = half[x]
      BY <1>3, <2>1
    <3>2. QED
      BY <3>1 DEF Sent, Received, Exchanged
  <2>2. CASE x = p
    <3>1. y \in Nat /\ y < N
      BY ControlFacts
    <3>2. QED
      BY ONLY <1>1, <1>2, <1>4, <2>2, <3>1 DEF Sent, Received, Exchanged, FirstPeer
  <2>3. QED
    BY <2>1, <2>2
<1>5. ASSUME NEW x \in Party PROVE Depth(x)' >= Depth(x)
  <2>1. CASE x # p
    <3>1. round'[x] = round[x] /\ peer'[x] = peer[x] /\ half'[x] = half[x]
      BY <1>3, <2>1
    <3>2. Depth(x)' = Depth(x) /\ Depth(x) \in Nat
      BY <3>1, DepthType DEF Depth
    <3>3. QED
      BY <3>2
  <2>2. CASE x = p
    BY ONLY <1>1, <1>2, <2>2 DEF Depth, RoundStart, FirstPeer
  <2>3. QED
    BY <2>1, <2>2
<1>6. QED
  BY <1>4, <1>5

LEMMA NextCallDepth ==
  ASSUME CtlInv, NEW p \in Party, InExchange(p), NextCall(p), NEW x \in Party
  PROVE  /\ round'[x] = round[x] /\ Depth(x)' >= Depth(x)
         /\ x # p => peer'[x] = peer[x] /\ half'[x] = half[x]
<1>1. /\ p \in Nat /\ p < N /\ N \in Nat /\ round[p] \in 0 .. 2
      /\ peer[p] \in 0 .. N /\ half[p] \in {0, 1} /\ peer[p] # p
  BY ControlFacts
<1>2. /\ round' = round /\ half'[p] = 1 - half[p]
      /\ peer'[p] = IF half[p] = 0 THEN peer[p] ELSE NextPeer(p, peer[p])
      /\ x # p => peer'[x] = peer[x] /\ half'[x] = half[x]
  BY DEF NextCall, CtlInv, TypeOK
<1>3. CASE x = p
  <2>1. Depth(p)' >= Depth(p)
    BY ONLY <1>1, <1>2 DEF Depth, RoundStart, NextPeer
  <2>2. QED
    BY <1>2, <1>3, <2>1
<1>4. CASE x # p
  <2>1. Depth(x)' = Depth(x) /\ Depth(x) \in Nat
    BY <1>2, <1>4, DepthType DEF Depth
  <2>2. QED
    BY <1>2, <1>4, <2>1
<1>5. QED
  BY <1>3, <1>4

(* Nobody falls back, and what is on its way was so before or has just     *)
(* been sent.                                                              *)
Progress(p) ==
  /\ \A x \in Party : /\ Running(x)' => Running(x)
                      /\ round'[x] = 0 => round[x] = 0
                      /\ Depth(x)' >= Depth(x)
  /\ \A x, y \in Party : chan'[x][y] # <<>> =>
       \/ chan[x][y] # <<>> /\ Arrival(x, y)' = Arrival(x, y)
       \/ /\ chan[x][y] = <<>> /\ Running(p)
          /\ Arrival(x, y)' = Depth(p) + 1
  /\ \A x \in Party : RecvTurn(x)' /\ x # p =>
       RecvTurn(x) /\ Depth(x)' = Depth(x)
  /\ \A x \in Party : status'[x] \in {status[x], "MPC_OK"}
Carried ==
  \A x, y \in Party :
    (x # y /\ Running(y) /\ Received(y, x) < Sent(x, y)) => chan[x][y] # <<>>

LEMMA SameTurn ==
  ASSUME NEW x, round'[x] = round[x], peer'[x] = peer[x], half'[x] = half[x],
         RecvTurn(x)', Running(x)
  PROVE  RecvTurn(x) /\ Depth(x)' = Depth(x)
BY DEF RecvTurn, SendTurn, InExchange, Depth

LEMMA SendProgress ==
  ASSUME CtlInv, Carried, NEW p \in Party, Send(p)
  PROVE  Progress(p) /\ Carried'
<1>0. SendTurn(p) /\ peer[p] \in Party
  BY SendTurnCount DEF Send, CtlInv
<1>q. PICK q \in Party : q = peer[p]
  BY <1>0
<1>1. /\ SendTurn(p) /\ InExchange(p) /\ NextCall(p) /\ status' = status
      /\ chan' = IF Running(q) THEN [chan EXCEPT ![p][q] = Append(@, Payload(p, q, round[p]))]
                 ELSE chan
  BY <1>q DEF Send, SendTurn
<1>2. q \in Party /\ q # p /\ Sent(p, q) = round[p] - 1 /\ round[p] \in {1, 2}
  BY <1>1, <1>q, SendTurnCount DEF CtlInv
<1>3. chan[p][q] = <<>> /\ Received(q, p) = Sent(p, q)
  BY <1>1, <1>q, SendFindsEmpty DEF CtlInv
<1>4. \A x, y \in Party : x # y =>
        /\ Sent(x, y)' = IF x = p /\ y = q THEN Sent(x, y) + 1 ELSE Sent(x, y)
        /\ Received(x, y)' = Received(x, y)
  BY <1>1, <1>q, NextCallCount DEF CtlInv, RecvTurn
<1>5. chan \in [Party -> [Party -> Seq(Field)]]
  BY DEF CtlInv, TypeOK
<1>6. \A x, y \in Party : (x # p \/ y # q) => chan'[x][y] = chan[x][y]
  BY <1>1, <1>2, <1>5
<1>7. Running(q) => chan'[p][q] # <<>>
  <2>1. Running(q) => chan'[p][q] = Append(<<>>, Payload(p, q, round[p]))
    BY <1>1, <1>2, <1>3, <1>5
  <2>2. ASSUME NEW m PROVE Append(<<>>, m) # <<>>
    <3>1. Append(<<>>, m) = <<m>>
      OBVIOUS
    <3>2. QED
      BY <3>1
  <2>3. QED
    BY <2>1, <2>2
<1>8. ~Running(q) => chan'[p][q] = <<>>
  BY <1>1, <1>3
<1>9. \A x, y \in Party : chan[x][y] # <<>> => x # y
  BY DEF CtlInv, ChannelInv
<1>10. Arrival(p, q)' = Depth(p) + 1
  <2>1. Sent(p, q)' = round[p]
    BY <1>2, <1>4
  <2>2. Arrival(p, q)' = RoundStart(round[p]) + IF p < q THEN 2 * q - 1 ELSE 2 * p
    BY <2>1 DEF Arrival
  <2>3. QED
    BY <1>1, <1>q, <2>2, SendDepth
<1>11. Progress(p)
  <2>1. ASSUME NEW x \in Party, NEW y \in Party, chan'[x][y] # <<>>
        PROVE  \/ chan[x][y] # <<>> /\ Arrival(x, y)' = Arrival(x, y)
               \/ /\ chan[x][y] = <<>> /\ Running(p)
                  /\ Arrival(x, y)' = Depth(p) + 1
    <3>1. CASE x = p /\ y = q
      BY <1>1, <1>3, <1>10, <3>1 DEF InExchange
    <3>2. CASE x # p \/ y # q
      <4>1. chan[x][y] # <<>> /\ x # y
        BY <1>6, <1>9, <2>1, <3>2
      <4>2. Sent(x, y)' = Sent(x, y)
        BY <1>4, <3>2, <4>1
      <4>3. QED
        BY <4>1, <4>2 DEF Arrival
    <3>3. QED
      BY <3>1, <3>2
  <2>2. ASSUME NEW x \in Party, RecvTurn(x)', x # p
        PROVE  RecvTurn(x) /\ Depth(x)' = Depth(x)
    <3>1. round'[x] = round[x] /\ peer'[x] = peer[x] /\ half'[x] = half[x]
      BY <1>1, <2>2, NextCallDepth
    <3>2. Running(x)
      BY <1>1, <2>2 DEF RecvTurn, InExchange, Running
    <3>3. QED
      BY <2>2, <3>1, <3>2, SameTurn
  <2>3. QED
    BY <1>1, <2>1, <2>2, NextCallDepth DEF Progress, Running
<1>12. Carried'
  <2> SUFFICES ASSUME NEW x \in Party, NEW y \in Party, x # y, Running(y)',
                      Received(y, x)' < Sent(x, y)'
               PROVE  chan'[x][y] # <<>>
    BY DEF Carried
  <2>1. Running(y)
    BY <1>1 DEF Running
  <2>2. CASE x = p /\ y = q
    BY <1>7, <2>1, <2>2
  <2>3. CASE x # p \/ y # q
    <3>1. Received(y, x) < Sent(x, y)
      BY <1>4, <2>3
    <3>2. QED
      BY <1>6, <2>1, <2>3, <3>1 DEF Carried
  <2>4. QED
    BY <2>2, <2>3
<1>13. QED
  BY <1>11, <1>12

LEMMA RecvProgress ==
  ASSUME CtlInv, Carried, NEW p \in Party, Recv(p)
  PROVE  Progress(p) /\ Carried'
<1>0. RecvTurn(p) /\ peer[p] \in Party
  BY RecvTurnCount DEF Recv, CtlInv
<1>q. PICK q \in Party : q = peer[p]
  BY <1>0
<1>1. /\ RecvTurn(p) /\ InExchange(p) /\ NextCall(p) /\ status' = status
      /\ chan' = [chan EXCEPT ![q][p] = Tail(@)] /\ chan[q][p] # <<>>
  BY <1>q DEF Recv, RecvTurn
<1>2. q \in Party /\ q # p /\ Received(p, q) = round[p] - 1 /\ Sent(q, p) = round[p]
      /\ round[p] \in {1, 2} /\ chan[q][p] = <<Payload(q, p, round[p])>>
  BY <1>1, <1>q, RecvTurnCount, RecvFindsRound DEF CtlInv
<1>3. \A x, y \in Party : x # y =>
        /\ Sent(x, y)' = Sent(x, y)
        /\ Received(x, y)' = IF x = p /\ y = q THEN Received(x, y) + 1 ELSE Received(x, y)
  BY <1>1, <1>q, NextCallCount DEF CtlInv, RecvTurn
<1>4. chan \in [Party -> [Party -> Seq(Field)]]
  BY DEF CtlInv, TypeOK
<1>5. \A x, y \in Party : (x # q \/ y # p) => chan'[x][y] = chan[x][y]
  BY <1>1, <1>2, <1>4
<1>6. chan'[q][p] = <<>>
  <2>1. chan'[q][p] = Tail(<<Payload(q, p, round[p])>>)
    BY <1>1, <1>2, <1>4
  <2>2. QED
    BY <2>1
<1>7. \A x, y \in Party : chan[x][y] # <<>> => x # y
  BY DEF CtlInv, ChannelInv
<1>8. Progress(p)
  <2>1. ASSUME NEW x \in Party, NEW y \in Party, chan'[x][y] # <<>>
        PROVE  chan[x][y] # <<>> /\ Arrival(x, y)' = Arrival(x, y)
    <3>1. chan[x][y] # <<>> /\ x # y
      BY <1>5, <1>6, <1>7, <2>1
    <3>2. QED
      BY <1>3, <3>1 DEF Arrival
  <2>2. ASSUME NEW x \in Party, RecvTurn(x)', x # p
        PROVE  RecvTurn(x) /\ Depth(x)' = Depth(x)
    <3>1. round'[x] = round[x] /\ peer'[x] = peer[x] /\ half'[x] = half[x]
      BY <1>1, <2>2, NextCallDepth
    <3>2. Running(x)
      BY <1>1, <2>2 DEF RecvTurn, InExchange, Running
    <3>3. QED
      BY <2>2, <3>1, <3>2, SameTurn
  <2>3. QED
    BY <1>1, <2>1, <2>2, NextCallDepth DEF Progress, Running
<1>9. Carried'
  <2> SUFFICES ASSUME NEW x \in Party, NEW y \in Party, x # y, Running(y)',
                      Received(y, x)' < Sent(x, y)'
               PROVE  chan'[x][y] # <<>>
    BY DEF Carried
  <2>1. Running(y)
    BY <1>1 DEF Running
  <2>2. CASE x = q /\ y = p
    BY <1>2, <1>3, <2>2
  <2>3. CASE x # q \/ y # p
    <3>1. Received(y, x) < Sent(x, y)
      BY <1>3, <2>3
    <3>2. QED
      BY <1>5, <2>1, <2>3, <3>1 DEF Carried
  <2>4. QED
    BY <2>2, <2>3
<1>10. QED
  BY <1>8, <1>9

LEMMA RoundProgress ==
  ASSUME CtlInv, Carried, NEW p \in Party, SplitShares(p) \/ ComputePartial(p)
  PROVE  Progress(p) /\ Carried'
<1>1. /\ chan' = chan /\ status' = status
      /\ \A x \in Party : round'[x] = 0 => round[x] = 0
      /\ \A x \in Party : x # p =>
           round'[x] = round[x] /\ peer'[x] = peer[x] /\ half'[x] = half[x]
  BY DEF SplitShares, ComputePartial, CtlInv, TypeOK
<1>2. \A x, y \in Party : x # y =>
        Sent(x, y)' = Sent(x, y) /\ Received(x, y)' = Received(x, y)
  BY RoundBegins
<1>3. \A x \in Party : Depth(x)' >= Depth(x)
  BY RoundBegins
<1>4. ASSUME NEW x \in Party, NEW y \in Party, chan'[x][y] # <<>>
      PROVE  chan[x][y] # <<>> /\ Arrival(x, y)' = Arrival(x, y)
  <2>1. chan[x][y] # <<>> /\ x # y
    BY <1>1, <1>4 DEF CtlInv, ChannelInv
  <2>2. QED
    BY <1>2, <2>1 DEF Arrival
<1>5. ASSUME NEW x \in Party, RecvTurn(x)', x # p
      PROVE  RecvTurn(x) /\ Depth(x)' = Depth(x)
  <2>1. Running(x)
    BY <1>1, <1>5 DEF RecvTurn, InExchange, Running
  <2>2. QED
    BY <1>1, <1>5, <2>1, SameTurn
<1>6. Progress(p)
  BY <1>1, <1>3, <1>4, <1>5 DEF Progress, Running
<1>7. Carried'
  BY <1>1, <1>2 DEF Carried, Running
<1>8. QED
  BY <1>6, <1>7

LEMMA FinishProgress ==
  ASSUME CtlInv, Carried, NEW p \in Party, Finish(p)
  PROVE  Progress(p) /\ Carried'
<1>1. /\ status' = [status EXCEPT ![p] = "MPC_OK"] /\ UNCHANGED control
      /\ chan' = [i \in Party |-> [chan[i] EXCEPT ![p] = <<>>]]
  BY DEF Finish, Stop
<1>2. /\ status'[p] = "MPC_OK" /\ \A x \in Party : x # p => status'[x] = status[x]
      /\ round' = round /\ peer' = peer /\ half' = half
      /\ \A x, y \in Party : chan'[x][y] = IF y = p THEN <<>> ELSE chan[x][y]
  BY <1>1 DEF CtlInv, TypeOK, control
<1>3. \A x, y : Sent(x, y)' = Sent(x, y) /\ Received(x, y)' = Received(x, y)
  BY <1>1, SameCount
<1>4. \A x \in Party : Depth(x)' = Depth(x) /\ Depth(x) \in Nat
  BY <1>2, DepthType DEF Depth
<1>5. \A x, y \in Party : chan'[x][y] # <<>> =>
        chan[x][y] # <<>> /\ Arrival(x, y)' = Arrival(x, y)
  BY <1>2, <1>3 DEF Arrival
<1>6. ASSUME NEW x \in Party, RecvTurn(x)', x # p
      PROVE  RecvTurn(x) /\ Depth(x)' = Depth(x)
  <2>1. Running(x)
    BY <1>2, <1>6 DEF RecvTurn, InExchange, Running
  <2>2. QED
    BY <1>2, <1>6, <2>1, SameTurn
<1>7. Progress(p)
  <2>1. \A x \in Party : Depth(x)' >= Depth(x)
    BY <1>4
  <2>2. QED
    BY <1>2, <1>5, <1>6, <2>1 DEF Progress, Running
<1>8. Carried'
  <2> SUFFICES ASSUME NEW x \in Party, NEW y \in Party, x # y, Running(y)',
                      Received(y, x)' < Sent(x, y)'
               PROVE  chan'[x][y] # <<>>
    BY DEF Carried
  <2>1. y # p /\ Running(y)
    BY <1>2 DEF Running
  <2>2. QED
    BY <1>2, <1>3, <2>1 DEF Carried
<1>9. QED
  BY <1>7, <1>8

LEMMA StepProgress ==
  ASSUME CtlInv, Carried, NEW p \in Party, Step(p)
  PROVE  Progress(p) /\ Carried'
BY SendProgress, RecvProgress, RoundProgress, FinishProgress DEF Step

-----------------------------------------------------------------------------
(* Nobody falls behind the schedule, neither by a step ...                 *)

LEMMA DepthNat == CtlInv => \A x \in Party : Depth(x) \in Nat
BY DepthType

LEMMA StepInTime ==
  ASSUME CtlInv, CtlInv', ClockInv, NEW p \in Party, TimedStep(p), Progress(p),
         NEW c \in Int, InTime(c)
  PROVE  InTime(c)'
<1>1. /\ clock' = clock /\ Latency \in Nat /\ Skew \in Nat /\ clock \in Nat
      /\ \A x, y \in Party : age'[x][y] =
           IF <<>> \in {chan[x][y], chan'[x][y]} THEN 0 ELSE age[x][y]
      /\ \A x, y \in Party : age[x][y] \in 0 .. Latency
  BY TimingAssumption DEF TimedStep, ClockInv
<1>2. \A x \in Party : /\ Depth(x) \in Nat /\ Depth(x)' \in Nat
                       /\ Way(Depth(x)) \in Nat /\ Way(Depth(x)') \in Nat
                       /\ Way(Depth(x)) <= Way(Depth(x)')
  <2>1. \A x \in Party : Depth(x)' \in Nat
    <3>1. (\A x \in Party : Depth(x) \in Nat)'
      BY DepthNat, PTL
    <3>2. QED
      BY <3>1
  <2>2. \A x \in Party : Depth(x) \in Nat /\ Depth(x) <= Depth(x)'
    BY <2>1, DepthNat DEF Progress
  <2>3. QED
    BY <2>1, <2>2, WayFacts
<1>3. ASSUME NEW x \in Party, Running(x)' PROVE 0 <= c + Way(Depth(x)')
  <2>1. 0 <= c + Way(Depth(x))
    BY <1>3 DEF Progress, InTime
  <2>2. QED
    BY <1>2, <2>1
<1>4. ASSUME NEW x \in Party, round'[x] = 0
      PROVE  Skew - clock' <= c + Way(Depth(x)')
  <2>1. Skew - clock <= c + Way(Depth(x))
    BY <1>4 DEF Progress, InTime
  <2>2. QED
    BY <1>1, <1>2, <2>1
<1>5. ASSUME NEW x \in Party, NEW y \in Party, chan'[x][y] # <<>>
      PROVE  Latency - age'[x][y] <= c + Way(Arrival(x, y)')
  <2>1. CASE chan[x][y] # <<>> /\ Arrival(x, y)' = Arrival(x, y)
    BY <1>1, <1>5, <2>1 DEF InTime
  <2>2. CASE chan[x][y] = <<>> /\ Running(p) /\ Arrival(x, y)' = Depth(p) + 1
    <3>1. age'[x][y] = 0
      BY <1>1, <2>2
    <3>2. 0 <= c + Way(Depth(p))
      BY <2>2 DEF InTime
    <3>3. Way(Depth(p) + 1) = Way(Depth(p)) + Way(1) /\ Way(Depth(p)) \in Nat
      BY <1>2, WayFacts
    <3>4. Way(1) = Latency
      BY ONLY <1>1 DEF Way
    <3>5. Way(Arrival(x, y)') = Way(Depth(p)) + Latency
      BY <2>2, <3>3, <3>4
    <3>6. QED
      BY ONLY <1>1, <3>1, <3>2, <3>3, <3>5, c \in Int
  <2>3. QED
    BY <1>5, <2>1, <2>2 DEF Progress
<1>6. QED
  BY <1>3, <1>4, <1>5 DEF InTime, Way

(* ... nor while time passes: of those whose calls come first in the       *)
(* schedule, somebody would not wait.                                      *)
LEMMA LeastNatural ==
  ASSUME NEW T, T \subseteq Nat, T # {}
  PROVE  \E m \in T : \A k \in T : m <= k
<1>1. IsWellFoundedOn(OpToRel(<, Nat), Nat)
  BY NatLessThanWellFounded, Zenon
<1>2. PICK m \in T : \A k \in T : ~(<<k, m>> \in OpToRel(<, Nat))
  BY <1>1, WFMin
<1>3. \A k \in T : ~(k < m)
  BY <1>2 DEF OpToRel
<1>4. QED
  BY <1>3

LEMMA RecvDepth ==
  ASSUME CtlInv, NEW p \in Party, RecvTurn(p), NEW q \in Party, q = peer[p],
         chan[q][p] # <<>>
  PROVE  Arrival(q, p) = Depth(p)
<1>1. Sent(q, p) = round[p]
  BY RecvFindsRound DEF CtlInv
<1>2. /\ p \in Nat /\ q \in Nat /\ N \in Nat /\ p # q /\ half[p] \in {0, 1}
      /\ ~(half[p] = 0 <=> p < q) /\ peer[p] = q
  BY ControlFacts DEF RecvTurn, SendTurn
<1>3. Arrival(q, p) = RoundStart(round[p]) + IF q < p THEN 2 * p - 1 ELSE 2 * q
  BY <1>1 DEF Arrival
<1>4. Depth(p) = RoundStart(round[p]) +
                 (IF q < p THEN 2 * p - 1 ELSE 2 * (q - 1 + half[p]))
  BY <1>2 DEF Depth
<1>5. (IF q < p THEN 2 * p - 1 ELSE 2 * (q - 1 + half[p])) =
      (IF q < p THEN 2 * p - 1 ELSE 2 * q)
  BY ONLY <1>2
<1>6. QED
  BY <1>3, <1>4, <1>5

LEMMA NobodyLate ==
  ASSUME CtlInv, ClockInv, NoFault, Tick, NEW c \in Int, InTime(c),
         NEW x \in Party, Running(x)
  PROVE  1 <= c + Way(Depth(x))
<1> DEFINE Late == {y \in Party : Running(y) /\ ~(1 <= c + Way(Depth(y)))}
<1>1. \A y \in Party : Depth(y) \in Nat /\ Way(Depth(y)) \in Nat
  BY DepthNat, WayFacts
<1>2. /\ Latency \in Nat /\ Skew \in Nat /\ clock \in 0 .. Skew
      /\ \A y, z \in Party : age[y][z] \in 0 .. Latency
  BY TimingAssumption DEF ClockInv
<1>3. \A y \in Party : ~Urgent(y)
  BY DEF Tick
<1>4. SUFFICES ASSUME NEW w \in Late PROVE FALSE
  OBVIOUS
<1>5. PICK y \in Late : \A z \in Late : Depth(y) <= Depth(z)
  <2> DEFINE T == {Depth(z) : z \in Late}
  <2>1. T \subseteq Nat /\ T # {}
    BY <1>1, <1>4
  <2>2. PICK m \in T : \A k \in T : m <= k
    <3> HIDE DEF T
    <3>1. QED
      BY <2>1, LeastNatural
  <2>3. QED
    BY <2>2
<1>6. y \in Party /\ Running(y) /\ ~(1 <= c + Way(Depth(y)))
  OBVIOUS
<1>7. /\ y \in Nat /\ N \in Nat /\ round[y] \in 0 .. 2 /\ peer[y] \in 0 .. N
  BY <1>6, ControlFacts
<1>8. round[y] # 0
  <2>1. ASSUME round[y] = 0 PROVE FALSE
    <3>1. Skew - clock <= c + Way(Depth(y)) /\ clock # Skew
      BY <1>3, <1>6, <2>1 DEF InTime, Urgent
    <3>2. QED
      BY <1>1, <1>2, <1>6, <3>1
  <2>2. QED
    BY <2>1
<1>9. RecvTurn(y)
  <2>1. peer[y] # N /\ ~SendTurn(y)
    BY <1>3, <1>6, <1>7, <1>8 DEF Urgent
  <2>2. peer[y] < N
    BY ONLY <1>7, <2>1
  <2>3. QED
    BY <1>6, <1>7, <1>8, <2>1, <2>2 DEF RecvTurn, InExchange
<1>10. PICK q \in Party : q = peer[y] /\ q # y
  BY <1>6, <1>9, RecvTurnCount DEF CtlInv
<1>11. chan[q][y] = <<>>
  <2>1. ASSUME chan[q][y] # <<>> PROVE FALSE
    <3>1. age[q][y] # Latency
      BY <1>3, <1>6, <1>9, <1>10, <2>1 DEF Urgent
    <3>2. Latency - age[q][y] <= c + Way(Depth(y))
      <4>1. Arrival(q, y) = Depth(y)
        BY <1>6, <1>9, <1>10, <2>1, RecvDepth
      <4>2. QED
        BY <1>6, <2>1, <4>1 DEF InTime
    <3>3. age[q][y] \in 0 .. Latency
      BY <1>2, <1>6
    <3>4. QED
      BY <1>1, <1>2, <1>6, <3>1, <3>2, <3>3
  <2>2. QED
    BY <2>1
<1>12. /\ Received(y, q) = round[y] - 1 /\ Sent(q, y) \in 0 .. 2
       /\ Sent(q, y) <= Received(y, q)
  <2>1. Received(y, q) = round[y] - 1
    BY <1>6, <1>9, <1>10, RecvTurnCount DEF CtlInv
  <2>2. Sent(q, y) \in 0 .. 2
    BY <1>6, <1>10, CountBounds DEF CtlInv
  <2>3. ~(Received(y, q) < Sent(q, y))
    BY <1>6, <1>10, <1>11 DEF NoFault
  <2>4. QED
    BY ONLY <1>7, <2>1, <2>2, <2>3
<1>13. Running(q)
  <2>1. ASSUME status[q] = "MPC_OK" PROVE FALSE
    <3>1. round[q] = 2 /\ peer[q] = N /\ y < N
      BY <1>6, <2>1, ControlFacts
    <3>2. Sent(q, y) = 2
      BY ONLY <3>1 DEF Sent, Exchanged
    <3>3. QED
      BY ONLY <1>7, <1>12, <3>2
  <2>2. QED
    BY <2>1 DEF NoFault, Running
<1>14. RecvTurn(q) \/ round[q] = 0
  <2>1. /\ N \in Nat /\ round[q] \in 0 .. 2 /\ peer[q] \in 0 .. N
    BY ControlFacts
  <2>2. ~SendTurn(q) /\ (round[q] \in {1, 2} => peer[q] # N)
    BY <1>3, <1>13 DEF Urgent
  <2>3. QED
    BY <1>13, <2>1, <2>2 DEF RecvTurn, InExchange
<1>15. Depth(q) < Depth(y)
  BY <1>6, <1>9, <1>10, <1>12, <1>14, WaitsForEarlier
<1>16. Way(Depth(q)) <= Way(Depth(y))
  BY <1>1, <1>6, <1>15, WayFacts
<1>17. q \in Late
  BY <1>1, <1>6, <1>13, <1>16
<1>18. QED
  BY <1>1, <1>5, <1>6, <1>15, <1>17

LEMMA TickInTime ==
  ASSUME CtlInv, ClockInv, NoFault, Tick, NEW c \in Int, InTime(c)
  PROVE  InTime(c - 1)'
<1>1. /\ Latency \in Nat /\ Skew \in Nat /\ clock \in 0 .. Skew
      /\ \A x, y \in Party : age[x][y] \in 0 .. Latency
      /\ clock' = IF clock < Skew THEN clock + 1 ELSE clock
      /\ \A x, y \in Party : age'[x][y] =
           IF chan[x][y] # <<>> /\ age[x][y] < Latency THEN age[x][y] + 1
           ELSE age[x][y]
      /\ UNCHANGED vars
  BY TimingAssumption DEF ClockInv, Tick
<1>2. /\ round' = round /\ peer' = peer /\ half' = half /\ status' = status
      /\ chan' = chan
  BY <1>1 DEF vars
<1>3. \A x : Depth(x)' = Depth(x) /\ Running(x)' = Running(x)
  BY <1>2 DEF Depth, Running
<1>4. \A x, y : Arrival(x, y)' = Arrival(x, y)
  BY <1>2 DEF Arrival, Sent, Exchanged
<1>5. \A x \in Party : Depth(x) \in Nat /\ Way(Depth(x)) \in Nat
  BY DepthNat, WayFacts
<1>6. \A x \in Party : Running(x) => 0 <= c - 1 + Way(Depth(x))
  BY <1>5, NobodyLate
<1>7. ASSUME NEW x \in Party, round[x] = 0
      PROVE  Skew - clock' <= c - 1 + Way(Depth(x))
  <2>1. Running(x)
    BY <1>7, ControlFacts DEF NoFault, Running
  <2>2. clock # Skew
    BY <1>7, <2>1 DEF Tick, Urgent
  <2>3. Skew - clock <= c + Way(Depth(x))
    BY <1>7 DEF InTime
  <2>4. QED
    BY <1>1, <1>5, <2>2, <2>3
<1>8. ASSUME NEW x \in Party, NEW y \in Party, chan[x][y] # <<>>
      PROVE  Latency - age'[x][y] <= c - 1 + Way(Arrival(x, y))
  <2>1. x # y /\ Running(y) /\ Depth(y) <= Arrival(x, y)
    BY <1>8, ArrivalAfter
  <2>2. Arrival(x, y) \in Nat
    BY <2>1, ArrivalType
  <2>3. Way(Depth(y)) <= Way(Arrival(x, y)) /\ Way(Arrival(x, y)) \in Nat
    BY <1>5, <2>1, <2>2, WayFacts
  <2>4. CASE age[x][y] < Latency
    <3>1. Latency - age[x][y] <= c + Way(Arrival(x, y)) /\ age'[x][y] = age[x][y] + 1
      BY <1>1, <1>8, <2>4 DEF InTime
    <3>2. age[x][y] \in 0 .. Latency
      BY <1>1
    <3>3. QED
      BY ONLY <1>1, <2>3, <3>1, <3>2, c \in Int
  <2>5. CASE age[x][y] = Latency
    <3>1. age'[x][y] = Latency
      BY <1>1, <2>5
    <3>2. 0 <= c - 1 + Way(Depth(y)) /\ Way(Depth(y)) \in Nat
      BY <1>5, <1>6, <2>1
    <3>3. QED
      BY ONLY <1>1, <2>3, <3>1, <3>2, c \in Int
  <2>6. age[x][y] \in 0 .. Latency
    BY <1>1
  <2>7. QED
    BY ONLY <1>1, <2>4, <2>5, <2>6
<1>9. QED
  BY <1>2, <1>3, <1>4, <1>6, <1>7, <1>8 DEF InTime, Way

-----------------------------------------------------------------------------
(* The invariant of the protocol against a clock.                          *)
LEMMA TimedStepIsStep == [TimedNext]_timedVars => [Next]_vars
<1> SUFFICES ASSUME [TimedNext]_timedVars PROVE [Next]_vars
  OBVIOUS
<1>1. ASSUME NEW p \in Party, Proceed(p) PROVE Step(p) \/ Fault(p)
  BY <1>1 DEF Proceed, Untimed, TimedStep, TimesOut, NoticesClose, Fault
<1>2. CASE \E p \in Party : \/ Proceed(p) \/ PowerCut(p)
                            \/ mode = "faults" /\ Untimed(Fault(p))
  BY <1>1, <1>2 DEF PowerCut, Untimed, Fault, Next
<1>3. CASE Tick \/ UNCHANGED timedVars
  BY <1>3 DEF Tick, timedVars
<1>4. CASE Untimed(Done)
  BY <1>4 DEF Untimed, Next
<1>5. QED
  BY <1>2, <1>3, <1>4 DEF TimedNext

LEMMA TimedInvInit == TimedInit => TimedInv
<1> SUFFICES ASSUME TimedInit PROVE TimedInv
  OBVIOUS
<1>1. IInv
  BY InvInit DEF TimedInit
<1>2. ClockInv
  BY TimingAssumption DEF TimedInit, ClockInv
<1>3. \A p \in Party : round[p] = 0 /\ status[p] = "running"
  BY DEF TimedInit, Init
<1>4. NoFault
  BY <1>3 DEF NoFault, Sent, Received, Exchanged
<1>5. WaitInv
  BY <1>3 DEF WaitInv, RecvTurn, InExchange
<1>6. QED
  BY <1>1, <1>2, <1>4, <1>5 DEF TimedInv

(* No wait gets as long as the timeout.                                    *)
LEMMA WaitBounded ==
  ASSUME CtlInv, ClockInv, WaitInv, NEW p \in Party, RecvTurn(p)
  PROVE  waited[p] # RecvTimeout
<1>1. PICK c \in Int : InTime(c) /\ waited[p] + c + Way(Depth(p)) <= LongestWait
  BY DEF WaitInv
<1>2. 0 <= c + Way(Depth(p)) /\ Way(Depth(p)) \in Nat /\ waited[p] \in Nat
  BY <1>1, DepthNat, WayFacts DEF InTime, RecvTurn, InExchange, ClockInv
<1>3. RecvTimeout > LongestWait
  BY TimingAssumption DEF LongestWait, Way
<1>4. waited[p] <= LongestWait /\ LongestWait \in Int
  <2>1. 2 * N - 3 \in Int /\ Latency \in Int /\ Skew \in Int
    BY TimingAssumption, PartiesAssumption
  <2>2. (2 * N - 3) * Latency \in Int
    BY ONLY <2>1
  <2>3. LongestWait \in Int
    BY <2>1, <2>2 DEF LongestWait, Way, Longer
  <2>4. QED
    BY ONLY <1>1, <1>2, <2>3
<1>5. QED
  BY ONLY <1>2, <1>3, <1>4

(* In time every step is one of the protocol's, or time passes.            *)
LEMMA ClockSteps ==
  ASSUME TimedInv, mode = "clock", [TimedNext]_timedVars
  PROVE  \/ \E p \in Party : TimedStep(p)
         \/ Tick
         \/ UNCHANGED <<vars, time>>
<1>1. CtlInv /\ ClockInv /\ NoFault /\ WaitInv
  BY DEF TimedInv, IInv, CtlInv
<1>2. ASSUME NEW p \in Party, TimesOut(p) PROVE FALSE
  BY <1>1, <1>2, WaitBounded DEF TimesOut
<1>3. ASSUME NEW p \in Party, NoticesClose(p) PROVE FALSE
  <2>1. peer[p] \in Party /\ status[peer[p]] \in {"MPC_ERR_SEND", "MPC_ERR_RECV"}
    BY <1>1, <1>3, RecvTurnCount DEF NoticesClose, PeerClosed, CtlInv
  <2>2. QED
    BY <1>1, <2>1 DEF NoFault
<1>4. ASSUME NEW p \in Party, Proceed(p) PROVE TimedStep(p)
  BY <1>2, <1>3, <1>4 DEF Proceed
<1>5. CASE TimedNext
  BY <1>4, <1>5 DEF TimedNext, PowerCut, Untimed, Done
<1>6. CASE UNCHANGED timedVars
  BY <1>6 DEF timedVars, time
<1>7. QED
  BY <1>5, <1>6

LEMMA ClockStepInv ==
  ASSUME CtlInv, CtlInv', ClockInv, NoFault, WaitInv, NEW p \in Party, TimedStep(p)
  PROVE  ClockInv' /\ NoFault' /\ WaitInv'
<1>1. Progress(p) /\ Carried'
  BY StepProgress DEF TimedStep, NoFault, Carried
<1>2. ClockInv'
  <2>1. Latency \in Nat
    BY TimingAssumption
  <2>2. QED
    BY <2>1 DEF ClockInv, TimedStep, CallEnds
<1>3. NoFault'
  <2>1. \A x \in Party : status'[x] \in {"running", "MPC_OK"}
    BY <1>1 DEF NoFault, Progress
  <2>2. QED
    BY <1>1, <2>1 DEF NoFault, Carried
<1>4. FreshWait'
  BY <1>2, WaitBegins, PTL
<1>5. ASSUME NEW x \in Party, RecvTurn(x)'
      PROVE  \E c \in Int : InTime(c)' /\ waited'[x] + c + Way(Depth(x))' <= LongestWait
  <2>1. CASE x = p
    <3>1. PICK c \in Int : (InTime(c) /\ c + Way(Depth(x)) <= LongestWait)'
      BY <1>4, <1>5 DEF FreshWait
    <3>2. waited'[x] = 0
      BY <2>1 DEF TimedStep, CallEnds, ClockInv
    <3>3. waited'[x] + c = c
      BY ONLY <3>2, c \in Int
    <3>4. QED
      BY <3>1, <3>3 DEF LongestWait, Way
  <2>2. CASE x # p
    <3>1. RecvTurn(x) /\ Depth(x)' = Depth(x)
      BY <1>1, <1>5, <2>2 DEF Progress
    <3>2. PICK c \in Int : InTime(c) /\ waited[x] + c + Way(Depth(x)) <= LongestWait
      BY <3>1 DEF WaitInv
    <3>3. InTime(c)'
      BY <1>1, <3>2, StepInTime
    <3>4. waited'[x] = waited[x]
      BY <2>2 DEF TimedStep, CallEnds, ClockInv
    <3>5. QED
      BY <3>1, <3>2, <3>3, <3>4 DEF Way
  <2>3. QED
    BY <2>1, <2>2
<1>6. WaitInv'
  BY <1>5 DEF WaitInv, LongestWait, Way
<1>7. QED
  BY <1>2, <1>3, <1>6

LEMMA ClockTickInv ==
  ASSUME CtlInv, ClockInv, NoFault, WaitInv, Tick
  PROVE  ClockInv' /\ NoFault' /\ WaitInv'
<1>1. /\ round' = round /\ peer' = peer /\ half' = half /\ status' = status
      /\ chan' = chan
  BY DEF Tick, vars
<1>2. /\ \A x : /\ Depth(x)' = Depth(x) /\ Running(x)' = Running(x)
                /\ RecvTurn(x)' = RecvTurn(x)
      /\ \A x, y : Sent(x, y)' = Sent(x, y) /\ Received(x, y)' = Received(x, y)
  BY <1>1 DEF Depth, Running, RecvTurn, SendTurn, InExchange, Sent, Received, Exchanged
<1>3. ClockInv'
  <2>1. Latency \in Nat /\ Skew \in Nat
    BY TimingAssumption
  <2>2. QED
    BY <2>1 DEF ClockInv, Tick
<1>4. NoFault'
  BY <1>1, <1>2 DEF NoFault
<1>5. ASSUME NEW x \in Party, RecvTurn(x)
      PROVE  \E c \in Int : InTime(c)' /\ waited'[x] + c + Way(Depth(x)) <= LongestWait
  <2>1. PICK c \in Int : InTime(c) /\ waited[x] + c + Way(Depth(x)) <= LongestWait
    BY <1>5 DEF WaitInv
  <2>2. InTime(c - 1)' /\ c - 1 \in Int
    BY <2>1, TickInTime
  <2>3. waited'[x] = waited[x] + 1 /\ waited[x] \in Nat
    BY <1>5 DEF Tick, ClockInv
  <2>4. waited'[x] + (c - 1) = waited[x] + c
    BY ONLY <2>3, c \in Int
  <2>5. QED
    BY <2>1, <2>2, <2>4
<1>6. WaitInv'
  BY <1>2, <1>5 DEF WaitInv, LongestWait, Way
<1>7. QED
  BY <1>3, <1>4, <1>6

LEMMA TimedInvNext == TimedInv /\ [TimedNext]_timedVars => TimedInv'
<1> SUFFICES ASSUME TimedInv, [TimedNext]_timedVars PROVE TimedInv'
  OBVIOUS
<1>1. IInv /\ IInv' /\ CtlInv /\ CtlInv'
  BY TimedStepIsStep, InvNext DEF TimedInv, IInv, CtlInv
<1>2. mode' = mode
  BY DEF TimedNext, Proceed, Untimed, TimedStep, TimesOut, NoticesClose, PowerCut,
         Tick, timedVars
<1>3. ASSUME mode = "clock" PROVE ClockInv' /\ NoFault' /\ WaitInv'
  <2>1. ClockInv /\ NoFault /\ WaitInv
    BY <1>3 DEF TimedInv
  <2>2. CASE UNCHANGED <<vars, time>>
    <3>1. ClockInv'
      BY <2>1, <2>2 DEF ClockInv, time
    <3>2. NoFault'
      BY <2>1, <2>2 DEF NoFault, vars, Running, Sent, Received, Exchanged
    <3>3. WaitInv'
      BY <2>1, <2>2
         DEF WaitInv, vars, time, RecvTurn, SendTurn, InExchange, Running, InTime,
             Depth, Arrival, Sent, Exchanged, Way, LongestWait, RoundStart
    <3>4. QED
      BY <3>1, <3>2, <3>3
  <2>3. QED
    BY <1>1, <1>3, <2>1, <2>2, ClockSteps, ClockStepInv, ClockTickInv
<1>4. QED
  BY <1>1, <1>2, <1>3 DEF TimedInv

(* Without faults no receive of any party times out, for any number of     *)
(* parties and however the messages and the starts are delayed within      *)
(* their limits (mpc_runner.c:280, mpc_comm.h:37).                         *)
THEOREM TimeoutsTrue == TimedSpec => []NoFalseTimeout
<1>1. TimedInv => NoFalseTimeout
  BY DEF TimedInv, NoFault, NoFalseTimeout
<1>2. QED
  BY <1>1, TimedInvInit, TimedInvNext, PTL DEF TimedSpec
=============================================================================
