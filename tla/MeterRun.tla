------------------------------ MODULE MeterRun ------------------------------
(***************************************************************************)
(* A whole run of meter_node, again and again: comm_init (module CommInit),*)
(* then the two rounds of mpc_run_from_config over the descriptors that it *)
(* left, then the end of the process and its next start.  MpcRunner takes  *)
(* the connections for granted and has one process per party; here the     *)
(* processes die and come back, descriptors may be those of a dead peer,   *)
(* and the parties may have loaded configurations of different size.       *)
(*                                                                         *)
(* A share is abstracted to the party that split its input and the         *)
(* incarnation that did it, a partial sum to the incarnation of every      *)
(* party whose share was added.                                            *)
(***************************************************************************)
EXTENDS CommInit, FiniteSets

CONSTANT Rounds     \* bound: how often each party runs when nothing fails

VARIABLES
  round,      \* 0 before share_split, then the exchange loop the party is in
  peer,       \* that loop's j, with the party's own id skipped
  half,       \* 0 before the first call of the iteration, 1 between the two
  received,   \* whose share was received: the incarnation, 0 for none yet
  agree,      \* whether all partial sums received are of the same shares
  wire        \* the messages sent and not yet read

exchange == <<round, peer, half, received, agree, wire>>
allVars == <<vars, exchange>>

NoShare == [q \in Party |-> 0]

(* Bytes on a connection: the connection, who sent them, in which round    *)
(* (which they do not carry), and the shares added up in them.             *)
Message == [on : Connection, by : Party, part : {1, 2},
            of : [Party -> 0 .. (MaxUpsets + 1)]]
Reader(m) == IF m.by = m.on.from THEN m.on.to ELSE m.on.from

-----------------------------------------------------------------------------
MeterInit ==
  /\ Init
  /\ round = [p \in Party |-> 0]
  /\ peer = [p \in Party |-> 0]
  /\ half = [p \in Party |-> 0]
  /\ received = [p \in Party |-> NoShare]
  /\ agree = [p \in Party |-> TRUE]
  /\ wire = {}

(* The loop index: j runs over 0 .. n-1 without the party's own id.        *)
FirstPeer(p) == IF p = 0 THEN 1 ELSE 0
NextPeer(p, j) == IF j + 1 = p THEN j + 2 ELSE j + 1

InExchange(p) == Returned(p) /\ round[p] \in {1, 2} /\ peer[p] < n[p]
SendTurn(p) == InExchange(p) /\ (half[p] = 0 <=> p < peer[p])
RecvTurn(p) == InExchange(p) /\ ~SendTurn(p)

NextCall(p) ==
  /\ half' = [half EXCEPT ![p] = 1 - @]
  /\ peer' = IF half[p] = 0 THEN peer
             ELSE [peer EXCEPT ![p] = NextPeer(p, @)]
  /\ UNCHANGED round

SplitShares(p) ==
  /\ Returned(p) /\ round[p] = 0
  /\ round' = [round EXCEPT ![p] = 1]
  /\ peer' = [peer EXCEPT ![p] = FirstPeer(p)]
  /\ received' = [received EXCEPT ![p][p] = starts[p]]
  /\ UNCHANGED <<vars, half, agree, wire>>

(* comm_send through _peer_fd[peer]; what is sent on a connection that the *)
(* other end has closed is taken by the kernel and lost.                   *)
Send(p) ==
  /\ SendTurn(p) /\ fd[p][peer[p]] # None
  /\ wire' = IF fd[p][peer[p]] \notin live THEN wire
             ELSE wire \cup
               {[on |-> fd[p][peer[p]], by |-> p, part |-> round[p],
                 of |-> IF round[p] = 1 THEN [NoShare EXCEPT ![p] = starts[p]]
                        ELSE received[p]]}
  /\ NextCall(p)
  /\ UNCHANGED <<vars, received, agree>>

Unread(p) == {m \in wire : m.on = fd[p][peer[p]] /\ m.by = peer[p]}

(* comm_recv reads the oldest message of the connection, whatever it is.   *)
Recv(p) ==
  /\ RecvTurn(p)
  /\ \E m \in Unread(p) :
       /\ \A o \in Unread(p) : m.part <= o.part
       /\ wire' = wire \ {m}
       /\ IF round[p] = 1
          THEN /\ received' = [received EXCEPT ![p][peer[p]] = m.of[peer[p]]]
               /\ agree' = [agree EXCEPT ![p] = @ /\ m.part = 1]
          ELSE /\ agree' = [agree EXCEPT ![p] =
                              @ /\ m.part = 2 /\ m.of = received[p]]
               /\ UNCHANGED received
  /\ NextCall(p)
  /\ UNCHANGED vars

(* Mutant: the loop of round 1 ends one peer early.                        *)
ComputePartialEarly(p) ==
  /\ Returned(p) /\ round[p] = 1 /\ peer[p] >= n[p] - 1 /\ half[p] = 0
  /\ round' = [round EXCEPT ![p] = 2]
  /\ peer' = [peer EXCEPT ![p] = FirstPeer(p)]
  /\ UNCHANGED <<vars, half, received, agree, wire>>

ComputePartial(p) ==
  /\ Returned(p) /\ round[p] = 1 /\ peer[p] = n[p]
  /\ round' = [round EXCEPT ![p] = 2]
  /\ peer' = [peer EXCEPT ![p] = FirstPeer(p)]
  /\ UNCHANGED <<vars, half, received, agree, wire>>

(* The process ends and nobody reads any more what was sent to it.         *)
EndProcess(p) ==
  /\ Exit(p)
  /\ round' = [round EXCEPT ![p] = 0]
  /\ peer' = [peer EXCEPT ![p] = 0]
  /\ half' = [half EXCEPT ![p] = 0]
  /\ received' = [received EXCEPT ![p] = NoShare]
  /\ agree' = [agree EXCEPT ![p] = TRUE]
  /\ wire' = {m \in wire : Reader(m) # p}

Succeeds(p) == Returned(p) /\ round[p] = 2 /\ peer[p] = n[p]

(* mpc_run_from_config returns MPC_OK, main prints the aggregate and ends. *)
Finish(p) == Succeeds(p) /\ EndProcess(p)

-----------------------------------------------------------------------------
Exchange(p) ==
  SplitShares(p) \/ Send(p) \/ Recv(p) \/ ComputePartial(p) \/ Finish(p)
Main(p) == (MainThread(p) /\ UNCHANGED exchange) \/ Exchange(p)
Acceptor(p) == AcceptorThread(p) /\ UNCHANGED exchange

(* main of meter_node: with an id below n the process enters comm_init.    *)
Launch(p) == Start(p) /\ UNCHANGED exchange

(* Any call may fail, any receive time out and any process be killed: all  *)
(* of them end it.                                                         *)
Disturbance ==
  \/ \E p \in Party : EndProcess(p)
  \/ /\ \/ \E p \in Party : AcceptFails(p) \/ StrangerConnects(p)
        \/ StrangerLeaves
     /\ UNCHANGED exchange

MeterNext ==
  \/ \E p \in Party : Launch(p) \/ Main(p) \/ Acceptor(p)
  \/ Disturbance
MeterSpec == MeterInit /\ [][MeterNext]_allVars

-----------------------------------------------------------------------------
(* Rounds without faults (run_meter_pi5_rounds.sh, run_meter_pi2_rounds.sh,*)
(* test_repeated_meter_rounds_pc5.sh): a process ends with MPC_OK and is   *)
(* started again.  The second that the scripts sleep in between is what    *)
(* keeps a new process from a listener that its owner no longer needs and  *)
(* has not closed yet: a connection made to it would be reset.             *)
ListenersClosed == \A p \in Party : acceptor[p] = "accept" => slots[p] > 0
StartRound(p) ==
  /\ starts[p] < Rounds
  /\ starts[p] >= 1 => ListenersClosed
  /\ Launch(p)

RoundsNext == \E p \in Party : StartRound(p) \/ Main(p) \/ Acceptor(p)
RoundsSpec ==
  /\ MeterInit /\ [][RoundsNext]_allVars
  /\ \A p \in Party : /\ WF_allVars(StartRound(p))
                      /\ WF_allVars(Main(p))
                      /\ WF_allVars(Acceptor(p))

-----------------------------------------------------------------------------
MeterTypeOK ==
  /\ TypeOK
  /\ round \in [Party -> 0 .. 2]
  /\ peer \in [Party -> 0 .. N]
  /\ half \in [Party -> {0, 1}]
  /\ received \in [Party -> [Party -> 0 .. (MaxUpsets + 1)]]
  /\ agree \in [Party -> BOOLEAN]
  /\ wire \subseteq Message

(* A party that returns MPC_OK has a share of every party that its         *)
(* configuration counts, each of these has a configuration of the same     *)
(* size, and every partial sum it has added is of the very incarnations    *)
(* whose shares it has: no restart in the middle makes a sum of old and new*)
(* inputs, and parties that disagree on n never make a sum together        *)
(* (mpc_runner.c:267-361).                                                 *)
OneRun ==
  \A p \in Party : Succeeds(p) =>
    /\ agree[p]
    /\ \A q \in 0 .. (n[p] - 1) : received[p][q] >= 1 /\ n[q] = n[p]

(* Without faults the rounds of a meter never mix, although nothing in a   *)
(* message says of which round it is: a share comes from the process that  *)
(* its peer runs for the same round.                                       *)
RoundsAligned ==
  \A p, q \in Party :
    Returned(p) => agree[p] /\ received[p][q] \in {0, starts[p]}

(* Every party ends every round with MPC_OK, in whatever order the parties *)
(* start and however far one of them is ahead of the others.               *)
AllRounds == <>(\A p \in Party : starts[p] = Rounds /\ main[p] = "off")

(* What comm_init hands over is what MpcRunner starts from: the first      *)
(* round is one of its behaviours, with the values of a field of one       *)
(* element.                                                                *)
Ended(p) == starts[p] > 1 \/ (starts[p] = 1 /\ main[p] = "off")
OfFirstRound(p, x, end) == IF Ended(p) THEN end
                           ELSE IF Returned(p) THEN x ELSE 0
Zeros(S) == [i \in S |-> 0]
Runner == INSTANCE MpcRunner WITH
  P <- 1, Word <- 3,
  value <- Zeros(Party), partial <- Zeros(Party), aggregate <- Zeros(Party),
  shares <- [p \in Party |-> Zeros(Party)],
  received <- [p \in Party |-> Zeros(Party)],
  round <- [p \in Party |-> OfFirstRound(p, round[p], 2)],
  peer <- [p \in Party |-> IF Ended(p) THEN N
                           ELSE IF round[p] = 0 THEN FirstPeer(p) ELSE peer[p]],
  half <- [p \in Party |-> OfFirstRound(p, half[p], 0)],
  status <- [p \in Party |-> IF Ended(p) THEN "MPC_OK" ELSE "running"],
  chan <- [p \in Party |-> [q \in Party |->
             Zeros(1 .. Cardinality({m \in wire :
               m.by = p /\ Reader(m) = q /\ m.of[p] = 1}))]]
ImplementsRunner == Runner!Spec
=============================================================================
