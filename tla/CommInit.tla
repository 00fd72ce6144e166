------------------------------ MODULE CommInit ------------------------------
(***************************************************************************)
(* The start-up of the TCP layer, comm_init of mpc_comm_tcp.c: the main    *)
(* thread of every party connects to all lower ids and then polls          *)
(* _peer_fd[] for the higher ones, while the acceptor thread takes in as   *)
(* many connections as there are higher ids and files each one under the   *)
(* id that it carries.                                                     *)
(*                                                                         *)
(* Processes may die and be started again, accept() may fail, and          *)
(* connections that no party made (a probe, a process of another run) may  *)
(* arrive: each of these spends one of the acceptor's iterations.  The     *)
(* parties may have loaded configurations of different size.               *)
(***************************************************************************)
EXTENDS Integers, Sequences, Functions

CONSTANTS
  N,              \* the number of parties
  Sizes,          \* the numbers of parties that configurations may give
  MaxUpsets,      \* bound: restarts, failed accepts and foreign connections
  StrangerIds     \* what a foreign connection may send as its id

ASSUME CommAssumption ==
  /\ N \in Nat \ {0} /\ MaxUpsets \in Nat
  /\ Sizes \subseteq 1 .. N
  /\ StrangerIds \subseteq Int
  \* no stranger claims the id of a party that is to be accepted: nothing in
  \* the handshake could tell it from that party
  /\ \A id \in StrangerIds : id \notin 1 .. (N - 1)

Party == 0 .. (N - 1)
Stranger == N       \* stands for whoever made a foreign connection

(* A connection by its ends, the incarnation of the process that made it,  *)
(* and the four bytes it sends first.                                      *)
Connection ==
  [from : Party, run : 1 .. (MaxUpsets + 1), to : Party, id : Party] \cup
  [from : {Stranger}, run : 1 .. MaxUpsets, to : Party, id : StrangerIds]
None == [from |-> -1]       \* _peer_fd[i] = -1

VARIABLES
  n,          \* _n, the number of parties in the party's configuration
  starts,     \* how often a party's process was started
  main,       \* where its main thread is in comm_init
  next,       \* the main thread's j, in step 3 and again in step 4
  acceptor,   \* where its acceptor thread is
  slots,      \* n - i: how many iterations the acceptor has left
  cur,        \* the acceptor's cfd
  fd,         \* _peer_fd
  backlog,    \* the listening socket's queue of connections
  live,       \* the connections that neither end has closed
  hello,      \* the connections that hold an id sent and not yet read
  upsets      \* how many restarts, failed accepts, foreign connections

mainVars == <<starts, main, next>>
acceptorVars == <<n, acceptor, slots, cur>>
net == <<backlog, live, hello, upsets>>
vars == <<n, starts, main, next, acceptor, slots, cur, fd,
          backlog, live, hello, upsets>>

-----------------------------------------------------------------------------
(* Mutant: the acceptor expects one connection more than there are peers.  *)
IncomingTooMany(p) == n[p] - p

Incoming(p) == n[p] - p - 1   \* n_incoming
Listening(p) == acceptor[p] \in {"accept", "recv"}
(* listen(lfd, n_incoming): Linux queues one connection more than that.    *)
HasRoom(p) == Len(backlog[p]) <= Incoming(p)
Mine(p, j) == [from |-> p, run |-> starts[p], to |-> j, id |-> p]

(* A party whose id is not below its n is refused before comm_init and     *)
(* is, for the others, one that is never started.                          *)
Init ==
  /\ n \in {f \in [Party -> Sizes] : \A p \in Party : p < f[p]}
  /\ starts = [p \in Party |-> 0]
  /\ main = [p \in Party |-> "off"]
  /\ next = [p \in Party |-> 0]
  /\ acceptor = [p \in Party |-> "off"]
  /\ slots = [p \in Party |-> 0]
  /\ cur = [p \in Party |-> None]
  /\ fd = [p \in Party |-> [q \in Party |-> None]]
  /\ backlog = [p \in Party |-> <<>>]
  /\ live = {} /\ hello = {} /\ upsets = 0

(* Steps 1 and 2: bind, listen and spawn the acceptor.  Until listen()     *)
(* nobody can tell that the process runs.                                  *)
Start(p) ==
  /\ main[p] = "off"
  /\ starts[p] > 0 => upsets < MaxUpsets
  /\ upsets' = IF starts[p] > 0 THEN upsets + 1 ELSE upsets
  /\ starts' = [starts EXCEPT ![p] = @ + 1]
  /\ main' = [main EXCEPT ![p] = IF p = 0 THEN "wait" ELSE "connect"]
  /\ next' = [next EXCEPT ![p] = IF p = 0 THEN 1 ELSE 0]
  /\ acceptor' = [acceptor EXCEPT ![p] = IF Incoming(p) > 0 THEN "accept" ELSE "off"]
  /\ slots' = [slots EXCEPT ![p] = Incoming(p)]
  /\ UNCHANGED <<n, cur, fd, backlog, live, hello>>

(* Mutant: a refused connection is not tried again.                        *)
ConnectOnce(p) ==
  /\ main[p] = "connect"
  /\ LET j == next[p]
     IN  IF Listening(j) /\ HasRoom(j)
         THEN /\ backlog' = [backlog EXCEPT ![j] = Append(@, Mine(p, j))]
              /\ live' = live \cup {Mine(p, j)}
              /\ main' = [main EXCEPT ![p] = "handshake"]
         ELSE /\ main' = [main EXCEPT ![p] = "off"]
              /\ UNCHANGED <<backlog, live>>
  /\ UNCHANGED <<starts, next, acceptorVars, fd, hello, upsets>>

(* Step 3.  connect() is retried until it succeeds, which needs only the   *)
(* peer's kernel: the connection waits in the backlog for the acceptor.    *)
Connect(p) ==
  /\ main[p] = "connect" /\ Listening(next[p]) /\ HasRoom(next[p])
  /\ backlog' = [backlog EXCEPT ![next[p]] = Append(@, Mine(p, next[p]))]
  /\ live' = live \cup {Mine(p, next[p])}
  /\ main' = [main EXCEPT ![p] = "handshake"]
  /\ UNCHANGED <<starts, next, acceptorVars, fd, hello, upsets>>

(* The result of this send() is not looked at.                             *)
SendId(p) ==
  /\ main[p] = "handshake"
  /\ hello' = hello \cup ({Mine(p, next[p])} \cap live)
  /\ main' = [main EXCEPT ![p] = "record"]
  /\ UNCHANGED <<starts, next, acceptorVars, fd, backlog, live, upsets>>

RecordFd(p) ==
  /\ main[p] = "record"
  /\ fd' = [fd EXCEPT ![p][next[p]] = Mine(p, next[p])]
  /\ IF next[p] + 1 < p
     THEN /\ next' = [next EXCEPT ![p] = @ + 1]
          /\ main' = [main EXCEPT ![p] = "connect"]
     ELSE /\ next' = [next EXCEPT ![p] = p + 1]
          /\ main' = [main EXCEPT ![p] = "wait"]
  /\ UNCHANGED <<starts, acceptorVars, net>>

(* Mutant: the poll does not look for an unconnected entry.                *)
PollAny(p) ==
  /\ main[p] = "wait" /\ next[p] < n[p]
  /\ next' = [next EXCEPT ![p] = @ + 1]
  /\ UNCHANGED <<starts, main, acceptorVars, fd, net>>

(* Step 4: wait for one peer after the other.                              *)
Poll(p) ==
  /\ main[p] = "wait" /\ next[p] < n[p]
  /\ fd[p][next[p]] # None
  /\ next' = [next EXCEPT ![p] = @ + 1]
  /\ UNCHANGED <<starts, main, acceptorVars, fd, net>>

Return(p) ==
  /\ main[p] = "wait" /\ next[p] = n[p]
  /\ main' = [main EXCEPT ![p] = "returned"]
  /\ UNCHANGED <<starts, next, acceptorVars, fd, net>>

-----------------------------------------------------------------------------
(* The acceptor thread.                                                    *)
Accept(p) ==
  /\ acceptor[p] = "accept" /\ slots[p] > 0 /\ backlog[p] # <<>>
  /\ cur' = [cur EXCEPT ![p] = Head(backlog[p])]
  /\ backlog' = [backlog EXCEPT ![p] = Tail(@)]
  /\ acceptor' = [acceptor EXCEPT ![p] = "recv"]
  /\ UNCHANGED <<n, mainVars, slots, fd, live, hello, upsets>>

(* The loop's end of iteration, with or without a connection filed.        *)
NextSlot(p) ==
  /\ slots' = [slots EXCEPT ![p] = @ - 1]
  /\ cur' = [cur EXCEPT ![p] = None]
  /\ acceptor' = [acceptor EXCEPT ![p] = "accept"]

AcceptFails(p) ==
  /\ acceptor[p] = "accept" /\ slots[p] > 0
  /\ upsets < MaxUpsets /\ upsets' = upsets + 1
  /\ NextSlot(p)
  /\ UNCHANGED <<n, mainVars, fd, backlog, live, hello>>

InRange(p, id) == 0 <= id /\ id < n[p]

(* Mutant: connections are filed in the order they arrive in.              *)
HandshakeInOrder(p) ==
  /\ acceptor[p] = "recv" /\ cur[p] \in hello
  /\ InRange(p, cur[p].id)
  /\ fd' = [fd EXCEPT ![p][n[p] - slots[p]] = cur[p]]
  /\ hello' = hello \ {cur[p]}
  /\ NextSlot(p)
  /\ UNCHANGED <<n, mainVars, backlog, live, upsets>>

(* The id came: the connection is filed under it, whatever is there.       *)
Handshake(p) ==
  /\ acceptor[p] = "recv" /\ cur[p] \in hello
  /\ InRange(p, cur[p].id)
  /\ fd' = [fd EXCEPT ![p][cur[p].id] = cur[p]]
  /\ hello' = hello \ {cur[p]}
  /\ NextSlot(p)
  /\ UNCHANGED <<n, mainVars, backlog, live, upsets>>

(* The id is out of range, or the connection ended before its four bytes   *)
(* arrived: it is closed, and the iteration is spent.                      *)
HandshakeFails(p) ==
  /\ acceptor[p] = "recv"
  /\ \/ cur[p] \in hello /\ ~InRange(p, cur[p].id)
     \/ cur[p] \notin live
  /\ live' = live \ {cur[p]}
  /\ hello' = hello \ {cur[p]}
  /\ NextSlot(p)
  /\ UNCHANGED <<n, mainVars, fd, backlog, upsets>>

(* The thread closes the listening socket; the kernel resets whatever is   *)
(* still queued.                                                           *)
AcceptorEnds(p) ==
  /\ acceptor[p] = "accept" /\ slots[p] = 0
  /\ acceptor' = [acceptor EXCEPT ![p] = "off"]
  /\ live' = live \ Range(backlog[p])
  /\ hello' = hello \ Range(backlog[p])
  /\ backlog' = [backlog EXCEPT ![p] = <<>>]
  /\ UNCHANGED <<n, mainVars, slots, cur, fd, upsets>>

-----------------------------------------------------------------------------
(* What else happens.                                                      *)

(* The process ends, in comm_init or later, and all its sockets with it.   *)
Exit(p) ==
  /\ main[p] # "off"
  /\ main' = [main EXCEPT ![p] = "off"]
  /\ next' = [next EXCEPT ![p] = 0]
  /\ acceptor' = [acceptor EXCEPT ![p] = "off"]
  /\ slots' = [slots EXCEPT ![p] = 0]
  /\ cur' = [cur EXCEPT ![p] = None]
  /\ fd' = [fd EXCEPT ![p] = [q \in Party |-> None]]
  /\ live' = {c \in live : p \notin {c.from, c.to}}
  /\ hello' = {c \in hello : p # c.to}
  /\ backlog' = [backlog EXCEPT ![p] = <<>>]
  /\ UNCHANGED <<n, starts, upsets>>

StrangerConnects(p) ==
  /\ upsets < MaxUpsets /\ Listening(p) /\ HasRoom(p)
  /\ upsets' = upsets + 1
  /\ \E id \in StrangerIds, says \in BOOLEAN :
       LET c == [from |-> Stranger, run |-> upsets + 1, to |-> p, id |-> id]
       IN  /\ backlog' = [backlog EXCEPT ![p] = Append(@, c)]
           /\ live' = live \cup {c}
           /\ hello' = IF says THEN hello \cup {c} ELSE hello
  /\ UNCHANGED <<mainVars, acceptorVars, fd>>

StrangerLeaves ==
  /\ \E c \in live : c.from = Stranger /\ live' = live \ {c}
  /\ UNCHANGED <<mainVars, acceptorVars, fd, backlog, hello, upsets>>

MainThread(p) == Connect(p) \/ SendId(p) \/ RecordFd(p) \/ Poll(p) \/ Return(p)
AcceptorThread(p) ==
  Accept(p) \/ Handshake(p) \/ HandshakeFails(p) \/ AcceptorEnds(p)
Fault(p) == Exit(p) \/ AcceptFails(p) \/ StrangerConnects(p)

Next ==
  \/ \E p \in Party : Start(p) \/ MainThread(p) \/ AcceptorThread(p) \/ Fault(p)
  \/ StrangerLeaves
Spec == Init /\ [][Next]_vars

-----------------------------------------------------------------------------
Returned(p) == main[p] = "returned"

TypeOK ==
  /\ n \in [Party -> Sizes]
  /\ starts \in [Party -> 0 .. (MaxUpsets + 1)]
  /\ main \in [Party -> {"off", "connect", "handshake", "record", "wait", "returned"}]
  /\ next \in [Party -> 0 .. N]
  /\ acceptor \in [Party -> {"off", "accept", "recv"}]
  /\ slots \in [Party -> 0 .. (N - 1)]
  /\ cur \in [Party -> Connection \cup {None}]
  /\ fd \in [Party -> [Party -> Connection \cup {None}]]
  /\ backlog \in [Party -> Seq(Connection)]
  /\ live \subseteq Connection /\ hello \subseteq Connection
  /\ upsets \in 0 .. MaxUpsets

(* comm_init is a barrier: it returns in a party only after every other    *)
(* party has been started, so a party that runs the protocol does not wait *)
(* for one that was never there (mpc_comm_tcp.c:168-177).                  *)
StartupBarrier ==
  \A p, q \in Party : (Returned(p) /\ q < n[p]) => starts[q] >= 1

(* When comm_init returns, the acceptor has filed its last connection: the *)
(* reads of _peer_fd[] without the mutex in comm_send and comm_recv        *)
(* (mpc_comm_tcp.c:186, 208) race with no write.                           *)
NoWriterLeft ==
  \A p \in Party : Returned(p) => slots[p] = 0 /\ acceptor[p] # "recv"

(* Whatever strangers send and however often processes were restarted,     *)
(* what comm_init leaves in _peer_fd[q] is a connection made by q, or to q *)
(* (mpc_comm_tcp.c:65-77, 157-163).                                        *)
FdIdentity ==
  \A p, q \in Party :
    (Returned(p) /\ p # q /\ q < n[p]) =>
      /\ fd[p][q] # None
      /\ {fd[p][q].from, fd[p][q].to} = {p, q}

(* Two parties that both returned never hold two open connections of which *)
(* each uses another one: either both use the same, or one of them finds   *)
(* its own dead at the first message.                                      *)
EndsAgree ==
  \A p, q \in Party :
    (Returned(p) /\ Returned(q) /\ p # q /\ {fd[p][q], fd[q][p]} \subseteq live)
      => fd[p][q] = fd[q][p]
=============================================================================
