--------------------------- MODULE MeterRun_proofs ---------------------------
(***************************************************************************)
(* The safety of the start-up, proved for every number of parties, every   *)
(* choice of configurations, and any number of restarts, failed accepts    *)
(* and foreign connections; and then of a whole run of the meters, which   *)
(* is, for the TCP layer, a behaviour of its start-up.                     *)
(***************************************************************************)
EXTENDS MeterRun, FiniteSetTheorems, SequenceTheorems, TLAPS

-----------------------------------------------------------------------------
(* The inductive invariant, in parts.                                      *)

(* Where the two threads of a party are and what their loop indices are    *)
(* worth there.                                                            *)
ControlInv ==
  \A p \in Party :
    /\ p < n[p] /\ starts[p] <= upsets + 1
    /\ main[p] = "off" => acceptor[p] = "off" /\ slots[p] = 0
    /\ main[p] # "off" => starts[p] >= 1
    /\ main[p] \in {"connect", "handshake", "record"} => next[p] < p
    /\ main[p] = "wait" => p < next[p] /\ next[p] <= n[p]
    /\ main[p] = "returned" => next[p] = n[p]
    /\ acceptor[p] = "recv" => slots[p] > 0 /\ cur[p] # None

(* A connection of a party carries its maker's id and goes to a lower one, *)
(* and its maker has been started at least that often.                     *)
Genuine(c, s) ==
  c.from # Stranger => c.id = c.from /\ c.to < c.from /\ c.run <= s[c.from]
ConnectionInv ==
  \A p \in Party :
    /\ \A k \in 1 .. Len(backlog[p]) :
         Genuine(backlog[p][k], starts) /\ backlog[p][k].to = p
    /\ cur[p] # None => Genuine(cur[p], starts) /\ cur[p].to = p

(* A connection that is open at both ends is one of its maker's present    *)
(* incarnation.                                                            *)
LiveInv ==
  \A c \in live : c.from # Stranger =>
    main[c.from] # "off" /\ c.run = starts[c.from]

(* What is in _peer_fd[]: at a higher id a connection that this id made;   *)
(* at a lower one, once the main thread is past it, a connection that this *)
(* party made, or one that a stranger had filed.                           *)
Reached(p, q) ==
  \/ main[p] \in {"handshake", "record"} /\ q <= next[p]
  \/ main[p] = "connect" /\ q < next[p]
  \/ main[p] \in {"wait", "returned"}
Recorded(p, q) ==
  \/ main[p] \in {"connect", "handshake", "record"} /\ q < next[p]
  \/ main[p] \in {"wait", "returned"}
TableInv ==
  \A p, q \in Party :
    /\ main[p] = "off" => fd[p][q] = None
    /\ (q > p /\ fd[p][q] # None) =>
         fd[p][q].from = q /\ fd[p][q].to = p /\ fd[p][q].id = q
         /\ fd[p][q].run <= starts[q] /\ q < n[p]
    /\ (q < p /\ Reached(p, q)) => starts[q] >= 1
    /\ (q < p /\ Recorded(p, q)) => fd[p][q] # None
    /\ (p < q /\ main[p] \in {"wait", "returned"} /\ q < next[p]) =>
         fd[p][q] # None

(* The acceptor's iterations are counted: those left and those that filed  *)
(* a higher id are at most the iterations there were, and fewer once one   *)
(* of them filed anything else.                                            *)
Filed(p) == {q \in (p + 1) .. (n[p] - 1) : fd[p][q] # None}
Misfiled(p) == \E q \in Party : q < p /\ fd[p][q] \notin {None, Mine(p, q)}
SlotInv ==
  \A p \in Party :
    /\ Cardinality(Filed(p)) + slots[p] <= Incoming(p)
    /\ Misfiled(p) => Cardinality(Filed(p)) + slots[p] < Incoming(p)

IInv == TypeOK /\ ControlInv /\ ConnectionInv /\ LiveInv /\ TableInv /\ SlotInv

-----------------------------------------------------------------------------
(* Types.                                                                  *)

LEMMA PartyFacts ==
  /\ N \in Nat \ {0} /\ MaxUpsets \in Nat /\ 0 \in Party
  /\ \A p \in Party : p \in Nat /\ p < N /\ p \in Int
  /\ \A s \in Sizes : s \in Nat /\ 1 <= s /\ s <= N
<1>1. N \in Nat \ {0} /\ MaxUpsets \in Nat /\ Sizes \subseteq 1 .. N
  BY CommAssumption
<1>2. QED
  BY <1>1 DEF Party

LEMMA ConnectionFacts ==
  ASSUME NEW c \in Connection
  PROVE  /\ c # None /\ c.to \in Party /\ c.run \in 1 .. (MaxUpsets + 1)
         /\ c.from \in Party \/ (c.from = Stranger /\ c.id \in StrangerIds)
         /\ c.id \in Int
<1>1. N \in Nat \ {0} /\ MaxUpsets \in Nat /\ StrangerIds \subseteq Int
  BY CommAssumption
<1>2. CASE c \in [from : Party, run : 1 .. (MaxUpsets + 1), to : Party, id : Party]
  <2>1. c.from # -1
    BY <1>1, <1>2 DEF Party
  <2>2. c # None
    BY <2>1 DEF None
  <2>3. QED
    BY <1>1, <1>2, <2>2 DEF Party
<1>3. CASE c \in [from : {Stranger}, run : 1 .. MaxUpsets, to : Party, id : StrangerIds]
  <2>1. c.from # -1
    BY <1>1, <1>3 DEF Stranger
  <2>2. c # None
    BY <2>1 DEF None
  <2>3. c.run \in 1 .. MaxUpsets /\ c.from = Stranger /\ c.id \in StrangerIds
        /\ c.to \in Party
    BY <1>3
  <2>4. c.run \in 1 .. (MaxUpsets + 1)
    BY ONLY <1>1, <2>3
  <2>5. QED
    BY <1>1, <2>2, <2>3, <2>4
<1>4. QED
  BY <1>2, <1>3 DEF Connection

(* A party's own connection is a connection, and of its incarnation.       *)
LEMMA MineFacts ==
  ASSUME TypeOK, ControlInv, NEW p \in Party, main[p] # "off", NEW j \in Party
  PROVE  /\ Mine(p, j) \in Connection /\ Mine(p, j) # None
         /\ Mine(p, j).from = p /\ Mine(p, j).to = j /\ Mine(p, j).id = p
         /\ Mine(p, j).run = starts[p] /\ p # Stranger
<1>1. starts[p] \in 1 .. (MaxUpsets + 1)
  BY PartyFacts DEF TypeOK, ControlInv
<1>2. Mine(p, j) \in Connection
  BY <1>1 DEF Mine, Connection
<1>3. Mine(p, j) # None
  BY <1>2, ConnectionFacts
<1>4. QED
  BY <1>2, <1>3, PartyFacts DEF Mine, Stranger

(* In step 3 the main thread's j is a lower id.                            *)
LEMMA NextParty ==
  ASSUME TypeOK, ControlInv, NEW p \in Party,
         main[p] \in {"connect", "handshake", "record"}
  PROVE  next[p] \in Party /\ next[p] < p /\ main[p] # "off"
<1>1. next[p] \in 0 .. N /\ next[p] < p
  BY DEF TypeOK, ControlInv
<1>2. QED
  BY <1>1, PartyFacts DEF Party

LEMMA TypeInit == Init => TypeOK /\ ControlInv
<1> SUFFICES ASSUME Init PROVE TypeOK /\ ControlInv
  OBVIOUS
<1>1. n \in [Party -> Sizes] /\ \A p \in Party : p < n[p]
  BY DEF Init
<1>2. N \in Nat \ {0} /\ MaxUpsets \in Nat
  BY PartyFacts
<1>3. TypeOK
  BY <1>1, <1>2 DEF Init, TypeOK
<1>4. ControlInv
  BY <1>1 DEF Init, ControlInv
<1>5. QED
  BY <1>3, <1>4

(* Taking a queue's first element, or adding one, leaves a queue.          *)
LEMMA QueueTypes ==
  ASSUME TypeOK, NEW j \in Party, NEW c \in Connection
  PROVE  /\ Append(backlog[j], c) \in Seq(Connection)
         /\ backlog[j] # <<>> => /\ Head(backlog[j]) \in Connection
                                 /\ Tail(backlog[j]) \in Seq(Connection)
BY DEF TypeOK

LEMMA StartType ==
  ASSUME TypeOK, ControlInv, NEW p \in Party, Start(p)
  PROVE  TypeOK' /\ ControlInv'
<1>1. /\ n[p] \in Nat /\ 1 <= n[p] /\ n[p] <= N /\ p \in Nat /\ p < n[p] /\ N \in Nat
      /\ MaxUpsets \in Nat /\ starts[p] \in Nat /\ upsets \in Nat
      /\ starts[p] <= upsets + 1 /\ upsets <= MaxUpsets
  BY PartyFacts DEF TypeOK, ControlInv
<1>2. Incoming(p) \in 0 .. (N - 1)
  BY <1>1 DEF Incoming
<1>3. upsets' \in 0 .. MaxUpsets /\ upsets <= upsets'
  BY <1>1 DEF Start
<1>4. starts[p] + 1 \in 0 .. (MaxUpsets + 1) /\ starts[p] + 1 <= upsets' + 1
      /\ 1 <= starts[p] + 1
  BY <1>1 DEF Start
<1>5. TypeOK'
  <2>1. (IF p = 0 THEN 1 ELSE 0) \in 0 .. N
    BY <1>1
  <2>2. starts' \in [Party -> 0 .. (MaxUpsets + 1)]
    BY <1>4 DEF Start, TypeOK
  <2>3. slots' \in [Party -> 0 .. (N - 1)]
    BY <1>2 DEF Start, TypeOK
  <2>4. next' \in [Party -> 0 .. N]
    BY <2>1 DEF Start, TypeOK
  <2>5. QED
    BY <1>3, <2>2, <2>3, <2>4 DEF Start, TypeOK
<1>6. ASSUME NEW q \in Party, q # p PROVE starts'[q] = starts[q] /\ starts[q] \in Nat
  BY <1>6 DEF Start, TypeOK
<1>7. ControlInv'
  <2> SUFFICES ASSUME NEW q \in Party
               PROVE  ControlInv!(q)'
    BY DEF ControlInv
  <2>1. CASE q = p
    BY <1>1, <1>4, <2>1 DEF Start, ControlInv, TypeOK
  <2>2. CASE q # p
    BY <1>1, <1>3, <1>6, <2>2 DEF Start, ControlInv, TypeOK
  <2>3. QED
    BY <2>1, <2>2
<1>8. QED
  BY <1>5, <1>7

LEMMA MainType ==
  ASSUME TypeOK, ControlInv, NEW p \in Party, MainThread(p)
  PROVE  TypeOK' /\ ControlInv'
<1> USE DEF mainVars, acceptorVars, net
<1>1. CASE Connect(p)
  <2>1. next[p] \in Party /\ Mine(p, next[p]) \in Connection
    BY <1>1, NextParty, MineFacts DEF Connect
  <2>2. Append(backlog[next[p]], Mine(p, next[p])) \in Seq(Connection)
    BY <2>1, QueueTypes
  <2>3. backlog' \in [Party -> Seq(Connection)] /\ live' \subseteq Connection
    BY <1>1, <2>1, <2>2 DEF Connect, TypeOK
  <2>4. TypeOK'
    BY <1>1, <2>3 DEF Connect, TypeOK
  <2>5. ControlInv'
    BY <1>1 DEF Connect, TypeOK, ControlInv
  <2>6. QED
    BY <2>4, <2>5
<1>2. CASE SendId(p)
  <2>1. hello' \subseteq Connection
    BY <1>2 DEF SendId, TypeOK
  <2>2. TypeOK'
    BY <1>2, <2>1 DEF SendId, TypeOK
  <2>3. ControlInv'
    BY <1>2 DEF SendId, TypeOK, ControlInv
  <2>4. QED
    BY <2>2, <2>3
<1>3. CASE RecordFd(p)
  <2>1. /\ next[p] \in Party /\ next[p] < p /\ Mine(p, next[p]) \in Connection
        /\ p \in Nat /\ p < n[p] /\ n[p] \in Nat /\ n[p] <= N /\ p < N /\ N \in Nat
        /\ next[p] \in Nat
    BY <1>3, NextParty, MineFacts, PartyFacts DEF RecordFd, ControlInv, TypeOK
  <2>2. fd' \in [Party -> [Party -> Connection \cup {None}]]
    BY <1>3, <2>1 DEF RecordFd, TypeOK
  <2>3. next[p] + 1 \in 0 .. N /\ p + 1 \in 0 .. N /\ p < p + 1 /\ p + 1 <= n[p]
    BY ONLY <2>1
  <2>4. next' \in [Party -> 0 .. N] /\ UNCHANGED upsets
    BY <1>3, <2>3 DEF RecordFd, TypeOK
  <2>5. TypeOK'
    <3>1. main' \in [Party -> {"off", "connect", "handshake", "record", "wait",
                             "returned"}]
      BY <1>3 DEF RecordFd, TypeOK
    <3>2. UNCHANGED <<starts, acceptorVars, net>>
      BY <1>3 DEF RecordFd
    <3>3. QED
      BY <2>2, <2>4, <3>1, <3>2 DEF TypeOK, acceptorVars, net
  <2>6. ControlInv'
    <3> SUFFICES ASSUME NEW q \in Party PROVE ControlInv!(q)'
      BY DEF ControlInv
    <3>1. CASE q = p
      BY <1>3, <2>3, <3>1 DEF RecordFd, ControlInv, TypeOK
    <3>2. CASE q # p
      BY <1>3, <3>2 DEF RecordFd, ControlInv, TypeOK
    <3>3. QED
      BY <3>1, <3>2
  <2>7. QED
    BY <2>5, <2>6
<1>4. CASE Poll(p)
  <2>1. /\ next[p] \in Nat /\ next[p] < n[p] /\ n[p] \in Nat /\ n[p] <= N
        /\ N \in Nat /\ p < next[p] /\ p \in Nat
    BY <1>4, PartyFacts DEF Poll, ControlInv, TypeOK
  <2>2. next[p] + 1 \in 0 .. N /\ next[p] + 1 <= n[p] /\ p < next[p] + 1
    BY ONLY <2>1
  <2>3. TypeOK'
    BY <1>4, <2>2 DEF Poll, TypeOK
  <2>4. ControlInv'
    BY <1>4, <2>2 DEF Poll, TypeOK, ControlInv
  <2>5. QED
    BY <2>3, <2>4
<1>5. CASE Return(p)
  <2>1. TypeOK'
    BY <1>5 DEF Return, TypeOK
  <2>2. ControlInv'
    BY <1>5 DEF Return, TypeOK, ControlInv
  <2>3. QED
    BY <2>1, <2>2
<1>6. QED
  BY <1>1, <1>2, <1>3, <1>4, <1>5 DEF MainThread

(* The end of an iteration of the acceptor's loop.                         *)
LEMMA NextSlotType ==
  ASSUME TypeOK, ControlInv, NEW p \in Party, slots[p] > 0, main[p] # "off",
         NextSlot(p), UNCHANGED <<n, starts, main, next>>,
         upsets' \in {upsets, upsets + 1}
  PROVE  /\ slots' \in [Party -> 0 .. (N - 1)]
         /\ cur' \in [Party -> Connection \cup {None}]
         /\ acceptor' \in [Party -> {"off", "accept", "recv"}]
         /\ ControlInv'
<1>1. slots[p] \in 0 .. (N - 1) /\ N \in Nat \ {0}
  BY PartyFacts DEF TypeOK
<1>2. slots[p] - 1 \in 0 .. (N - 1)
  BY ONLY <1>1, slots[p] > 0
<1>3. \A q \in Party : starts[q] \in Nat /\ upsets \in Nat
  BY DEF TypeOK
<1>4. ControlInv'
  BY <1>2, <1>3 DEF NextSlot, ControlInv, TypeOK
<1>5. QED
  BY <1>2, <1>4 DEF NextSlot, TypeOK

LEMMA AcceptorType ==
  ASSUME TypeOK, ControlInv, NEW p \in Party, AcceptorThread(p) \/ AcceptFails(p)
  PROVE  TypeOK' /\ ControlInv'
<1> USE DEF mainVars
<1>0. acceptor[p] # "off" /\ main[p] # "off"
  BY DEF AcceptorThread, AcceptFails, Accept, Handshake, HandshakeFails,
         AcceptorEnds, ControlInv
<1>1. CASE Accept(p)
  <2>1. Head(backlog[p]) \in Connection /\ Tail(backlog[p]) \in Seq(Connection)
    BY <1>1 DEF Accept, TypeOK
  <2>2. Head(backlog[p]) # None
    BY <2>1, ConnectionFacts
  <2>3. TypeOK'
    BY <1>1, <2>1 DEF Accept, TypeOK
  <2>4. ControlInv'
    BY <1>0, <1>1, <2>2 DEF Accept, TypeOK, ControlInv
  <2>5. QED
    BY <2>3, <2>4
<1>2. CASE Handshake(p)
  <2>1. slots[p] > 0 /\ cur[p] \in Connection
    BY <1>2 DEF Handshake, TypeOK, ControlInv
  <2>2. cur[p].id \in Party
    <3>1. n[p] \in Nat /\ n[p] <= N /\ N \in Nat /\ cur[p].id \in Int
      BY <2>1, ConnectionFacts, PartyFacts DEF TypeOK
    <3>2. 0 <= cur[p].id /\ cur[p].id < n[p]
      BY <1>2 DEF Handshake, InRange
    <3>3. QED
      BY ONLY <3>1, <3>2 DEF Party
  <2>3. fd' \in [Party -> [Party -> Connection \cup {None}]]
    BY <1>2, <2>1, <2>2 DEF Handshake, TypeOK
  <2>4. /\ slots' \in [Party -> 0 .. (N - 1)]
        /\ cur' \in [Party -> Connection \cup {None}]
        /\ acceptor' \in [Party -> {"off", "accept", "recv"}]
        /\ ControlInv'
    BY <1>0, <1>2, <2>1, NextSlotType DEF Handshake
  <2>5. TypeOK'
    BY <1>2, <2>3, <2>4 DEF Handshake, TypeOK
  <2>6. QED
    BY <2>4, <2>5
<1>3. CASE HandshakeFails(p)
  <2>1. slots[p] > 0
    BY <1>3 DEF HandshakeFails, ControlInv
  <2>2. /\ slots' \in [Party -> 0 .. (N - 1)]
        /\ cur' \in [Party -> Connection \cup {None}]
        /\ acceptor' \in [Party -> {"off", "accept", "recv"}]
        /\ ControlInv'
    BY <1>0, <1>3, <2>1, NextSlotType DEF HandshakeFails
  <2>3. TypeOK'
    BY <1>3, <2>2 DEF HandshakeFails, TypeOK
  <2>4. QED
    BY <2>2, <2>3
<1>4. CASE AcceptorEnds(p)
  <2>1. backlog' \in [Party -> Seq(Connection)]
    BY <1>4 DEF AcceptorEnds, TypeOK
  <2>2. live' \subseteq Connection /\ hello' \subseteq Connection
    BY <1>4 DEF AcceptorEnds, TypeOK
  <2>3. TypeOK'
    BY <1>4, <2>1, <2>2 DEF AcceptorEnds, TypeOK
  <2>4. ControlInv'
    BY <1>4 DEF AcceptorEnds, TypeOK, ControlInv
  <2>5. QED
    BY <2>3, <2>4
<1>5. CASE AcceptFails(p)
  <2>1. upsets \in Nat /\ upsets' = upsets + 1 /\ upsets + 1 \in 0 .. MaxUpsets
    BY <1>5, PartyFacts DEF AcceptFails, TypeOK
  <2>2. /\ slots' \in [Party -> 0 .. (N - 1)]
        /\ cur' \in [Party -> Connection \cup {None}]
        /\ acceptor' \in [Party -> {"off", "accept", "recv"}]
        /\ ControlInv'
    BY <1>0, <1>5, <2>1, NextSlotType DEF AcceptFails
  <2>3. TypeOK'
    BY <1>5, <2>1, <2>2 DEF AcceptFails, TypeOK
  <2>4. QED
    BY <2>2, <2>3
<1>6. QED
  BY <1>1, <1>2, <1>3, <1>4, <1>5 DEF AcceptorThread

LEMMA OtherType ==
  ASSUME TypeOK, ControlInv
  PROVE  /\ \A p \in Party : Exit(p) \/ StrangerConnects(p) => TypeOK' /\ ControlInv'
         /\ StrangerLeaves => TypeOK' /\ ControlInv'
         /\ UNCHANGED vars => TypeOK' /\ ControlInv'
<1> USE DEF mainVars, acceptorVars, net
<1>1. ASSUME NEW p \in Party, Exit(p) PROVE TypeOK' /\ ControlInv'
  <2>1. 0 \in 0 .. N /\ 0 \in 0 .. (N - 1)
    BY PartyFacts
  <2>2. backlog' \in [Party -> Seq(Connection)]
    BY <1>1 DEF Exit, TypeOK
  <2>3. fd' \in [Party -> [Party -> Connection \cup {None}]]
    BY <1>1 DEF Exit, TypeOK
  <2>4. TypeOK'
    BY <1>1, <2>1, <2>2, <2>3 DEF Exit, TypeOK
  <2>5. ControlInv'
    BY <1>1 DEF Exit, TypeOK, ControlInv
  <2>6. QED
    BY <2>4, <2>5
<1>2. ASSUME NEW p \in Party, StrangerConnects(p) PROVE TypeOK' /\ ControlInv'
  <2>1. upsets \in Nat /\ upsets + 1 \in 1 .. MaxUpsets /\ upsets' = upsets + 1
    BY <1>2, PartyFacts DEF StrangerConnects, TypeOK
  <2>2. PICK id \in StrangerIds, says \in BOOLEAN :
          LET c == [from |-> Stranger, run |-> upsets + 1, to |-> p, id |-> id]
          IN  /\ backlog' = [backlog EXCEPT ![p] = Append(@, c)]
              /\ live' = live \cup {c}
              /\ hello' = IF says THEN hello \cup {c} ELSE hello
    BY <1>2 DEF StrangerConnects
  <2> DEFINE c == [from |-> Stranger, run |-> upsets + 1, to |-> p, id |-> id]
  <2>3. c \in Connection
    BY <2>1 DEF Connection
  <2>4. Append(backlog[p], c) \in Seq(Connection)
    BY <2>3, QueueTypes
  <2> HIDE DEF c
  <2>5. backlog' \in [Party -> Seq(Connection)]
    BY <2>2, <2>4 DEF TypeOK, c
  <2>6. live' \subseteq Connection /\ hello' \subseteq Connection
    BY <2>2, <2>3 DEF TypeOK, c
  <2>7. upsets' \in 0 .. MaxUpsets
    BY <2>1, PartyFacts
  <2>8. TypeOK'
    BY <1>2, <2>5, <2>6, <2>7 DEF StrangerConnects, TypeOK
  <2>9. ControlInv'
    BY <1>2, <2>1 DEF StrangerConnects, TypeOK, ControlInv
  <2>10. QED
    BY <2>8, <2>9
<1>3. ASSUME StrangerLeaves PROVE TypeOK' /\ ControlInv'
  <2>1. live' \subseteq live
    BY <1>3 DEF StrangerLeaves
  <2>2. TypeOK'
    BY <1>3, <2>1 DEF StrangerLeaves, TypeOK
  <2>3. ControlInv'
    BY <1>3 DEF StrangerLeaves, ControlInv
  <2>4. QED
    BY <2>2, <2>3
<1>4. ASSUME UNCHANGED vars PROVE TypeOK' /\ ControlInv'
  BY <1>4 DEF vars, TypeOK, ControlInv
<1>5. QED
  BY <1>1, <1>2, <1>3, <1>4

(* What a step can be, for the proofs that follow.                         *)
LEMMA Cases ==
  ASSUME [Next]_vars
  PROVE  \/ \E p \in Party : Start(p)
         \/ \E p \in Party : MainThread(p)
         \/ \E p \in Party : AcceptorThread(p) \/ AcceptFails(p)
         \/ \E p \in Party : Exit(p) \/ StrangerConnects(p)
         \/ StrangerLeaves \/ UNCHANGED vars
BY DEF Next, Fault

LEMMA TypeNext == TypeOK /\ ControlInv /\ [Next]_vars => TypeOK' /\ ControlInv'
BY StartType, MainType, AcceptorType, OtherType, Cases

-----------------------------------------------------------------------------
(* Connections.                                                            *)

Base == TypeOK /\ ControlInv

(* A party is started again, never back.                                   *)
LEMMA StartsGrow ==
  ASSUME Base, [Next]_vars
  PROVE  \A q \in Party : starts[q] \in Nat /\ starts'[q] \in Nat /\ starts[q] <= starts'[q]
<1> USE DEF mainVars, acceptorVars, net
<1>1. starts \in [Party -> Nat]
  BY DEF Base, TypeOK
<1>2. starts' = starts \/ \E p \in Party : starts' = [starts EXCEPT ![p] = @ + 1]
  BY Cases DEF Start, MainThread, Connect, SendId, RecordFd, Poll, Return,
     AcceptorThread, Accept, AcceptFails, Handshake, HandshakeFails, AcceptorEnds,
     Exit, StrangerConnects, StrangerLeaves, vars
<1>3. QED
  BY <1>1, <1>2

(* A genuine connection stays one.                                         *)
LEMMA GenuineStays ==
  ASSUME Base, [Next]_vars, NEW c \in Connection, Genuine(c, starts)
  PROVE  Genuine(c, starts')
<1>1. c.from # Stranger => c.from \in Party /\ c.run \in Nat
  BY ConnectionFacts, PartyFacts
<1>2. QED
  BY <1>1, StartsGrow DEF Genuine

(* What a step does to a queue and to the connection that an acceptor      *)
(* holds.                                                                  *)
LEMMA QueueStep ==
  ASSUME Base, [Next]_vars, NEW p \in Party
  PROVE  /\ \/ backlog'[p] \in {backlog[p], <<>>}
            \/ backlog[p] # <<>> /\ backlog'[p] = Tail(backlog[p])
            \/ \E c \in Connection :
                 /\ backlog'[p] = Append(backlog[p], c)
                 /\ c.to = p /\ Genuine(c, starts)
         /\ \/ cur'[p] \in {cur[p], None}
            \/ backlog[p] # <<>> /\ cur'[p] = Head(backlog[p])
<1> USE DEF mainVars, acceptorVars, net
<1>0. backlog = [q \in Party |-> backlog[q]] /\ cur = [q \in Party |-> cur[q]]
  BY DEF Base, TypeOK
<1>1. ASSUME NEW q \in Party, Start(q) PROVE UNCHANGED <<backlog, cur>>
  BY <1>1 DEF Start
<1>2. ASSUME NEW q \in Party, MainThread(q)
      PROVE  /\ UNCHANGED cur
             /\ \/ UNCHANGED backlog
                \/ \E c \in Connection : /\ backlog' = [backlog EXCEPT ![c.to] = Append(@, c)]
                                         /\ Genuine(c, starts)
  <2>1. CASE Connect(q)
    <3>1. next[q] \in Party /\ next[q] < q /\ main[q] # "off"
      BY <2>1, NextParty DEF Connect, Base
    <3>2. /\ Mine(q, next[q]) \in Connection /\ Mine(q, next[q]).to = next[q]
          /\ Mine(q, next[q]).from = q /\ Mine(q, next[q]).id = q
          /\ Mine(q, next[q]).run = starts[q] /\ starts[q] \in Nat
      BY <3>1, MineFacts DEF Base, TypeOK
    <3>3. Genuine(Mine(q, next[q]), starts)
      BY <3>1, <3>2 DEF Genuine
    <3>4. QED
      BY <2>1, <3>2, <3>3 DEF Connect
  <2>2. CASE ~Connect(q)
    BY <1>2, <2>2 DEF MainThread, SendId, RecordFd, Poll, Return
  <2>3. QED
    BY <2>1, <2>2
<1>3. ASSUME NEW q \in Party, AcceptorThread(q) \/ AcceptFails(q)
      PROVE  \/ /\ backlog[q] # <<>>
                /\ cur' = [cur EXCEPT ![q] = Head(backlog[q])]
                /\ backlog' = [backlog EXCEPT ![q] = Tail(@)]
             \/ cur' = [cur EXCEPT ![q] = None] /\ UNCHANGED backlog
             \/ UNCHANGED cur /\ backlog' = [backlog EXCEPT ![q] = <<>>]
  BY <1>3 DEF AcceptorThread, AcceptFails, Accept, Handshake, HandshakeFails,
     AcceptorEnds, NextSlot
<1>4. ASSUME NEW q \in Party, Exit(q)
      PROVE  cur' = [cur EXCEPT ![q] = None] /\ backlog' = [backlog EXCEPT ![q] = <<>>]
  BY <1>4 DEF Exit
<1>5. ASSUME NEW q \in Party, StrangerConnects(q)
      PROVE  /\ UNCHANGED cur
             /\ \E c \in Connection : /\ backlog' = [backlog EXCEPT ![c.to] = Append(@, c)]
                                      /\ Genuine(c, starts)
  <2>1. upsets + 1 \in 1 .. MaxUpsets
    BY <1>5, PartyFacts DEF StrangerConnects, Base, TypeOK
  <2>2. PICK id \in StrangerIds :
          backlog' = [backlog EXCEPT ![q] = Append(@,
            [from |-> Stranger, run |-> upsets + 1, to |-> q, id |-> id])]
    BY <1>5 DEF StrangerConnects
  <2> DEFINE c == [from |-> Stranger, run |-> upsets + 1, to |-> q, id |-> id]
  <2>3. c \in Connection /\ c.to = q /\ Genuine(c, starts)
    BY <2>1 DEF Connection, Genuine
  <2>4. QED
    BY <1>5, <2>2, <2>3 DEF StrangerConnects
<1>6. CASE UNCHANGED <<backlog, cur>>
  BY <1>6
<1>7. QED
  BY <1>0, <1>1, <1>2, <1>3, <1>4, <1>5, <1>6, Cases DEF StrangerLeaves, vars

LEMMA ConnectionNext ==
  ASSUME Base, ConnectionInv, [Next]_vars
  PROVE  ConnectionInv'
<1> SUFFICES ASSUME NEW p \in Party
             PROVE  ConnectionInv!(p)'
  BY DEF ConnectionInv
<1>1. /\ backlog[p] \in Seq(Connection) /\ cur[p] \in Connection \cup {None}
      /\ backlog'[p] \in Seq(Connection)
  BY TypeNext DEF Base, TypeOK
<1>2. \A k \in 1 .. Len(backlog[p]) : /\ backlog[p][k] \in Connection
                                      /\ Genuine(backlog[p][k], starts') /\ backlog[p][k].to = p
  BY <1>1, GenuineStays DEF ConnectionInv
<1>3. cur[p] # None => Genuine(cur[p], starts') /\ cur[p].to = p
  BY <1>1, GenuineStays DEF ConnectionInv
<1>4. \A k \in 1 .. Len(backlog'[p]) : Genuine(backlog'[p][k], starts') /\ backlog'[p][k].to = p
  <2>1. CASE backlog'[p] \in {backlog[p], <<>>}
    BY <1>2, <2>1
  <2>2. CASE backlog[p] # <<>> /\ backlog'[p] = Tail(backlog[p])
    <3>1. \A k \in 1 .. Len(Tail(backlog[p])) :
            k + 1 \in 1 .. Len(backlog[p]) /\ Tail(backlog[p])[k] = backlog[p][k + 1]
      BY <1>1, <2>2
    <3>2. QED
      BY <1>2, <2>2, <3>1
  <2>3. CASE \E c \in Connection : /\ backlog'[p] = Append(backlog[p], c)
                                   /\ c.to = p /\ Genuine(c, starts)
    <3>1. PICK c \in Connection : /\ backlog'[p] = Append(backlog[p], c)
                                  /\ c.to = p /\ Genuine(c, starts')
      BY <2>3, GenuineStays
    <3>2. \A k \in 1 .. Len(Append(backlog[p], c)) :
            \/ k \in 1 .. Len(backlog[p]) /\ Append(backlog[p], c)[k] = backlog[p][k]
            \/ Append(backlog[p], c)[k] = c
      BY <1>1
    <3>3. QED
      BY <1>2, <3>1, <3>2
  <2>4. QED
    BY <2>1, <2>2, <2>3, QueueStep
<1>5. cur'[p] # None => Genuine(cur'[p], starts') /\ cur'[p].to = p
  <2>1. CASE cur'[p] \in {cur[p], None}
    BY <1>3, <2>1
  <2>2. CASE backlog[p] # <<>> /\ cur'[p] = Head(backlog[p])
    <3>1. 1 \in 1 .. Len(backlog[p]) /\ Head(backlog[p]) = backlog[p][1]
      BY <1>1, <2>2
    <3>2. QED
      BY <1>2, <2>2, <3>1
  <2>3. QED
    BY <2>1, <2>2, QueueStep
<1>6. QED
  BY <1>4, <1>5

LEMMA LiveNext ==
  ASSUME Base, LiveInv, [Next]_vars
  PROVE  LiveInv'
<1> USE DEF mainVars, acceptorVars, net
<1> SUFFICES ASSUME NEW c \in live', c.from # Stranger
             PROVE  main'[c.from] # "off" /\ c.run = starts'[c.from]
  BY DEF LiveInv
<1>0. live' \subseteq Connection /\ c.from \in Party
  BY TypeNext, ConnectionFacts DEF Base, TypeOK
<1>1. ASSUME NEW p \in Party, Start(p) PROVE LiveInv!(c)'
  <2>1. c \in live /\ c.from # p
    BY <1>1 DEF Start, LiveInv
  <2>2. QED
    BY <1>0, <1>1, <2>1 DEF Start, LiveInv, Base, TypeOK
<1>2. ASSUME NEW p \in Party, MainThread(p) PROVE LiveInv!(c)'
  <2>1. starts' = starts /\ main[p] # "off"
        /\ \A q \in Party : main'[q] = "off" <=> main[q] = "off"
    BY <1>2 DEF MainThread, Connect, SendId, RecordFd, Poll, Return, Base, TypeOK
  <2>2. c \in live \/ c = Mine(p, next[p])
    BY <1>2 DEF MainThread, Connect, SendId, RecordFd, Poll, Return
  <2>3. CASE c \in live
    BY <1>0, <2>1, <2>3 DEF LiveInv
  <2>4. CASE c = Mine(p, next[p])
    BY <2>1, <2>4 DEF Mine
  <2>5. QED
    BY <2>2, <2>3, <2>4
<1>3. ASSUME NEW p \in Party, AcceptorThread(p) \/ AcceptFails(p) PROVE LiveInv!(c)'
  <2>1. live' \subseteq live /\ UNCHANGED <<main, starts>>
    BY <1>3 DEF AcceptorThread, AcceptFails, Accept, Handshake, HandshakeFails,
       AcceptorEnds
  <2>2. QED
    BY <2>1 DEF LiveInv
<1>4. ASSUME NEW p \in Party, Exit(p) PROVE LiveInv!(c)'
  <2>1. c \in live /\ c.from # p /\ UNCHANGED starts
    BY <1>4 DEF Exit
  <2>2. main'[c.from] = main[c.from]
    BY <1>0, <1>4, <2>1 DEF Exit, Base, TypeOK
  <2>3. QED
    BY <2>1, <2>2 DEF LiveInv
<1>5. ASSUME NEW p \in Party, StrangerConnects(p) PROVE LiveInv!(c)'
  BY <1>5 DEF StrangerConnects, LiveInv
<1>6. CASE StrangerLeaves \/ UNCHANGED vars
  BY <1>6 DEF StrangerLeaves, LiveInv, vars
<1>7. QED
  BY <1>1, <1>2, <1>3, <1>4, <1>5, <1>6, Cases

-----------------------------------------------------------------------------
(* The table.                                                              *)

Own(p) == <<main[p], next[p], acceptor[p], slots[p], cur[p], fd[p], starts[p]>>

(* A step is one of the party itself or leaves what it owns alone.         *)
LEMMA OwnSteps ==
  ASSUME Base, [Next]_vars, NEW p \in Party
  PROVE  /\ \/ Start(p) \/ MainThread(p) \/ AcceptorThread(p) \/ AcceptFails(p)
            \/ Exit(p) \/ UNCHANGED Own(p)
         /\ UNCHANGED n
<1> USE DEF mainVars, acceptorVars, net
<1>0. Base
  OBVIOUS
<1>1. ASSUME NEW q \in Party, Start(q)
      PROVE  UNCHANGED n /\ (q # p => UNCHANGED Own(p))
  BY <1>0, <1>1 DEF Start, Own, Base, TypeOK
<1>2. ASSUME NEW q \in Party, MainThread(q)
      PROVE  UNCHANGED n /\ (q # p => UNCHANGED Own(p))
  BY <1>0, <1>2 DEF MainThread, Connect, SendId, RecordFd, Poll, Return, Own, Base, TypeOK
<1>3. ASSUME NEW q \in Party, AcceptorThread(q) \/ AcceptFails(q)
      PROVE  UNCHANGED n /\ (q # p => UNCHANGED Own(p))
  BY <1>0, <1>3 DEF AcceptorThread, AcceptFails, Accept, Handshake, HandshakeFails,
     AcceptorEnds, NextSlot, Own, Base, TypeOK
<1>4. ASSUME NEW q \in Party, Exit(q)
      PROVE  UNCHANGED n /\ (q # p => UNCHANGED Own(p))
  BY <1>0, <1>4 DEF Exit, Own, Base, TypeOK
<1>5. ASSUME NEW q \in Party, StrangerConnects(q) \/ StrangerLeaves
      PROVE  UNCHANGED n /\ UNCHANGED Own(p)
  BY <1>5 DEF StrangerConnects, StrangerLeaves, Own
<1>6. ASSUME UNCHANGED vars PROVE UNCHANGED n /\ UNCHANGED Own(p)
  BY <1>6 DEF vars, Own
<1>7. QED
  BY <1>1, <1>2, <1>3, <1>4, <1>5, <1>6, Cases

(* What the acceptor files under an id is a connection that carries it;    *)
(* under a higher id it is one that this party made.                       *)
LEMMA HandshakeEffect ==
  ASSUME Base, ConnectionInv, NEW p \in Party, Handshake(p)
  PROVE  /\ cur[p] \in Connection /\ cur[p] # None /\ slots[p] > 0 /\ main[p] # "off"
         /\ cur[p].id \in Party /\ cur[p].id < n[p]
         /\ fd'[p] = [fd[p] EXCEPT ![cur[p].id] = cur[p]]
         /\ p < cur[p].id => /\ cur[p].from = cur[p].id /\ cur[p].to = p
                             /\ cur[p].run <= starts[cur[p].id]
         /\ UNCHANGED <<n, main, next, starts>>
<1>1. cur[p] \in Connection /\ cur[p] # None /\ slots[p] > 0 /\ main[p] # "off"
  BY DEF Handshake, Base, TypeOK, ControlInv
<1>2. cur[p].id \in Int /\ 0 <= cur[p].id /\ cur[p].id < n[p] /\ n[p] \in Nat /\ n[p] <= N
  BY <1>1, ConnectionFacts, PartyFacts DEF Handshake, InRange, Base, TypeOK
<1>3. cur[p].id \in Party
  BY ONLY <1>2, PartyFacts DEF Party
<1>4. fd'[p] = [fd[p] EXCEPT ![cur[p].id] = cur[p]]
  BY <1>3 DEF Handshake, Base, TypeOK
<1>5. ASSUME p < cur[p].id
      PROVE  /\ cur[p].from = cur[p].id /\ cur[p].to = p
             /\ cur[p].run <= starts[cur[p].id]
  <2>1. cur[p].id \in 1 .. (N - 1)
    BY <1>3, <1>5, PartyFacts DEF Party
  <2>2. cur[p].from # Stranger
    BY <1>1, <2>1, ConnectionFacts, CommAssumption, PartyFacts DEF Stranger
  <2>3. QED
    BY <1>1, <2>2 DEF ConnectionInv, Genuine
<1>6. QED
  BY <1>1, <1>2, <1>3, <1>4, <1>5 DEF Handshake, mainVars

LEMMA RecordEffect ==
  ASSUME Base, NEW p \in Party, RecordFd(p)
  PROVE  /\ next[p] \in Party /\ next[p] < p
         /\ fd'[p] = [fd[p] EXCEPT ![next[p]] = Mine(p, next[p])]
         /\ Mine(p, next[p]) # None
         /\ \/ main'[p] = "connect" /\ next'[p] = next[p] + 1
            \/ main'[p] = "wait" /\ next'[p] = p + 1 /\ p <= next[p] + 1
         /\ main[p] = "record" /\ UNCHANGED <<n, starts, slots>>
<1>1. next[p] \in Party /\ next[p] < p /\ main[p] # "off"
  BY NextParty DEF RecordFd, Base
<1>2. Mine(p, next[p]) # None
  BY <1>1, MineFacts DEF Base
<1>3. fd'[p] = [fd[p] EXCEPT ![next[p]] = Mine(p, next[p])]
  BY DEF RecordFd, Base, TypeOK
<1>4. p \in Nat /\ next[p] \in Nat
  BY <1>1, PartyFacts
<1>5. \/ main'[p] = "connect" /\ next'[p] = next[p] + 1
      \/ main'[p] = "wait" /\ next'[p] = p + 1 /\ p <= next[p] + 1
  BY <1>4 DEF RecordFd, Base, TypeOK
<1>6. QED
  BY <1>1, <1>2, <1>3, <1>5 DEF RecordFd, mainVars, acceptorVars

LEMMA TableStays ==
  ASSUME Base, TableInv, [Next]_vars, NEW p \in Party, NEW q \in Party,
         UNCHANGED fd[p], UNCHANGED <<main[p], next[p]>>
  PROVE  TableInv!(p, q)'
<1>1. UNCHANGED n /\ starts[q] \in Nat /\ starts'[q] \in Nat /\ starts[q] <= starts'[q]
  BY OwnSteps, StartsGrow
<1>2. fd[p][q] # None => fd[p][q].run \in Nat
  <2>1. fd[p][q] # None => fd[p][q] \in Connection
    BY DEF Base, TypeOK
  <2>2. QED
    BY <2>1, ConnectionFacts, PartyFacts
<1>3. fd'[p][q] = fd[p][q]
  OBVIOUS
<1>4. TableInv!(p, q)
  BY DEF TableInv
<1>5. QED
  BY <1>1, <1>2, <1>3, <1>4 DEF Reached, Recorded

(* The listener that a party reaches belongs to one that was started.      *)
LEMMA ListenerStarted ==
  ASSUME Base, NEW j \in Party, Listening(j)
  PROVE  starts[j] >= 1
BY DEF Listening, Base, ControlInv

LEMMA TableNext ==
  ASSUME Base, ConnectionInv, TableInv, [Next]_vars
  PROVE  TableInv'
<1> SUFFICES ASSUME NEW p \in Party, NEW q \in Party PROVE TableInv!(p, q)'
  BY DEF TableInv
<1> USE DEF mainVars, acceptorVars, net
<1>0. /\ UNCHANGED n /\ starts[q] \in Nat /\ starts'[q] \in Nat /\ starts[q] <= starts'[q]
      /\ p \in Nat /\ q \in Nat /\ TableInv!(p, q)
      /\ main[p] \in {"off", "connect", "handshake", "record", "wait", "returned"}
  BY OwnSteps, StartsGrow, PartyFacts DEF TableInv, Base, TypeOK
<1>1. CASE Start(p)
  <2>1. /\ main[p] = "off" /\ fd' = fd /\ fd[p][q] = None
        /\ \/ main'[p] = "connect" /\ next'[p] = 0
           \/ main'[p] = "wait" /\ p = 0 /\ next'[p] = 1
    BY <1>0, <1>1 DEF Start, Base, TypeOK
  <2>2. QED
    BY <1>0, <2>1 DEF Reached, Recorded
<1>2. CASE Connect(p)
  <2>1. /\ main[p] = "connect" /\ main'[p] = "handshake" /\ UNCHANGED <<fd, next>>
        /\ next[p] \in Party /\ Listening(next[p])
    BY <1>2, NextParty DEF Connect, Base, TypeOK
  <2>2. starts[next[p]] >= 1 /\ next[p] \in Nat
    BY <2>1, ListenerStarted, PartyFacts
  <2>3. q <= next[p] => q < next[p] \/ q = next[p]
    BY ONLY <1>0, <2>2
  <2>4. UNCHANGED starts
    BY <1>2 DEF Connect
  <2>5. QED
    BY <1>0, <2>1, <2>2, <2>3, <2>4 DEF Reached, Recorded
<1>3. CASE SendId(p)
  <2>1. main[p] = "handshake" /\ main'[p] = "record" /\ UNCHANGED <<fd, next, starts>>
    BY <1>3 DEF SendId, Base, TypeOK
  <2>2. QED
    BY <1>0, <2>1 DEF Reached, Recorded
<1>4. CASE RecordFd(p)
  <2>1. /\ next[p] \in Party /\ next[p] < p /\ next[p] \in Nat
        /\ fd'[p] = [fd[p] EXCEPT ![next[p]] = Mine(p, next[p])]
        /\ Mine(p, next[p]) # None
        /\ \/ main'[p] = "connect" /\ next'[p] = next[p] + 1
           \/ main'[p] = "wait" /\ next'[p] = p + 1 /\ p <= next[p] + 1
        /\ main[p] = "record" /\ UNCHANGED <<starts, slots>>
    BY <1>4, RecordEffect, PartyFacts
  <2>2. fd[p] \in [Party -> Connection \cup {None}]
    BY DEF Base, TypeOK
  <2>3. fd'[p][q] = IF q = next[p] THEN Mine(p, next[p]) ELSE fd[p][q]
    BY <2>1, <2>2
  <2>4. q < next[p] + 1 => q <= next[p]
    BY ONLY <1>0, <2>1
  <2>5. p <= next[p] + 1 /\ q < p => q <= next[p]
    BY ONLY <1>0, <2>1
  <2>6. q < next[p] \/ q = next[p] \/ ~(q <= next[p])
    BY ONLY <1>0, <2>1
  <2>7. p < q => q # next[p] /\ ~(q < p + 1)
    BY ONLY <1>0, <2>1
  <2>8. TableInv!(p, q)!1' /\ TableInv!(p, q)!2'
    BY <1>0, <2>1, <2>3, <2>7
  <2>9. q < p /\ Reached(p, q)' => Reached(p, q)
    BY <2>1, <2>4, <2>5 DEF Reached
  <2>10. q < p /\ Recorded(p, q)' => Recorded(p, q) \/ q = next[p]
    BY <2>1, <2>4, <2>5, <2>6 DEF Recorded
  <2>11. QED
    BY <1>0, <2>1, <2>3, <2>7, <2>8, <2>9, <2>10
<1>5. CASE Poll(p)
  <2>1. /\ main[p] = "wait" /\ UNCHANGED <<main, fd, starts>> /\ fd[p][next[p]] # None
        /\ next'[p] = next[p] + 1 /\ next[p] \in Nat
    BY <1>5 DEF Poll, Base, TypeOK
  <2>2. q < next[p] + 1 => q < next[p] \/ q = next[p]
    BY ONLY <1>0, <2>1
  <2>3. QED
    BY <1>0, <2>1, <2>2 DEF Reached, Recorded
<1>6. CASE Return(p)
  <2>1. main[p] = "wait" /\ main'[p] = "returned" /\ UNCHANGED <<fd, next, starts>>
    BY <1>6 DEF Return, Base, TypeOK
  <2>2. QED
    BY <1>0, <2>1 DEF Reached, Recorded
<1>7. CASE Handshake(p)
  <2>1. /\ cur[p] \in Connection /\ cur[p] # None /\ main[p] # "off"
        /\ cur[p].id \in Party /\ cur[p].id < n[p]
        /\ fd'[p] = [fd[p] EXCEPT ![cur[p].id] = cur[p]]
        /\ p < cur[p].id => /\ cur[p].from = cur[p].id /\ cur[p].to = p
                            /\ cur[p].run <= starts[cur[p].id]
        /\ UNCHANGED <<main, next, starts>>
    BY <1>7, HandshakeEffect
  <2>2. fd[p] \in [Party -> Connection \cup {None}]
    BY DEF Base, TypeOK
  <2>3. fd'[p][q] = IF q = cur[p].id THEN cur[p] ELSE fd[p][q]
    BY <2>1, <2>2
  <2>4. QED
    BY <1>0, <2>1, <2>3 DEF Reached, Recorded
<1>8. CASE Exit(p)
  <2>1. main'[p] = "off" /\ fd'[p] = [j \in Party |-> None]
    BY <1>8 DEF Exit, Base, TypeOK
  <2>2. QED
    BY <2>1 DEF Reached, Recorded
<1>9. CASE Accept(p) \/ AcceptFails(p) \/ HandshakeFails(p) \/ AcceptorEnds(p)
  <2>1. UNCHANGED <<main, next, fd>>
    BY <1>9 DEF Accept, AcceptFails, HandshakeFails, AcceptorEnds
  <2>2. QED
    BY <2>1, TableStays
<1>10. CASE UNCHANGED Own(p)
  BY <1>10, TableStays DEF Own
<1>11. QED
  BY <1>1, <1>2, <1>3, <1>4, <1>5, <1>6, <1>7, <1>8, <1>9, <1>10, OwnSteps
     DEF MainThread, AcceptorThread

-----------------------------------------------------------------------------
(* The count of the acceptor's iterations.                                 *)

LEMMA FiledFacts ==
  ASSUME Base, NEW p \in Party
  PROVE  /\ IsFiniteSet(Filed(p)) /\ Cardinality(Filed(p)) \in Nat
         /\ Incoming(p) \in Nat /\ slots[p] \in Nat
         /\ IsFiniteSet((p + 1) .. (n[p] - 1))
         /\ Cardinality((p + 1) .. (n[p] - 1)) = Incoming(p)
<1>1. p \in Nat /\ n[p] \in Nat /\ p < n[p] /\ slots[p] \in Nat
  BY PartyFacts DEF Base, TypeOK, ControlInv
<1>2. p + 1 \in Int /\ n[p] - 1 \in Int /\ Incoming(p) \in Nat
      /\ (p + 1 > n[p] - 1 => Incoming(p) = 0) /\ (n[p] - 1) - (p + 1) + 1 = Incoming(p)
  BY ONLY <1>1 DEF Incoming
<1>3. /\ IsFiniteSet((p + 1) .. (n[p] - 1))
      /\ Cardinality((p + 1) .. (n[p] - 1)) = Incoming(p)
  BY <1>2, FS_Interval
<1>4. Filed(p) \subseteq (p + 1) .. (n[p] - 1)
  BY DEF Filed
<1>5. IsFiniteSet(Filed(p)) /\ Cardinality(Filed(p)) \in Nat
  BY <1>3, <1>4, FS_Subset, FS_CardinalityType
<1>6. QED
  BY <1>1, <1>2, <1>3, <1>5

LEMMA SlotStays ==
  ASSUME Base, SlotInv, [Next]_vars, NEW p \in Party,
         UNCHANGED fd[p], UNCHANGED starts[p], slots'[p] \in Nat, slots'[p] <= slots[p]
  PROVE  SlotInv!(p)'
<1>1. UNCHANGED n
  BY OwnSteps
<1>2. Filed(p)' = Filed(p) /\ Incoming(p)' = Incoming(p)
  BY <1>1 DEF Filed, Incoming
<1>3. Misfiled(p)' = Misfiled(p)
  BY DEF Misfiled, Mine
<1>4. /\ Cardinality(Filed(p)) \in Nat /\ slots[p] \in Nat /\ Incoming(p) \in Nat
      /\ Cardinality(Filed(p)) + slots[p] <= Incoming(p)
      /\ Misfiled(p) => Cardinality(Filed(p)) + slots[p] < Incoming(p)
  BY FiledFacts DEF SlotInv
<1> DEFINE k == Cardinality(Filed(p))
           i == Incoming(p)
<1>5. k \in Nat /\ i \in Nat /\ slots[p] \in Nat
  BY <1>4
<1>6. k + slots[p] <= i => k + slots'[p] <= i
  BY ONLY <1>5, slots'[p] \in Nat, slots'[p] <= slots[p]
<1>7. k + slots[p] < i => k + slots'[p] < i
  BY ONLY <1>5, slots'[p] \in Nat, slots'[p] <= slots[p]
<1>8. Cardinality(Filed(p))' = Cardinality(Filed(p))
  BY <1>2
<1> HIDE DEF k, i
<1>9. QED
  BY <1>2, <1>3, <1>4, <1>6, <1>7, <1>8 DEF k, i

(* What a handshake files takes one iteration: a higher id may be new, and *)
(* anything else leaves the higher ids as they were.                       *)
LEMMA SlotHandshake ==
  ASSUME Base, ConnectionInv, SlotInv, [Next]_vars, NEW p \in Party, Handshake(p)
  PROVE  SlotInv!(p)'
<1> DEFINE id == cur[p].id
<1>1. /\ cur[p] # None /\ slots[p] > 0 /\ id \in Party /\ id < n[p]
      /\ fd'[p] = [fd[p] EXCEPT ![id] = cur[p]] /\ UNCHANGED <<n, starts>>
  BY HandshakeEffect
<1>2. slots'[p] = slots[p] - 1
  BY DEF Handshake, NextSlot, Base, TypeOK
<1>3. fd[p] \in [Party -> Connection \cup {None}]
  BY DEF Base, TypeOK
<1>4. /\ IsFiniteSet(Filed(p)) /\ Cardinality(Filed(p)) \in Nat
      /\ Incoming(p) \in Nat /\ slots[p] \in Nat /\ slots'[p] \in Nat
      /\ Incoming(p)' = Incoming(p)
  BY <1>1, <1>2, FiledFacts DEF Incoming
<1>5. /\ Cardinality(Filed(p)) + slots[p] <= Incoming(p)
      /\ Misfiled(p) => Cardinality(Filed(p)) + slots[p] < Incoming(p)
  BY DEF SlotInv
<1>6. /\ p \in Nat /\ n[p] \in Nat /\ n[p] <= N /\ id \in Nat
      /\ \A q \in (p + 1) .. (n[p] - 1) : q \in Party /\ q > p
  <2>1. p \in Nat /\ n[p] \in Nat /\ n[p] <= N /\ N \in Nat
    BY PartyFacts DEF Base, TypeOK
  <2>2. id \in Nat
    BY <1>1, PartyFacts
  <2>3. \A q \in (p + 1) .. (n[p] - 1) : q \in 0 .. (N - 1) /\ q > p
    BY ONLY <2>1
  <2>4. QED
    BY <2>1, <2>2, <2>3 DEF Party
<1> HIDE DEF id
<1>7. CASE p < id
  <2>1. id \in (p + 1) .. (n[p] - 1)
    BY <1>1, <1>6, <1>7
  <2>2. Filed(p)' = Filed(p) \cup {id}
    BY <1>1, <1>3, <1>6, <2>1 DEF Filed
  <2>3. /\ Cardinality(Filed(p)') \in Nat
        /\ Cardinality(Filed(p)') <= Cardinality(Filed(p)) + 1
    <3>1. Cardinality(Filed(p) \cup {id}) =
            IF id \in Filed(p) THEN Cardinality(Filed(p)) ELSE Cardinality(Filed(p)) + 1
      BY <1>4, FS_AddElement
    <3>2. /\ Cardinality(Filed(p) \cup {id}) \in Nat
          /\ Cardinality(Filed(p) \cup {id}) <= Cardinality(Filed(p)) + 1
      BY ONLY <1>4, <3>1
    <3>3. QED
      BY <2>2, <3>2
  <2>4. Misfiled(p)' => Misfiled(p)
    BY <1>1, <1>3, <1>6, <1>7, PartyFacts DEF Misfiled, Mine
  <2> DEFINE k == Cardinality(Filed(p))
             m == Cardinality(Filed(p)')
             i == Incoming(p)
  <2>5. k \in Nat /\ m \in Nat /\ m <= k + 1 /\ i \in Nat
    BY <1>4, <2>3
  <2> HIDE DEF k, m, i
  <2>6. k + slots[p] <= i => m + slots'[p] <= i
    BY ONLY <1>2, <1>4, <2>5
  <2>7. k + slots[p] < i => m + slots'[p] < i
    BY ONLY <1>2, <1>4, <2>5
  <2>8. QED
    BY <1>4, <1>5, <2>4, <2>6, <2>7 DEF k, m, i
<1>8. CASE ~(p < id)
  <2>1. Filed(p)' = Filed(p)
    BY <1>1, <1>3, <1>6, <1>8 DEF Filed
  <2>2. Cardinality(Filed(p))' = Cardinality(Filed(p))
    BY <2>1
  <2> DEFINE k == Cardinality(Filed(p))
             i == Incoming(p)
  <2>3. k \in Nat /\ i \in Nat /\ k + slots[p] <= i
    BY <1>4, <1>5
  <2> HIDE DEF k, i
  <2>4. k + slots'[p] < i /\ k + slots'[p] <= i
    BY ONLY <1>2, <1>4, <2>3
  <2>5. QED
    BY <1>4, <2>2, <2>4 DEF k, i
<1>9. QED
  BY <1>7, <1>8

LEMMA SlotNext ==
  ASSUME Base, ConnectionInv, TableInv, SlotInv, [Next]_vars
  PROVE  SlotInv'
<1> SUFFICES ASSUME NEW p \in Party PROVE SlotInv!(p)'
  BY DEF SlotInv
<1> USE DEF mainVars, acceptorVars, net
<1>0. /\ UNCHANGED n /\ slots[p] \in Nat /\ Incoming(p) \in Nat /\ Incoming(p)' = Incoming(p)
      /\ fd[p] \in [Party -> Connection \cup {None}]
      /\ \A q \in (p + 1) .. (n[p] - 1) : q \in Party
  <2>1. UNCHANGED n
    BY OwnSteps
  <2>2. slots[p] \in Nat /\ Incoming(p) \in Nat
    BY FiledFacts
  <2>3. Incoming(p)' = Incoming(p)
    BY <2>1 DEF Incoming
  <2>4. p \in Nat /\ n[p] \in Nat /\ n[p] <= N /\ N \in Nat
    BY PartyFacts DEF Base, TypeOK
  <2>5. \A q \in (p + 1) .. (n[p] - 1) : q \in Party
    BY ONLY <2>4 DEF Party
  <2>6. fd[p] \in [Party -> Connection \cup {None}]
    BY DEF Base, TypeOK
  <2>7. QED
    BY <2>1, <2>2, <2>3, <2>5, <2>6
<1>1. CASE Start(p) \/ Exit(p)
  <2>1. \A q \in Party : fd'[p][q] = None
    BY <1>1 DEF Start, Exit, TableInv, Base, TypeOK
  <2>2. slots'[p] \in {0, Incoming(p)}
    BY <1>1 DEF Start, Exit, Base, TypeOK
  <2>3. Filed(p)' = {} /\ ~Misfiled(p)'
    BY <1>0, <2>1 DEF Filed, Misfiled
  <2>4. Cardinality(Filed(p)') = 0
    BY <2>3, FS_EmptySet
  <2>5. 0 + slots'[p] <= Incoming(p)
    BY <1>0, <2>2
  <2>6. QED
    BY <1>0, <2>3, <2>4, <2>5
<1>2. CASE RecordFd(p)
  <2>1. /\ next[p] \in Party /\ next[p] < p
        /\ fd'[p] = [fd[p] EXCEPT ![next[p]] = Mine(p, next[p])]
        /\ UNCHANGED <<starts, slots>>
    BY <1>2, RecordEffect
  <2>2. p \in Nat /\ next[p] \in Nat
    BY <2>1, PartyFacts
  <2>3. next[p] \notin (p + 1) .. (n[p] - 1)
    BY ONLY <2>1, <2>2
  <2>4. Filed(p)' = Filed(p)
    BY <1>0, <2>1, <2>3 DEF Filed
  <2>5. Misfiled(p)' => Misfiled(p)
    BY <1>0, <2>1 DEF Misfiled, Mine
  <2>6. Cardinality(Filed(p))' = Cardinality(Filed(p))
    BY <2>4
  <2>7. SlotInv!(p)
    BY DEF SlotInv
  <2>8. QED
    BY <1>0, <2>1, <2>5, <2>6, <2>7
<1>3. CASE Connect(p) \/ SendId(p) \/ Poll(p) \/ Return(p) \/ Accept(p)
           \/ AcceptorEnds(p) \/ UNCHANGED Own(p)
  <2>1. UNCHANGED fd[p] /\ UNCHANGED starts[p] /\ UNCHANGED slots[p]
    BY <1>3 DEF Connect, SendId, Poll, Return, Accept, AcceptorEnds, Own
  <2>2. QED
    BY <1>0, <2>1, SlotStays
<1>4. CASE AcceptFails(p) \/ HandshakeFails(p)
  <2>1. UNCHANGED fd /\ UNCHANGED starts /\ slots[p] > 0 /\ slots'[p] = slots[p] - 1
    BY <1>4 DEF AcceptFails, HandshakeFails, NextSlot, Base, TypeOK, ControlInv
  <2>2. slots'[p] \in Nat /\ slots'[p] <= slots[p]
    BY ONLY <1>0, <2>1
  <2>3. QED
    BY <2>1, <2>2, SlotStays
<1>5. CASE Handshake(p)
  BY <1>5, SlotHandshake
<1>6. QED
  BY <1>1, <1>2, <1>3, <1>4, <1>5, OwnSteps DEF MainThread, AcceptorThread

-----------------------------------------------------------------------------
(* The inductive invariant.                                                *)

LEMMA InvInit == Init => IInv
<1> SUFFICES ASSUME Init PROVE IInv
  OBVIOUS
<1>1. TypeOK /\ ControlInv
  BY TypeInit
<1>2. ConnectionInv
  BY DEF Init, ConnectionInv
<1>3. LiveInv
  BY DEF Init, LiveInv
<1>4. \A p, q \in Party : main[p] = "off" /\ fd[p][q] = None
  BY DEF Init
<1>5. TableInv
  BY <1>4 DEF TableInv, Reached, Recorded
<1>6. SlotInv
  <2> SUFFICES ASSUME NEW p \in Party PROVE SlotInv!(p)
    BY DEF SlotInv
  <2>1. Incoming(p) \in Nat /\ slots[p] = 0
    BY <1>1, FiledFacts DEF Base, Init
  <2>2. \A q \in (p + 1) .. (n[p] - 1) : q \in Party
    BY <1>1, PartyFacts DEF Party, TypeOK
  <2>3. Filed(p) = {} /\ ~Misfiled(p)
    BY <1>4, <2>2 DEF Filed, Misfiled
  <2>4. Cardinality(Filed(p)) = 0
    BY <2>3, FS_EmptySet
  <2>5. QED
    BY <2>1, <2>3, <2>4
<1>7. QED
  BY <1>1, <1>2, <1>3, <1>5, <1>6 DEF IInv

LEMMA InvNext == IInv /\ [Next]_vars => IInv'
<1> SUFFICES ASSUME IInv, [Next]_vars PROVE IInv'
  OBVIOUS
<1>1. Base
  BY DEF IInv, Base
<1>2. TypeOK' /\ ControlInv'
  BY <1>1, TypeNext DEF Base
<1>3. ConnectionInv' /\ LiveInv' /\ TableInv' /\ SlotInv'
  BY <1>1, ConnectionNext, LiveNext, TableNext, SlotNext DEF IInv
<1>4. QED
  BY <1>2, <1>3 DEF IInv

(* The start-up keeps its inductive invariant: the loop indices of both    *)
(* threads, the connections' makers, the table's entries and the count of  *)
(* the acceptor's iterations fit together (mpc_comm_tcp.c:35-180).         *)
THEOREM InvCorrect == Spec => []IInv
BY InvInit, InvNext, PTL DEF Spec

(* The variables of the start-up keep their types: no thread uses an index *)
(* outside _peer_fd[], and the acceptor's count never goes below zero.     *)
THEOREM TypeCorrect == Spec => []TypeOK
<1>1. IInv => TypeOK
  BY DEF IInv
<1>2. QED
  BY <1>1, InvCorrect, PTL

-----------------------------------------------------------------------------
(* What the invariant says where comm_init has returned.                   *)

LEMMA WhenReturned ==
  ASSUME IInv, NEW p \in Party, Returned(p) \/ Return(p)
  PROVE  /\ \A q \in Party : p < q /\ q < n[p] =>
              /\ fd[p][q] # None /\ fd[p][q] \in Connection
              /\ fd[p][q].from = q /\ fd[p][q].to = p /\ fd[p][q].id = q
              /\ fd[p][q].run <= starts[q]
         /\ \A q \in Party : q < p => fd[p][q] = Mine(p, q)
         /\ slots[p] = 0 /\ acceptor[p] # "recv" /\ starts[p] >= 1
<1>0. Base /\ main[p] \in {"wait", "returned"} /\ next[p] = n[p] /\ starts[p] >= 1
  BY DEF IInv, Base, ControlInv, Returned, Return
<1>1. ASSUME NEW q \in Party, p < q, q < n[p]
      PROVE  /\ fd[p][q] # None /\ fd[p][q] \in Connection
             /\ fd[p][q].from = q /\ fd[p][q].to = p /\ fd[p][q].id = q
             /\ fd[p][q].run <= starts[q]
  <2>1. TableInv!(p, q) /\ fd[p][q] \in Connection \cup {None}
    BY DEF IInv, TableInv, TypeOK
  <2>2. fd[p][q] # None
    BY <1>0, <1>1, <2>1
  <2>3. QED
    BY <1>1, <2>1, <2>2
<1>2. Filed(p) = (p + 1) .. (n[p] - 1)
  <2>1. p \in Nat /\ n[p] \in Nat /\ n[p] <= N /\ N \in Nat
    BY PartyFacts DEF IInv, TypeOK
  <2>2. \A q \in (p + 1) .. (n[p] - 1) : q \in Party /\ p < q /\ q < n[p]
    BY <2>1 DEF Party
  <2>3. QED
    BY <1>1, <2>2 DEF Filed
<1>3. /\ Cardinality(Filed(p)) = Incoming(p) /\ Incoming(p) \in Nat /\ slots[p] \in Nat
  BY <1>0, <1>2, FiledFacts
<1>4. /\ Cardinality(Filed(p)) + slots[p] <= Incoming(p)
      /\ Misfiled(p) => Cardinality(Filed(p)) + slots[p] < Incoming(p)
  BY DEF IInv, SlotInv
<1>5. slots[p] = 0 /\ ~Misfiled(p)
  BY <1>3, <1>4
<1>6. acceptor[p] # "recv"
  BY <1>5 DEF IInv, ControlInv
<1>7. ASSUME NEW q \in Party, q < p PROVE fd[p][q] = Mine(p, q)
  <2>1. fd[p][q] # None
    BY <1>0, <1>7 DEF IInv, TableInv, Recorded
  <2>2. QED
    BY <1>5, <1>7, <2>1 DEF Misfiled
<1>8. QED
  BY <1>0, <1>1, <1>5, <1>6, <1>7

(* comm_init returns in a party only after every other party has been      *)
(* started: towards the lower ids because connect() needed their listening *)
(* socket, towards the higher ones because only they can have made what is *)
(* filed under their id (mpc_comm_tcp.c:128-177).                          *)
THEOREM BarrierCorrect == Spec => []StartupBarrier
<1>1. ASSUME IInv PROVE StartupBarrier
  <2> SUFFICES ASSUME NEW p \in Party, NEW q \in Party, Returned(p), q < n[p]
               PROVE  starts[q] >= 1
    BY DEF StartupBarrier
  <2>0. p \in Nat /\ q \in Nat /\ starts[q] \in Nat
    BY <1>1, PartyFacts DEF IInv, TypeOK
  <2>1. CASE q = p
    BY <1>1, <2>1, WhenReturned
  <2>2. CASE q < p
    BY <1>1, <2>2 DEF IInv, TableInv, Reached, Returned
  <2>3. CASE p < q
    <3>1. fd[p][q] \in Connection /\ fd[p][q].run <= starts[q]
      BY <1>1, <2>3, WhenReturned
    <3>2. fd[p][q].run \in Nat /\ 1 <= fd[p][q].run
      BY <3>1, ConnectionFacts, PartyFacts
    <3>3. QED
      BY <2>0, <3>1, <3>2
  <2>4. QED
    BY <2>0, <2>1, <2>2, <2>3
<1>2. QED
  BY <1>1, InvCorrect, PTL

(* When comm_init returns in a party, its acceptor has no iteration left   *)
(* and is not inside one: every iteration was needed to file a higher id,  *)
(* so no write to _peer_fd[] can come after (mpc_comm_tcp.c:38-82).        *)
THEOREM NoWriterLeftCorrect == Spec => []NoWriterLeft
<1>1. IInv => NoWriterLeft
  BY WhenReturned DEF NoWriterLeft
<1>2. QED
  BY <1>1, InvCorrect, PTL

(* Each entry that comm_init leaves in _peer_fd[] is a connection between  *)
(* this party and the one that the entry is for: a stranger that got hold  *)
(* of a lower id's entry would have cost the acceptor an iteration that    *)
(* step 4 needs (mpc_comm_tcp.c:65-77, 157-177).                           *)
THEOREM FdIdentityCorrect == Spec => []FdIdentity
<1>1. ASSUME IInv PROVE FdIdentity
  <2> SUFFICES ASSUME NEW p \in Party, NEW q \in Party, Returned(p), p # q, q < n[p]
               PROVE  fd[p][q] # None /\ {fd[p][q].from, fd[p][q].to} = {p, q}
    BY DEF FdIdentity
  <2>0. p \in Nat /\ q \in Nat /\ main[p] # "off"
    BY PartyFacts DEF Returned
  <2>1. CASE q < p
    <3>1. fd[p][q] = Mine(p, q)
      BY <1>1, <2>1, WhenReturned
    <3>2. QED
      BY <1>1, <2>0, <3>1, MineFacts DEF IInv
  <2>2. CASE p < q
    BY <1>1, <2>2, WhenReturned
  <2>3. QED
    BY <2>0, <2>1, <2>2
<1>2. QED
  BY <1>1, InvCorrect, PTL

(* The two ends of a pair that both returned, when neither's connection    *)
(* has been closed, are the ends of one connection: that of the higher     *)
(* id's present incarnation (mpc_comm_tcp.c:157-163, 71-74).               *)
THEOREM EndsAgreeCorrect == Spec => []EndsAgree
<1>1. ASSUME IInv PROVE EndsAgree
  <2>1. ASSUME NEW p \in Party, NEW q \in Party, Returned(p), Returned(q), p < q,
               fd[p][q] \in live, fd[q][p] \in live
        PROVE  fd[p][q] = fd[q][p]
    <3>0. p # Stranger /\ q # Stranger /\ main[p] # "off" /\ main[q] # "off"
          /\ p \in Nat /\ q \in Nat
      BY <2>1, PartyFacts DEF Returned, Stranger
    <3>1. fd[q][p] = Mine(q, p)
      BY <1>1, <2>1, WhenReturned
    <3>2. fd[p][q] \in Connection /\ fd[p][q] # None
      BY <1>1, <2>1, ConnectionFacts DEF IInv, TypeOK
    <3>3. fd[p][q].from = q /\ fd[p][q].to = p /\ fd[p][q].id = q
      BY <1>1, <2>1, <3>2 DEF IInv, TableInv
    <3>4. fd[p][q].run = starts[q]
      BY <1>1, <2>1, <3>0, <3>3 DEF IInv, LiveInv
    <3>5. fd[p][q] = [from |-> fd[p][q].from, run |-> fd[p][q].run,
                      to |-> fd[p][q].to, id |-> fd[p][q].id]
      BY <3>2 DEF Connection
    <3>6. QED
      BY <3>1, <3>3, <3>4, <3>5 DEF Mine
  <2>2. \A p, q \in Party : p # q => p < q \/ q < p
    BY PartyFacts
  <2>3. QED
    BY <2>1, <2>2 DEF EndsAgree
<1>2. QED
  BY <1>1, InvCorrect, PTL

-----------------------------------------------------------------------------
(* What is proved of comm_init holds throughout all runs of the meters, in *)
(* whatever way the processes end and come back.                           *)

LEMMA MeterStep == [MeterNext]_allVars => [Next]_vars
<1> SUFFICES ASSUME [MeterNext]_allVars PROVE Next \/ UNCHANGED vars
  OBVIOUS
<1>1. ASSUME NEW p \in Party, Launch(p) PROVE Next
  BY <1>1 DEF Launch, Next
<1>2. ASSUME NEW p \in Party, Main(p) PROVE Next \/ UNCHANGED vars
  BY <1>2 DEF Main, Exchange, SplitShares, Send, Recv, ComputePartial, Finish,
     EndProcess, Next, Fault
<1>3. ASSUME NEW p \in Party, Acceptor(p) PROVE Next
  BY <1>3 DEF Acceptor, Next
<1>4. ASSUME Disturbance PROVE Next
  BY <1>4 DEF Disturbance, EndProcess, Next, Fault
<1>5. CASE UNCHANGED allVars
  BY <1>5 DEF allVars
<1>6. QED
  BY <1>1, <1>2, <1>3, <1>4, <1>5 DEF MeterNext

(* In a run of the meters the TCP layer does what comm_init does.          *)
THEOREM StartUpRefined == MeterSpec => Spec
BY MeterStep, PTL DEF MeterSpec, MeterInit, Spec

(* So the guarantees of the start-up hold throughout the runs of the       *)
(* meters: the barrier, the single writer, the identity of what the table  *)
(* holds and the agreement of both ends (mpc_comm_tcp.c:92-180).           *)
THEOREM StartUpCorrect ==
  MeterSpec => [](StartupBarrier /\ NoWriterLeft /\ FdIdentity /\ EndsAgree)
BY StartUpRefined, BarrierCorrect, NoWriterLeftCorrect, FdIdentityCorrect,
   EndsAgreeCorrect, PTL

-----------------------------------------------------------------------------
(* Types.                                                                  *)

ExchangeTypeOK ==
  /\ round \in [Party -> 0 .. 2]
  /\ peer \in [Party -> 0 .. N]
  /\ half \in [Party -> {0, 1}]
  /\ received \in [Party -> [Party -> 0 .. (MaxUpsets + 1)]]
  /\ agree \in [Party -> BOOLEAN]
  /\ wire \subseteq Message

LEMMA ExchangeInit == MeterInit => ExchangeTypeOK
<1> SUFFICES ASSUME MeterInit PROVE ExchangeTypeOK
  OBVIOUS
<1>1. 0 \in 0 .. N /\ 0 \in 0 .. (MaxUpsets + 1)
  BY PartyFacts
<1>2. NoShare \in [Party -> 0 .. (MaxUpsets + 1)]
  BY <1>1 DEF NoShare
<1>3. QED
  BY <1>1, <1>2 DEF MeterInit, ExchangeTypeOK

(* The loop index stays a party's id or becomes n.                         *)
LEMMA PeerFacts ==
  ASSUME TypeOK, ExchangeTypeOK, NEW p \in Party
  PROVE  /\ FirstPeer(p) \in 0 .. N
         /\ InExchange(p) => peer[p] \in Party /\ NextPeer(p, peer[p]) \in 0 .. N
<1>1. /\ p \in Nat /\ p < N /\ N \in Nat \ {0} /\ n[p] \in Nat /\ n[p] <= N
      /\ peer[p] \in Nat
  BY PartyFacts DEF TypeOK, ExchangeTypeOK
<1>2. FirstPeer(p) \in 0 .. N
  BY <1>1 DEF FirstPeer
<1>3. ASSUME InExchange(p)
      PROVE  peer[p] \in Party /\ NextPeer(p, peer[p]) \in 0 .. N
  <2>1. peer[p] < n[p]
    BY <1>3 DEF InExchange
  <2>2. QED
    BY ONLY <1>1, <2>1 DEF Party, NextPeer
<1>4. QED
  BY <1>2, <1>3

LEMMA NextCallType ==
  ASSUME TypeOK, ExchangeTypeOK, NEW p \in Party, InExchange(p), NextCall(p)
  PROVE  /\ half' \in [Party -> {0, 1}]
         /\ peer' \in [Party -> 0 .. N]
         /\ round' = round
<1>1. half[p] \in {0, 1} /\ 1 - half[p] \in {0, 1}
  BY DEF ExchangeTypeOK
<1>2. NextPeer(p, peer[p]) \in 0 .. N
  BY PeerFacts
<1>3. QED
  BY <1>1, <1>2 DEF NextCall, ExchangeTypeOK

LEMMA ExchangeNext ==
  ASSUME TypeOK, ExchangeTypeOK, [MeterNext]_allVars
  PROVE  ExchangeTypeOK'
<1> USE DEF exchange
<1>0. /\ \A p \in Party : starts[p] \in 0 .. (MaxUpsets + 1)
      /\ 0 \in 0 .. (MaxUpsets + 1) /\ 0 \in 0 .. N
      /\ NoShare \in [Party -> 0 .. (MaxUpsets + 1)]
  BY PartyFacts DEF TypeOK, NoShare
<1>1. ASSUME UNCHANGED exchange PROVE ExchangeTypeOK'
  BY <1>1 DEF ExchangeTypeOK
<1>2. ASSUME NEW p \in Party, SplitShares(p) PROVE ExchangeTypeOK'
  <2>1. received' \in [Party -> [Party -> 0 .. (MaxUpsets + 1)]]
    BY <1>0, <1>2 DEF SplitShares, ExchangeTypeOK
  <2>2. round' \in [Party -> 0 .. 2] /\ peer' \in [Party -> 0 .. N]
    BY <1>2, PeerFacts DEF SplitShares, ExchangeTypeOK
  <2>3. QED
    BY <1>2, <2>1, <2>2 DEF SplitShares, ExchangeTypeOK
<1>3. ASSUME NEW p \in Party, Send(p) PROVE ExchangeTypeOK'
  <2>1. InExchange(p) /\ NextCall(p) /\ UNCHANGED <<received, agree>>
    BY <1>3 DEF Send, SendTurn
  <2>2. peer[p] \in Party /\ round[p] \in {1, 2}
    BY <2>1, PeerFacts DEF InExchange
  <2>3. fd[p][peer[p]] \in Connection
    BY <1>3, <2>2 DEF Send, TypeOK
  <2> DEFINE shares == IF round[p] = 1 THEN [NoShare EXCEPT ![p] = starts[p]]
                       ELSE received[p]
             m == [on |-> fd[p][peer[p]], by |-> p, part |-> round[p], of |-> shares]
  <2>4. shares \in [Party -> 0 .. (MaxUpsets + 1)]
    BY <1>0 DEF ExchangeTypeOK
  <2> HIDE DEF shares
  <2>5. m \in Message
    BY <2>2, <2>3, <2>4 DEF Message
  <2>6. wire' \subseteq wire \cup {m}
    BY <1>3 DEF Send, shares
  <2>7. wire' \subseteq Message
    BY <2>5, <2>6 DEF ExchangeTypeOK
  <2>8. QED
    BY <2>1, <2>7, NextCallType DEF ExchangeTypeOK
<1>4. ASSUME NEW p \in Party, Recv(p) PROVE ExchangeTypeOK'
  <2>1. InExchange(p) /\ NextCall(p)
    BY <1>4 DEF Recv, RecvTurn
  <2>2. peer[p] \in Party
    BY <2>1, PeerFacts
  <2>3. PICK m \in Unread(p) :
          /\ wire' = wire \ {m}
          /\ IF round[p] = 1
             THEN /\ received' = [received EXCEPT ![p][peer[p]] = m.of[peer[p]]]
                  /\ agree' = [agree EXCEPT ![p] = @ /\ m.part = 1]
             ELSE /\ agree' = [agree EXCEPT ![p] =
                                 @ /\ m.part = 2 /\ m.of = received[p]]
                  /\ UNCHANGED received
    BY <1>4 DEF Recv
  <2>4. m.of[peer[p]] \in 0 .. (MaxUpsets + 1)
    BY <2>2 DEF Unread, ExchangeTypeOK, Message
  <2>5. received' \in [Party -> [Party -> 0 .. (MaxUpsets + 1)]]
    <3> DEFINE v == m.of[peer[p]]
    <3>1. v \in 0 .. (MaxUpsets + 1)
      BY <2>4
    <3> HIDE DEF v
    <3>2. [received EXCEPT ![p][peer[p]] = v] \in
            [Party -> [Party -> 0 .. (MaxUpsets + 1)]]
      BY <2>2, <3>1 DEF ExchangeTypeOK
    <3>3. received' \in {received, [received EXCEPT ![p][peer[p]] = v]}
      BY <2>3 DEF v
    <3>4. QED
      BY <3>2, <3>3 DEF ExchangeTypeOK
  <2>6. agree' \in [Party -> BOOLEAN]
    BY <2>3 DEF ExchangeTypeOK
  <2>7. wire' \subseteq Message
    BY <2>3 DEF ExchangeTypeOK
  <2>8. QED
    BY <2>1, <2>5, <2>6, <2>7, NextCallType DEF ExchangeTypeOK
<1>5. ASSUME NEW p \in Party, ComputePartial(p) PROVE ExchangeTypeOK'
  <2>1. round' \in [Party -> 0 .. 2] /\ peer' \in [Party -> 0 .. N]
    BY <1>5, PeerFacts DEF ComputePartial, ExchangeTypeOK
  <2>2. QED
    BY <1>5, <2>1 DEF ComputePartial, ExchangeTypeOK
<1>6. ASSUME NEW p \in Party, EndProcess(p) PROVE ExchangeTypeOK'
  BY <1>0, <1>6 DEF EndProcess, ExchangeTypeOK
<1>7. QED
  BY <1>1, <1>2, <1>3, <1>4, <1>5, <1>6
     DEF MeterNext, Launch, Main, Exchange, Finish, Acceptor, Disturbance, allVars

(* The exchange over the descriptors keeps its types: the loop index of    *)
(* both rounds never leaves the table (mpc_runner.c:99-146).               *)
THEOREM MeterTypeCorrect == MeterSpec => []MeterTypeOK
<1>1. MeterInit => TypeOK /\ ExchangeTypeOK
  BY TypeInit, ExchangeInit DEF MeterInit
<1>2. TypeOK /\ ExchangeTypeOK /\ [MeterNext]_allVars => ExchangeTypeOK'
  BY ExchangeNext
<1>3. TypeOK /\ ExchangeTypeOK => MeterTypeOK
  BY DEF MeterTypeOK, ExchangeTypeOK
<1>4. QED
  BY <1>1, <1>2, <1>3, StartUpRefined, TypeCorrect, PTL DEF MeterSpec

-----------------------------------------------------------------------------
(* One run, for every number of restarts.                                  *)

(* How often the two calls of an iteration have been made towards a party. *)
Exchanged(p, q) ==
  IF round[p] = 0 THEN 0 ELSE round[p] - 1 + (IF q < peer[p] THEN 1 ELSE 0)
Between(p, q) == round[p] # 0 /\ peer[p] = q /\ half[p] = 1
Sent(p, q) == Exchanged(p, q) + (IF Between(p, q) /\ p < q THEN 1 ELSE 0)
Received(p, q) == Exchanged(p, q) + (IF Between(p, q) /\ q < p THEN 1 ELSE 0)

(* What q has sent to p and p has not read; the incarnation of q whose     *)
(* share p has or will read; the partial sums of q that are on their way.  *)
Inbox(p, q) == {m \in wire : m.by = q /\ Reader(m) = p}
Got(p, q) == ({received[p][q]} \ {0}) \cup {m.of[q] : m \in Inbox(p, q)}
Partials(q) == {m \in wire : m.by = q /\ m.part = 2}
Given(z, d) == Got(d, z) \cup ({m.of[z] : m \in Partials(d)} \ {0})
AtLeast(p, q, i) == \A k \in Got(p, q) : i <= k

LoopInv ==
  \A p \in Party :
    /\ ~Returned(p) => round[p] = 0
    /\ round[p] = 0 => half[p] = 0 /\ received[p] = NoShare /\ agree[p]
    /\ round[p] # 0 =>
         /\ peer[p] # p /\ peer[p] <= n[p] /\ (peer[p] = n[p] => half[p] = 0)
         /\ received[p][p] = starts[p]
         /\ \A q \in Party : q # p =>
              (received[p][q] # 0 <=> q < n[p] /\ Received(p, q) # 0)

(* The connection over which p reads from q, once it has one.              *)
Link(p, q) == IF q < p THEN Mine(p, q) ELSE fd[p][q]
Linked(p, q) == IF q < p THEN Reached(p, q) ELSE Returned(p)

InboxInv ==
  /\ \A m \in wire : Reader(m) \in Party
  /\ \A p, q \in Party : \A m \in Inbox(p, q) :
       /\ p # q /\ q < n[p] /\ p < n[q]
       /\ Linked(p, q) /\ m.on = Link(p, q)

OrderInv ==
  \A p, q \in Party : \A m \in Inbox(p, q) :
    /\ Received(p, q) < m.part
    /\ \A o \in Inbox(p, q) : o.part = m.part => o = m
    /\ (m.part = 2 /\ Received(p, q) = 0) => \E o \in Inbox(p, q) : o.part = 1
    /\ p < q => m.part <= Sent(p, q)
    /\ m.part = 2 => Returned(p) /\ Sent(p, q) >= 1
    /\ (m.of[q] = starts[q] /\ main[q] # "off") => m.part <= Sent(q, p)

ContentInv ==
  \A p, q \in Party : \A m \in Inbox(p, q) :
    /\ m.part = 1 => \A z \in Party : m.of[z] # 0 <=> z = q
    /\ m.part = 2 => m.of[p] = starts[p] /\ \A z \in Party : m.of[z] # 0 <=> z < n[q]
    /\ (m.part = 2 /\ m.of[q] = starts[q] /\ main[q] # "off") =>
         round[q] = 2 /\ m.of = received[q]

ShareInv ==
  \A p, q \in Party : p # q => \A i \in Got(p, q) :
    /\ 1 <= i /\ i <= starts[q]
    /\ i = starts[q] => main[q] \in {"off", "returned"}
    /\ Link(p, q) \in live => i = starts[q] /\ Returned(q)
    /\ \A k \in Got(p, q) : k = i
    /\ p < q => i = fd[p][q].run
    /\ (q < p /\ i = starts[q] /\ Returned(q)) => fd[q][p] = Mine(p, q)
    /\ (i = starts[q] /\ Returned(q)) => Received(p, q) <= Sent(q, p)

SentInv ==
  \A p, q \in Party :
    (Returned(q) /\ p # q /\ p < n[q] /\ Sent(q, p) # 0 /\ fd[q][p] \in live) =>
      Received(p, q) # 0 \/ \E m \in Inbox(p, q) : m.part = 1

(* What an exchange with a party of another configuration shows.           *)
Met(q, z) ==
  /\ q < n[z]
  /\ \A r \in Party : r < z => Incoming(r) > 0
  /\ \A a \in Party : a < z /\ a < q => z < n[a]
Full(q) == \A z \in Party : z < n[q] /\ z # q => Met(q, z)
SizeInv ==
  /\ \A p \in Party : acceptor[p] # "off" => Incoming(p) > 0
  /\ \A p, q \in Party : q < p /\ Reached(p, q) => Incoming(q) > 0
  /\ \A p, q \in Party : p # q /\ Got(p, q) # {} => Met(p, q)
  /\ \A m \in wire : m.part = 2 => Full(m.by)
  /\ \A p, q \in Party : q # p /\ q < n[p] /\ Received(p, q) = 2 => Full(q)

(* What a party has accepted or filed, or may still.                       *)
Holds(p, c) ==
  \/ \E q \in Party : c.from = q /\ fd[p][q] = c
  \/ /\ ~Returned(p)
     /\ cur[p] = c \/ \E k \in 1 .. Len(backlog[p]) : backlog[p][k] = c
HeldInv ==
  /\ \A p \in Party : main[p] = "off" => backlog[p] = <<>> /\ cur[p] = None
  /\ \A p, q \in Party : p < q => \A c \in Connection :
       (Holds(p, c) /\ c.from = q) =>
         /\ AtLeast(q, p, starts[p])
         /\ (c.run = starts[q] /\ main[q] # "off") => Reached(q, p)

NotOlder(a, z, i) == \A c \in Connection : Holds(a, c) /\ c.from = z => i <= c.run
ReplyInv ==
  \A z, a \in Party : a < z /\ Got(z, a) # {} => NotOlder(a, z, starts[z])

GivenInv ==
  \A z, d \in Party : z # d => \A i \in Given(z, d) :
    /\ i <= starts[z]
    /\ \A w \in Party : z < w /\ w < n[z] => AtLeast(w, z, i)
    /\ \A a \in Party : a < z /\ a < d => NotOlder(a, z, i)

LinkedInv ==
  \A x, y, z \in Party :
    (/\ x # y /\ x < z /\ y < z /\ x < n[y] /\ y < n[x] /\ z < n[y]
     /\ Returned(x) /\ Returned(y) /\ fd[x][y] = fd[y][x]) =>
       AtLeast(x, z, fd[y][z].run)

PairInv ==
  \A a, b \in Party : a < b => \A m \in Partials(a) :
    m.of[b] # 0 /\ m.of[a] \in Got(b, a) => starts[b] = m.of[b]

Uniform(p) == \A q \in Party : q < n[p] => n[q] = n[p]
SumInv ==
  \A p, q, z \in Party :
    (Uniform(p) /\ q < n[p] /\ z < n[p] /\ p # q /\ p # z /\ q # z) =>
      \A m \in Inbox(p, q) : m.part = 2 =>
        /\ \A i \in Got(p, z) : i = m.of[z]
        /\ (p < q /\ q < z) => fd[p][z].run <= m.of[z]
AgreeInv == \A p \in Party : Uniform(p) => agree[p]

-----------------------------------------------------------------------------
(* Counting calls.                                                         *)

LEMMA CountFacts ==
  ASSUME TypeOK, ExchangeTypeOK, LoopInv, NEW p \in Party, NEW q \in Party, q # p
  PROVE  /\ Exchanged(p, q) \in 0 .. 2 /\ Sent(p, q) \in 0 .. 2
         /\ Received(p, q) \in 0 .. 2 /\ Exchanged(p, q) <= round[p]
         /\ Exchanged(p, q) <= Sent(p, q) /\ Exchanged(p, q) <= Received(p, q)
         /\ round[p] = 0 => Sent(p, q) = 0 /\ Received(p, q) = 0
         /\ round[p] = 2 => Exchanged(p, q) >= 1
         /\ round[p] = 1 => Sent(p, q) <= 1 /\ Received(p, q) <= 1
<1>1. /\ round[p] \in 0 .. 2 /\ peer[p] \in Nat /\ half[p] \in {0, 1}
      /\ p \in Nat /\ q \in Nat
  BY PartyFacts DEF ExchangeTypeOK
<1>2. QED
  BY ONLY <1>1 DEF Sent, Received, Exchanged, Between

(* Peers are served in ascending order.                                    *)
LEMMA Ascending ==
  ASSUME TypeOK, ExchangeTypeOK, LoopInv, NEW p \in Party, NEW q \in Party,
         NEW r \in Party, q # p, r # p, q < r
  PROVE  Sent(p, r) <= Exchanged(p, q) /\ Received(p, r) <= Exchanged(p, q)
<1>1. /\ round[p] \in 0 .. 2 /\ peer[p] \in Nat /\ half[p] \in {0, 1}
      /\ p \in Nat /\ q \in Nat /\ r \in Nat
  BY PartyFacts DEF ExchangeTypeOK
<1>2. QED
  BY ONLY <1>1, q < r DEF Sent, Received, Exchanged, Between

(* In an exchange the lower id sends first.                                *)
LEMMA LowerFirst ==
  ASSUME TypeOK, ExchangeTypeOK, LoopInv, NEW p \in Party, NEW q \in Party, q # p
  PROVE  /\ p < q => Received(p, q) <= Sent(p, q) /\ Received(p, q) = Exchanged(p, q)
         /\ q < p => Sent(p, q) <= Received(p, q) /\ Sent(p, q) = Exchanged(p, q)
<1>1. /\ round[p] \in 0 .. 2 /\ peer[p] \in Nat /\ half[p] \in {0, 1}
      /\ p \in Nat /\ q \in Nat
  BY PartyFacts DEF ExchangeTypeOK
<1>2. QED
  BY ONLY <1>1 DEF Sent, Received, Exchanged, Between

LEMMA TurnCounts ==
  ASSUME TypeOK, ExchangeTypeOK, LoopInv, NEW p \in Party, InExchange(p)
  PROVE  /\ peer[p] \in Party /\ peer[p] # p /\ peer[p] < n[p] /\ round[p] \in {1, 2}
         /\ Returned(p)
         /\ \A q \in Party : q # p /\ q < peer[p] => Exchanged(p, q) = round[p]
         /\ \A q \in Party : q # p /\ peer[p] < q =>
              Sent(p, q) = round[p] - 1 /\ Received(p, q) = round[p] - 1
         /\ SendTurn(p) =>
              /\ Sent(p, peer[p]) = round[p] - 1
              /\ Received(p, peer[p]) =
                   IF p < peer[p] THEN round[p] - 1 ELSE round[p]
         /\ RecvTurn(p) =>
              /\ Received(p, peer[p]) = round[p] - 1
              /\ Sent(p, peer[p]) = IF p < peer[p] THEN round[p] ELSE round[p] - 1
<1>1. peer[p] \in Party /\ peer[p] # p /\ peer[p] < n[p] /\ round[p] \in {1, 2}
      /\ Returned(p)
  BY PeerFacts DEF InExchange, LoopInv
<1>2. p \in Nat /\ peer[p] \in Nat /\ half[p] \in {0, 1} /\ \A q \in Party : q \in Nat
  BY <1>1, PartyFacts DEF ExchangeTypeOK
<1>3. /\ \A q \in Party : q # p /\ q < peer[p] => Exchanged(p, q) = round[p]
      /\ \A q \in Party : q # p /\ peer[p] < q =>
              Sent(p, q) = round[p] - 1 /\ Received(p, q) = round[p] - 1
  BY ONLY <1>1, <1>2 DEF Sent, Received, Exchanged, Between
<1>4. SendTurn(p) => /\ Sent(p, peer[p]) = round[p] - 1
                     /\ Received(p, peer[p]) =
                          IF p < peer[p] THEN round[p] - 1 ELSE round[p]
  BY ONLY <1>1, <1>2 DEF Sent, Received, Exchanged, Between, SendTurn
<1>5. RecvTurn(p) => /\ Received(p, peer[p]) = round[p] - 1
                     /\ Sent(p, peer[p]) =
                          IF p < peer[p] THEN round[p] ELSE round[p] - 1
  BY ONLY <1>1, <1>2 DEF Sent, Received, Exchanged, Between, SendTurn, RecvTurn
<1>6. QED
  BY <1>1, <1>3, <1>4, <1>5

(* A call is counted towards the party that it is for, and nowhere else.   *)
LEMMA CallCounts ==
  ASSUME Base, ExchangeTypeOK, LoopInv, NEW p \in Party, InExchange(p), NextCall(p)
  PROVE  /\ \A x, y \in Party : x # y /\ (x # p \/ y # peer[p]) =>
              Sent(x, y)' = Sent(x, y) /\ Received(x, y)' = Received(x, y)
         /\ \A q \in Party : q = peer[p] =>
              /\ SendTurn(p) => Sent(p, q)' = round[p] /\ Received(p, q)' = Received(p, q)
              /\ RecvTurn(p) => Received(p, q)' = round[p] /\ Sent(p, q)' = Sent(p, q)
         /\ peer'[p] # p /\ peer'[p] <= n[p] /\ (peer'[p] = n[p] => half'[p] = 0)
<1>1. /\ peer[p] \in Party /\ peer[p] # p /\ peer[p] < n[p] /\ round[p] \in {1, 2}
      /\ p < n[p] /\ n[p] \in Nat
  BY TurnCounts, PartyFacts DEF Base, ControlInv, TypeOK
<1>2. p \in Nat /\ peer[p] \in Nat /\ half[p] \in {0, 1} /\ \A q \in Party : q \in Nat
  BY <1>1, PartyFacts DEF ExchangeTypeOK
<1>3. /\ round' = round /\ half'[p] = 1 - half[p]
      /\ peer'[p] = IF half[p] = 0 THEN peer[p] ELSE NextPeer(p, peer[p])
      /\ \A x \in Party : x # p => half'[x] = half[x] /\ peer'[x] = peer[x]
  BY DEF NextCall, ExchangeTypeOK
<1>4. ASSUME NEW x \in Party, NEW y \in Party, x # y, x # p \/ y # peer[p]
      PROVE  Sent(x, y)' = Sent(x, y) /\ Received(x, y)' = Received(x, y)
  <2>1. CASE x # p
    BY <1>3, <2>1 DEF Sent, Received, Exchanged, Between
  <2>2. CASE x = p
    <3>1. y \in Nat /\ y # p /\ y # peer[p]
      BY <1>2, <1>4, <2>2
    <3>2. y < peer'[p] <=> y < peer[p]
      BY ONLY <1>1, <1>2, <1>3, <3>1 DEF NextPeer
    <3>3. peer'[p] # y \/ half'[p] = 0
      BY ONLY <1>2, <1>3, <3>1
    <3>4. Exchanged(p, y)' = Exchanged(p, y) /\ ~Between(p, y) /\ ~Between(p, y)'
      BY <1>3, <3>1, <3>2, <3>3 DEF Exchanged, Between
    <3>5. QED
      BY <2>2, <3>4 DEF Sent, Received
  <2>3. QED
    BY <2>1, <2>2
<1>5. ASSUME NEW q \in Party, q = peer[p]
      PROVE  /\ SendTurn(p) => Sent(p, q)' = round[p] /\ Received(p, q)' = Received(p, q)
             /\ RecvTurn(p) => Received(p, q)' = round[p] /\ Sent(p, q)' = Sent(p, q)
  <2>1. q \in Nat /\ q # p /\ q < n[p]
    BY <1>1, <1>2, <1>5
  <2>2. (SendTurn(p) => (half[p] = 0 <=> p < q)) /\ (RecvTurn(p) => ~(half[p] = 0 <=> p < q))
    BY <1>5 DEF SendTurn, RecvTurn
  <2>3. CASE half[p] = 0
    <3>1. half'[p] = 1 /\ peer'[p] = q
      BY <1>3, <1>5, <2>3
    <3>2. /\ Sent(p, q) = round[p] - 1 /\ Received(p, q) = round[p] - 1
      BY <1>1, <1>2, <1>5, <2>1, <2>3 DEF Sent, Received, Exchanged, Between
    <3>3. /\ Sent(p, q)' = IF p < q THEN round[p] ELSE round[p] - 1
          /\ Received(p, q)' = IF q < p THEN round[p] ELSE round[p] - 1
      BY <1>1, <1>2, <1>3, <2>1, <3>1 DEF Sent, Received, Exchanged, Between
    <3>4. QED
      BY <1>2, <2>1, <2>2, <2>3, <3>2, <3>3
  <2>4. CASE half[p] = 1
    <3>1. half'[p] = 0 /\ peer'[p] = NextPeer(p, q)
      BY <1>3, <1>5, <2>4
    <3>2. q < peer'[p]
      BY ONLY <1>2, <2>1, <3>1 DEF NextPeer
    <3>3. /\ Sent(p, q) = IF p < q THEN round[p] ELSE round[p] - 1
          /\ Received(p, q) = IF q < p THEN round[p] ELSE round[p] - 1
      BY <1>1, <1>2, <1>5, <2>1, <2>4 DEF Sent, Received, Exchanged, Between
    <3>4. Sent(p, q)' = round[p] /\ Received(p, q)' = round[p]
      BY <1>1, <1>2, <1>3, <2>1, <3>1, <3>2 DEF Sent, Received, Exchanged, Between
    <3>5. QED
      BY <1>2, <2>1, <2>2, <2>4, <3>3, <3>4
  <2>5. QED
    BY <1>2, <2>3, <2>4
<1>6. peer'[p] # p /\ peer'[p] <= n[p] /\ (peer'[p] = n[p] => half'[p] = 0)
  BY ONLY <1>1, <1>2, <1>3 DEF NextPeer
<1>7. QED
  BY <1>4, <1>5, <1>6

-----------------------------------------------------------------------------
(* Steps.                                                                  *)

RunInv ==
  /\ IInv /\ ExchangeTypeOK /\ LoopInv
  /\ InboxInv /\ OrderInv /\ ContentInv /\ ShareInv /\ SentInv
  /\ SizeInv /\ HeldInv /\ ReplyInv /\ GivenInv /\ LinkedInv /\ PairInv
  /\ SumInv /\ AgreeInv

(* What the start-up, the acceptors and strangers do.                      *)
Quiet ==
  /\ UNCHANGED exchange
  /\ \/ \E p \in Party : \/ Start(p) \/ MainThread(p) \/ AcceptorThread(p)
                          \/ AcceptFails(p) \/ StrangerConnects(p)
     \/ StrangerLeaves \/ UNCHANGED vars

LEMMA RunCases ==
  ASSUME [MeterNext]_allVars
  PROVE  \/ Quiet
         \/ \E p \in Party : \/ SplitShares(p) \/ Send(p) \/ Recv(p)
                             \/ ComputePartial(p) \/ EndProcess(p)
BY DEF MeterNext, allVars, Quiet, Launch, Main, Exchange, Finish, Acceptor, Disturbance

LEMMA QuietIsStep == Quiet => [Next]_vars
BY DEF Quiet, Next, Fault

(* A party during such a step: it is off and may be started, or it goes    *)
(* on with its start-up, or it has returned and keeps its table.           *)
LEMMA QuietParty ==
  ASSUME IInv, Quiet, NEW p \in Party
  PROVE  /\ n' = n
         /\ \/ /\ main[p] = "off" /\ main'[p] = "off"
               /\ starts'[p] = starts[p] /\ fd'[p] = fd[p]
            \/ /\ main[p] = "off" /\ main'[p] \in {"connect", "wait"}
               /\ starts'[p] = starts[p] + 1 /\ fd'[p] = fd[p]
            \/ /\ main[p] # "off" /\ main'[p] # "off" /\ starts'[p] = starts[p]
               /\ \A q \in Party : q < p /\ Reached(p, q) => Reached(p, q)'
               /\ Returned(p) => Returned(p)' /\ fd'[p] = fd[p]
               /\ Returned(p)' => main[p] \in {"wait", "returned"} /\ fd'[p] = fd[p]
<1> USE DEF mainVars, acceptorVars, net
<1>0. Base /\ [Next]_vars
  BY QuietIsStep DEF IInv, Base
<1>1. n' = n /\ \A q \in Party : q \in Nat
  BY <1>0, OwnSteps, PartyFacts
<1>2. CASE Start(p)
  BY <1>0, <1>1, <1>2 DEF Start, Base, TypeOK
<1>3. CASE MainThread(p)
  <2>1. /\ main[p] \in {"connect", "handshake", "record", "wait"} /\ starts' = starts
        /\ next[p] \in Nat
    BY <1>0, <1>3 DEF MainThread, Connect, SendId, RecordFd, Poll, Return, Base, TypeOK
  <2>2. CASE RecordFd(p)
    <3>1. /\ main'[p] \in {"connect", "wait"}
          /\ main'[p] = "connect" => next'[p] = next[p] + 1
      BY <1>0, <2>2, RecordEffect
    <3>2. QED
      BY <1>1, <2>1, <2>2, <3>1 DEF RecordFd, Reached, Returned
  <2>3. CASE Connect(p) \/ SendId(p)
    <3>1. main'[p] \in {"handshake", "record"} /\ next' = next
      BY <1>0, <2>3 DEF Connect, SendId, Base, TypeOK
    <3>2. QED
      BY <1>1, <2>1, <2>3, <3>1 DEF Connect, SendId, Reached, Returned
  <2>4. CASE Poll(p) \/ Return(p)
    <3>1. main[p] = "wait" /\ main'[p] \in {"wait", "returned"} /\ fd' = fd
      BY <1>0, <2>4 DEF Poll, Return, Base, TypeOK
    <3>2. QED
      BY <1>1, <2>1, <3>1 DEF Reached, Returned
  <2>5. QED
    BY <1>3, <2>2, <2>3, <2>4 DEF MainThread
<1>4. CASE AcceptorThread(p) \/ AcceptFails(p)
  <2>1. main' = main /\ starts' = starts /\ next' = next
    BY <1>4 DEF AcceptorThread, Accept, Handshake, HandshakeFails, AcceptorEnds, AcceptFails
  <2>2. main[p] # "off"
    BY <1>0, <1>4 DEF AcceptorThread, Accept, Handshake, HandshakeFails, AcceptorEnds,
       AcceptFails, Base, ControlInv
  <2>3. Returned(p) => fd' = fd
    BY <1>4, WhenReturned
       DEF AcceptorThread, Accept, Handshake, HandshakeFails, AcceptorEnds, AcceptFails
  <2>4. QED
    BY <1>1, <2>1, <2>2, <2>3 DEF Reached, Returned
<1>5. CASE UNCHANGED Own(p)
  BY <1>1, <1>5 DEF Own, Reached, Returned
<1>6. ~Exit(p) \/ UNCHANGED Own(p) \/ Start(p) \/ MainThread(p)
      \/ AcceptorThread(p) \/ AcceptFails(p)
  <2>1. CASE UNCHANGED vars \/ StrangerLeaves
    BY <2>1 DEF vars, StrangerLeaves, Own
  <2>2. ASSUME NEW q \in Party, StrangerConnects(q) PROVE UNCHANGED Own(p)
    BY <2>2 DEF StrangerConnects, Own
  <2>3. ASSUME NEW q \in Party, q # p, Start(q) PROVE UNCHANGED Own(p)
    BY <1>0, <2>3 DEF Start, Own, Base, TypeOK
  <2>4. ASSUME NEW q \in Party, q # p, MainThread(q) PROVE UNCHANGED Own(p)
    BY <1>0, <2>4 DEF MainThread, Connect, SendId, RecordFd, Poll, Return, Own, Base, TypeOK
  <2>5. ASSUME NEW q \in Party, q # p, AcceptorThread(q) \/ AcceptFails(q)
        PROVE UNCHANGED Own(p)
    BY <1>0, <2>5 DEF AcceptorThread, AcceptFails, Accept, Handshake, HandshakeFails,
       AcceptorEnds, NextSlot, Own, Base, TypeOK
  <2>6. QED
    BY <2>1, <2>2, <2>3, <2>4, <2>5 DEF Quiet
<1>7. QED
  BY <1>0, <1>2, <1>3, <1>4, <1>5, <1>6, OwnSteps

(* What a party newly holds of another one was made in this very step.     *)
LEMMA HoldsStep ==
  ASSUME IInv, HeldInv, [MeterNext]_allVars, NEW a \in Party, NEW z \in Party,
         z # a, NEW c \in Connection, c.from = z, Holds(a, c)'
  PROVE  /\ main[a] # "off" /\ starts'[a] = starts[a]
         /\ \/ Holds(a, c)
            \/ Connect(z) /\ next[z] = a /\ c = Mine(z, a)
<1> USE DEF mainVars, acceptorVars, net
<1>0. Base /\ [Next]_vars
  BY MeterStep DEF IInv, Base
<1>1. /\ fd \in [Party -> [Party -> Connection \cup {None}]]
      /\ cur \in [Party -> Connection \cup {None}]
      /\ backlog \in [Party -> Seq(Connection)]
      /\ starts \in [Party -> Nat]
      /\ main \in [Party -> {"off", "connect", "handshake", "record", "wait", "returned"}]
      /\ z # Stranger /\ c # None
  BY <1>0, PartyFacts, ConnectionFacts DEF Base, TypeOK, Stranger
<1> DEFINE Kept == /\ fd'[a] = fd[a] /\ cur'[a] = cur[a] /\ backlog'[a] = backlog[a]
                   /\ Returned(a) => Returned(a)'
             New == Connect(z) /\ next[z] = a /\ c = Mine(z, a)
<1>2. Kept => Holds(a, c)
  BY DEF Holds
<1>3. main[a] = "off" => backlog[a] = <<>> /\ cur[a] = None /\ \A q \in Party : fd[a][q] = None
  BY DEF HeldInv, IInv, TableInv
<1>4. ~(main[a] = "off" /\ Holds(a, c))
  BY <1>1, <1>3 DEF Holds
<1>5. ASSUME NEW q \in Party, Start(q)
      PROVE  main[a] # "off" /\ starts'[a] = starts[a] /\ Holds(a, c)
  <2>1. Kept
    BY <1>1, <1>5 DEF Start, Returned
  <2>2. Holds(a, c) /\ main[a] # "off"
    BY <1>2, <1>4, <2>1
  <2>3. QED
    BY <1>1, <1>5, <2>2 DEF Start
<1>6. ASSUME NEW q \in Party, MainThread(q)
      PROVE  starts' = starts /\ (Holds(a, c) \/ New)
  <2>1. starts' = starts
    BY <1>6 DEF MainThread, Connect, SendId, RecordFd, Poll, Return
  <2>2. CASE Connect(q)
    <3>1. /\ cur' = cur /\ fd' = fd /\ Returned(a)' = Returned(a) /\ next[q] \in Party
          /\ \A x \in Party : backlog'[x] =
               IF x = next[q] THEN Append(backlog[x], Mine(q, next[q])) ELSE backlog[x]
      BY <1>0, <1>1, <2>2, NextParty DEF Connect, Returned, Base
    <3>2. CASE a # next[q]
      BY <1>2, <2>1, <3>1, <3>2
    <3>3. CASE a = next[q]
      <4>1. CASE Holds(a, c)
        BY <2>1, <4>1
      <4>2. CASE ~Holds(a, c)
        <5>1. PICK k \in 1 .. Len(backlog'[a]) : backlog'[a][k] = c
          BY <3>1, <4>2 DEF Holds
        <5>2. /\ backlog[a] \in Seq(Connection)
              /\ backlog'[a] = Append(backlog[a], Mine(q, a)) /\ ~Returned(a)
          BY <1>1, <3>1, <3>3, <4>2 DEF Holds
        <5>3. k \in 1 .. Len(backlog[a]) \/ c = Mine(q, a)
          BY ONLY <5>1, <5>2
        <5>4. c = Mine(q, a)
          <6>1. ASSUME k \in 1 .. Len(backlog[a]) PROVE FALSE
            <7>1. backlog[a][k] = c
              BY ONLY <5>1, <5>2, <6>1
            <7>2. QED
              BY <4>2, <5>2, <6>1, <7>1 DEF Holds
          <6>2. QED
            BY <5>3, <6>1
        <5>5. q = z
          BY <5>4 DEF Mine
        <5>6. QED
          BY <2>1, <2>2, <3>3, <5>4, <5>5
      <4>3. QED
        BY <4>1, <4>2
    <3>4. QED
      BY <2>1, <3>2, <3>3
  <2>3. CASE SendId(q) \/ Poll(q) \/ Return(q)
    <3>1. Kept
      BY <1>1, <2>3 DEF SendId, Poll, Return, Returned
    <3>2. QED
      BY <1>2, <2>1, <3>1
  <2>4. CASE RecordFd(q)
    <3>1. cur' = cur /\ backlog' = backlog /\ (Returned(a) => Returned(a)')
          /\ next[q] \in Party
      BY <1>0, <1>1, <2>4, NextParty DEF RecordFd, Returned, Base
    <3>2. \A x \in Party : fd'[a][x] = fd[a][x] \/ (q = a /\ fd'[a][x] = Mine(a, x))
      BY <1>1, <2>4, <3>1 DEF RecordFd
    <3>3. Mine(a, z) \in [from : {a}, run : {starts[a]}, to : {z}, id : {a}]
          /\ \A x \in Party : Mine(a, x).from = a
      BY DEF Mine
    <3>4. \A x \in Party : fd'[a][x] = c => fd[a][x] = c
      BY <3>2, <3>3
    <3>5. QED
      BY <2>1, <3>1, <3>4 DEF Holds
  <2>5. QED
    BY <1>6, <2>2, <2>3, <2>4 DEF MainThread
<1>7. ASSUME NEW q \in Party, AcceptorThread(q) \/ AcceptFails(q)
      PROVE  starts' = starts /\ Holds(a, c)
  <2>1. starts' = starts /\ main' = main
    BY <1>7 DEF AcceptorThread, AcceptFails, Accept, Handshake, HandshakeFails,
       AcceptorEnds
  <2>2. CASE q # a
    <3>1. Kept
      BY <1>1, <1>7, <2>1, <2>2 DEF AcceptorThread, AcceptFails, Accept, Handshake,
         HandshakeFails, AcceptorEnds, NextSlot, Returned
    <3>2. QED
      BY <1>2, <2>1, <3>1
  <2>3. CASE q = a /\ Accept(a)
    <3>1. /\ backlog[a] # <<>> /\ backlog[a] \in Seq(Connection) /\ fd' = fd
          /\ cur'[a] = Head(backlog[a]) /\ backlog'[a] = Tail(backlog[a])
      BY <1>1, <2>3 DEF Accept
    <3>2. 1 \in 1 .. Len(backlog[a]) /\ Head(backlog[a]) = backlog[a][1]
      BY ONLY <3>1
    <3>3. \A k \in 1 .. Len(backlog'[a]) :
            k + 1 \in 1 .. Len(backlog[a]) /\ backlog'[a][k] = backlog[a][k + 1]
      BY ONLY <3>1
    <3>4. QED
      BY <2>1, <3>1, <3>2, <3>3 DEF Holds, Returned
  <2>4. CASE q = a /\ Handshake(a)
    <3>1. ~Returned(a)
      BY <2>4, WhenReturned DEF Handshake
    <3>2. \A x \in Party : fd'[a][x] \in {fd[a][x], cur[a]}
      <4>1. cur[a].id \in Party /\ fd'[a] = [fd[a] EXCEPT ![cur[a].id] = cur[a]]
        BY <1>0, <2>4, HandshakeEffect DEF IInv
      <4>2. QED
        BY <1>1, <4>1
    <3>3. cur'[a] = None /\ backlog' = backlog
      BY <1>1, <2>4 DEF Handshake, NextSlot
    <3>4. QED
      BY <1>1, <2>1, <3>1, <3>2, <3>3 DEF Holds
  <2>5. CASE q = a /\ (HandshakeFails(a) \/ AcceptFails(a))
    <3>1. cur'[a] = None /\ backlog' = backlog /\ fd' = fd
      BY <1>1, <2>5 DEF HandshakeFails, AcceptFails, NextSlot
    <3>2. QED
      BY <1>1, <2>1, <3>1 DEF Holds, Returned
  <2>6. CASE q = a /\ AcceptorEnds(a)
    <3>1. cur' = cur /\ backlog'[a] = <<>> /\ fd' = fd
      BY <1>1, <2>6 DEF AcceptorEnds
    <3>2. QED
      BY <2>1, <3>1 DEF Holds, Returned
  <2>7. QED
    BY <1>7, <2>2, <2>3, <2>4, <2>5, <2>6 DEF AcceptorThread
<1>8. ASSUME NEW q \in Party, Exit(q) PROVE starts' = starts /\ Holds(a, c)
  <2>1. starts' = starts
    BY <1>8 DEF Exit
  <2>2. CASE q # a
    <3>1. Kept
      BY <1>1, <1>8, <2>2 DEF Exit, Returned
    <3>2. QED
      BY <1>2, <2>1, <3>1
  <2>3. CASE q = a
    <3>1. /\ backlog'[a] = <<>> /\ cur'[a] = None
          /\ \A x \in Party : fd'[a][x] = None
      BY <1>1, <1>8, <2>3 DEF Exit
    <3>2. QED
      BY <1>1, <3>1 DEF Holds
  <2>4. QED
    BY <2>2, <2>3
<1>9. ASSUME NEW q \in Party, StrangerConnects(q) PROVE starts' = starts /\ Holds(a, c)
  <2>1. /\ starts' = starts /\ main' = main /\ fd' = fd /\ cur' = cur
    BY <1>9 DEF StrangerConnects
  <2>2. PICK s : /\ backlog' = [backlog EXCEPT ![q] = Append(@, s)]
                 /\ s.from = Stranger
    <3>1. PICK id \in StrangerIds :
            backlog' = [backlog EXCEPT ![q] = Append(@,
              [from |-> Stranger, run |-> upsets + 1, to |-> q, id |-> id])]
      BY <1>9 DEF StrangerConnects
    <3>2. [from |-> Stranger, run |-> upsets + 1, to |-> q, id |-> id].from = Stranger
      OBVIOUS
    <3>3. QED
      BY <3>1, <3>2
  <2>3. CASE a # q
    BY <1>1, <2>1, <2>2, <2>3 DEF Holds, Returned
  <2>4. CASE a = q
    <3>1. backlog'[a] = Append(backlog[a], s) /\ backlog[a] \in Seq(Connection) /\ s # c
      BY <1>1, <2>2, <2>4
    <3>2. \A k \in 1 .. Len(backlog'[a]) : backlog'[a][k] = c =>
            k \in 1 .. Len(backlog[a]) /\ backlog[a][k] = c
      BY ONLY <3>1
    <3>3. QED
      BY <2>1, <3>2 DEF Holds, Returned
  <2>5. QED
    BY <2>3, <2>4
<1>10. ASSUME StrangerLeaves \/ UNCHANGED vars
       PROVE  starts' = starts /\ Holds(a, c)
  BY <1>2, <1>10 DEF StrangerLeaves, vars, Returned
<1>11. starts'[a] = starts[a] /\ (Holds(a, c) \/ New)
  <2> HIDE DEF New
  <2>1. QED
    BY <1>0, <1>5, <1>6, <1>7, <1>8, <1>9, <1>10, Cases
<1>13. main[a] # "off"
  <2>1. CASE Holds(a, c)
    BY <1>4, <2>1
  <2>2. CASE Connect(z) /\ next[z] = a
    BY <1>0, <2>2 DEF Connect, Listening, Base, ControlInv
  <2>3. QED
    BY <1>11, <2>1, <2>2
<1>14. QED
  BY <1>11, <1>13

LEMMA RunFacts ==
  ASSUME RunInv
  PROVE  /\ Base /\ IInv /\ TypeOK /\ ControlInv /\ LoopInv /\ ExchangeTypeOK
         /\ \A x \in Party : x \in Nat /\ n[x] \in Nat /\ starts[x] \in Nat
<1>1. /\ Base /\ IInv /\ TypeOK /\ ControlInv /\ LoopInv /\ ExchangeTypeOK
  BY DEF RunInv, IInv, Base
<1>2. QED
  BY <1>1, PartyFacts DEF TypeOK

LEMMA GotIs ==
  ASSUME NEW p \in Party, NEW q \in Party
  PROVE  \A i : i \in Got(p, q) <=> \/ i # 0 /\ received[p][q] = i
                                    \/ \E m \in Inbox(p, q) : m.of[q] = i
BY DEF Got

LEMMA GotIsNext ==
  ASSUME NEW p \in Party, NEW q \in Party
  PROVE  \A i : i \in Got(p, q)' <=> \/ i # 0 /\ received'[p][q] = i
                                     \/ \E m \in Inbox(p, q)' : m.of[q] = i
BY DEF Got

LEMMA InboxIs ==
  ASSUME InboxInv, ExchangeTypeOK, NEW p \in Party, NEW q \in Party, NEW m \in Inbox(p, q)
  PROVE  /\ m \in wire /\ m.by = q /\ Reader(m) = p /\ m.part \in {1, 2}
         /\ m.of \in [Party -> 0 .. (MaxUpsets + 1)]
         /\ p # q /\ q < n[p] /\ p < n[q] /\ Linked(p, q) /\ m.on = Link(p, q)
BY DEF Inbox, InboxInv, ExchangeTypeOK, Message

(* Who has got a share runs.                                               *)
LEMMA GotRuns ==
  ASSUME RunInv, NEW p \in Party, NEW q \in Party, p # q, Got(p, q) # {}
  PROVE  /\ main[p] # "off" /\ q < n[p]
         /\ q < p => Reached(p, q)
         /\ p < q => Returned(p)
<1>0. /\ LoopInv /\ InboxInv /\ ExchangeTypeOK /\ p \in Nat /\ q \in Nat
  BY PartyFacts DEF RunInv
<1>1. CASE received[p][q] # 0
  <2>1. NoShare[q] = 0
    BY DEF NoShare
  <2>2. Returned(p) /\ q < n[p]
    BY <1>0, <1>1, <2>1 DEF LoopInv
  <2>3. QED
    BY <2>2 DEF Returned, Reached
<1>2. CASE received[p][q] = 0
  <2>1. PICK m \in Inbox(p, q) : TRUE
    BY <1>2 DEF Got
  <2>2. Linked(p, q) /\ q < n[p]
    BY <1>0, <2>1, InboxIs
  <2>3. QED
    BY <1>0, <2>2 DEF Linked, Returned, Reached
<1>3. QED
  BY <1>1, <1>2

(* The share that a party has of one that it still is connected to.        *)
LEMMA GotLive ==
  ASSUME RunInv, NEW p \in Party, NEW q \in Party, p # q, NEW i \in Got(p, q)
  PROVE  /\ i \in Nat /\ 1 <= i /\ i <= starts[q] /\ starts[q] \in Nat
         /\ i = starts[q] => main[q] \in {"off", "returned"}
         /\ Link(p, q) \in live => i = starts[q] /\ Returned(q)
         /\ \A k \in Got(p, q) : k = i
         /\ p < q => i = fd[p][q].run
         /\ (q < p /\ i = starts[q] /\ Returned(q)) => fd[q][p] = Mine(p, q)
         /\ (i = starts[q] /\ Returned(q)) => Received(p, q) <= Sent(q, p)
<1>1. i \in Nat
  <2>1. CASE received[p][q] = i
    BY <2>1 DEF RunInv, ExchangeTypeOK
  <2>2. CASE received[p][q] # i
    <3>1. PICK m \in Inbox(p, q) : m.of[q] = i
      BY <2>2, GotIs
    <3>2. QED
      BY <3>1, InboxIs DEF RunInv
  <2>3. QED
    BY <2>1, <2>2
<1>2. starts[q] \in Nat
  BY DEF RunInv, IInv, TypeOK
<1>3. QED
  BY <1>1, <1>2 DEF RunInv, ShareInv

LEMMA ReceivedGot ==
  ASSUME RunInv, NEW p \in Party, NEW q \in Party, p # q
  PROVE  /\ received[p][q] # 0 => received[p][q] \in Got(p, q)
         /\ received[p][q] # 0 <=> q < n[p] /\ Received(p, q) # 0
<1>1. LoopInv /\ ExchangeTypeOK /\ TypeOK
  BY DEF RunInv, IInv
<1>2. NoShare[q] = 0
  BY DEF NoShare
<1>3. round[p] = 0 => Received(p, q) = 0
  BY <1>1, CountFacts
<1>4. QED
  BY <1>1, <1>2, <1>3 DEF Got, LoopInv

-----------------------------------------------------------------------------
(* A message that arrives: who reads it, over which connection, and how    *)
(* far the reader is.                                                      *)
LEMMA LiveSend ==
  ASSUME RunInv, NEW s \in Party, SendTurn(s), NEW d \in Party, d = peer[s],
         fd[s][d] \in live
  PROVE  /\ d # s /\ d < n[s] /\ s < n[d] /\ Returned(s) /\ round[s] \in {1, 2}
         /\ fd[s][d] = Link(d, s) /\ fd[s][d] = Link(s, d)
         /\ fd[s][d] \in Connection
         /\ {fd[s][d].from, fd[s][d].to} = {s, d}
         /\ Linked(d, s) /\ main[d] # "off"
         /\ Sent(s, d) = round[s] - 1
         /\ Received(d, s) < round[s]
         /\ d < s => round[s] <= Sent(d, s)
         /\ (round[s] = 2 \/ d < s) =>
               /\ Returned(d) /\ Sent(d, s) >= 1 /\ received[s][d] = starts[d]
         /\ s < d => fd[s][d] = Mine(d, s)
         /\ d < s => fd[d][s] = Mine(s, d) /\ fd[s][d] = Mine(s, d)
         /\ \A i \in Got(d, s) : i = starts[s]
<1>0. /\ Base /\ IInv /\ TypeOK /\ ControlInv /\ LoopInv /\ ExchangeTypeOK /\ InExchange(s)
      /\ \A x \in Party : x \in Nat /\ n[x] \in Nat /\ starts[x] \in Nat
  BY RunFacts DEF SendTurn
<1>1. /\ d # s /\ d < n[s] /\ Returned(s) /\ round[s] \in {1, 2} /\ main[s] # "off"
      /\ Sent(s, d) = round[s] - 1
      /\ Received(s, d) = IF s < d THEN round[s] - 1 ELSE round[s]
  BY <1>0, TurnCounts DEF Returned
<1>2. /\ s < d => fd[s][d].from = d /\ fd[s][d].to = s /\ fd[s][d].id = d
                  /\ fd[s][d] \in Connection
      /\ d < s => fd[s][d] = Mine(s, d)
  BY <1>0, <1>1, WhenReturned
<1>3. ASSUME s < d
      PROVE  /\ fd[s][d] = Mine(d, s) /\ main[d] # "off" /\ Reached(d, s) /\ s < n[d]
  <2>1. d # Stranger
    BY PartyFacts DEF Stranger
  <2>2. fd[s][d].run = starts[d] /\ main[d] # "off"
    BY <1>0, <1>2, <1>3, <2>1 DEF IInv, LiveInv
  <2>3. fd[s][d] = [from |-> fd[s][d].from, run |-> fd[s][d].run,
                    to |-> fd[s][d].to, id |-> fd[s][d].id]
    BY <1>2, <1>3 DEF Connection
  <2>4. fd[s][d] = Mine(d, s)
    BY <1>2, <1>3, <2>2, <2>3 DEF Mine
  <2>5. Holds(s, fd[s][d])
    BY <1>2, <1>3 DEF Holds
  <2>6. Reached(d, s)
    BY <1>2, <1>3, <2>2, <2>5 DEF RunInv, HeldInv
  <2>7. s < n[d]
    BY <1>0, <1>3 DEF ControlInv
  <2>8. QED
    BY <2>2, <2>4, <2>6, <2>7
<1>4. fd[s][d] = Link(s, d)
  BY <1>0, <1>1, <1>2 DEF Link
<1>5. ASSUME round[s] = 2 \/ d < s
      PROVE  /\ Returned(d) /\ received[s][d] = starts[d] /\ Received(s, d) >= 1
             /\ Received(s, d) <= Sent(d, s)
             /\ d < s => fd[d][s] = Mine(s, d)
  <2>1. Received(s, d) >= 1
    BY <1>0, <1>1, <1>5
  <2>2. received[s][d] # 0 /\ received[s][d] \in Got(s, d)
    BY <1>1, <2>1, ReceivedGot
  <2>3. received[s][d] = starts[d] /\ Returned(d)
    BY <1>1, <1>4, <2>2, GotLive
  <2>4. QED
    BY <1>1, <2>1, <2>2, <2>3, GotLive
<1>6. ASSUME d < s
      PROVE  /\ fd[s][d] = Link(d, s) /\ Linked(d, s) /\ s < n[d]
             /\ fd[s][d] \in Connection /\ fd[s][d].from = s /\ fd[s][d].to = d
  <2>1. fd[s][d] = fd[d][s] /\ Returned(d) /\ ~(s < d) /\ d < s
    BY <1>0, <1>2, <1>5, <1>6
  <2>2. fd[s][d] \in Connection /\ fd[s][d].from = s /\ fd[s][d].to = d /\ fd[s][d] # None
    BY <1>0, <1>1, <1>2, <1>6, MineFacts
  <2>3. s < n[d]
    BY <2>1, <2>2 DEF RunInv, IInv, TableInv
  <2>4. QED
    BY <2>1, <2>2, <2>3 DEF Link, Linked
<1>7. /\ fd[s][d] = Link(d, s) /\ Linked(d, s) /\ s < n[d] /\ fd[s][d] \in Connection
      /\ {fd[s][d].from, fd[s][d].to} = {s, d} /\ main[d] # "off"
  <2>1. CASE s < d
    BY <1>2, <1>3, <2>1 DEF Link, Linked
  <2>2. CASE d < s
    BY <1>5, <1>6, <2>2 DEF Returned
  <2>3. QED
    BY <1>0, <1>1, <2>1, <2>2
<1>8. \A i \in Got(d, s) : i = starts[s] /\ Received(d, s) <= Sent(s, d)
  BY <1>1, <1>7, GotLive
<1>9. Received(d, s) < round[s]
  <2>1. Received(d, s) \in Nat
    BY <1>0, <1>1, CountFacts
  <2>2. CASE Received(d, s) = 0
    BY <1>1, <2>2
  <2>3. CASE Received(d, s) # 0
    <3>1. received[d][s] \in Got(d, s)
      BY <1>1, <1>7, <2>3, ReceivedGot
    <3>2. Received(d, s) <= round[s] - 1
      BY <1>1, <1>8, <3>1
    <3>3. QED
      BY <1>1, <2>1, <3>2
  <2>4. QED
    BY <2>2, <2>3
<1>10. Sent(d, s) \in Nat /\ Received(s, d) \in Nat
  BY <1>0, <1>1, CountFacts
<1>11. d < s => round[s] <= Sent(d, s)
  BY <1>0, <1>1, <1>5, <1>10
<1>12. (round[s] = 2 \/ d < s) =>
         /\ Returned(d) /\ Sent(d, s) >= 1 /\ received[s][d] = starts[d]
  BY <1>5, <1>10
<1>13. QED
  BY <1>1, <1>2, <1>3, <1>4, <1>5, <1>7, <1>8, <1>9, <1>11, <1>12

(* What Send does to the messages.                                         *)
NewMessage(s) ==
  [on |-> fd[s][peer[s]], by |-> s, part |-> round[s],
   of |-> IF round[s] = 1 THEN [NoShare EXCEPT ![s] = starts[s]] ELSE received[s]]
Arrives(s, d) == Send(s) /\ d = peer[s] /\ fd[s][d] \in live

LEMMA SendEffect ==
  ASSUME RunInv, NEW s \in Party, Send(s), NEW d \in Party, d = peer[s]
  PROVE  /\ fd[s][d] \notin live => wire' = wire
         /\ fd[s][d] \in live =>
              /\ wire' = wire \cup {NewMessage(s)}
              /\ NewMessage(s).by = s /\ Reader(NewMessage(s)) = d
              /\ NewMessage(s).on = fd[s][d] /\ NewMessage(s).part = round[s]
              /\ round[s] = 1 => NewMessage(s).of = [NoShare EXCEPT ![s] = starts[s]]
              /\ round[s] = 2 => NewMessage(s).of = received[s]
              /\ NewMessage(s).of[s] = starts[s]
         /\ UNCHANGED <<vars, received, agree, round>>
<1>1. UNCHANGED <<vars, received, agree, round>> /\ SendTurn(s)
  BY DEF Send, NextCall
<1>2. fd[s][d] \notin live => wire' = wire
  BY DEF Send
<1>3. ASSUME fd[s][d] \in live
      PROVE  /\ wire' = wire \cup {NewMessage(s)}
             /\ NewMessage(s).by = s /\ Reader(NewMessage(s)) = d
             /\ NewMessage(s).on = fd[s][d] /\ NewMessage(s).part = round[s]
             /\ round[s] = 1 => NewMessage(s).of = [NoShare EXCEPT ![s] = starts[s]]
             /\ round[s] = 2 => NewMessage(s).of = received[s]
             /\ NewMessage(s).of[s] = starts[s]
  <2>1. /\ d # s /\ {fd[s][d].from, fd[s][d].to} = {s, d} /\ round[s] \in {1, 2}
    BY <1>1, <1>3, LiveSend
  <2>2. wire' = wire \cup {NewMessage(s)}
    BY <1>3 DEF Send, NewMessage
  <2>3. /\ NewMessage(s).by = s /\ NewMessage(s).on = fd[s][d]
        /\ NewMessage(s).part = round[s]
        /\ round[s] = 1 => NewMessage(s).of = [NoShare EXCEPT ![s] = starts[s]]
        /\ round[s] = 2 => NewMessage(s).of = received[s]
    BY DEF NewMessage
  <2>4. Reader(NewMessage(s)) = d
    BY <2>1, <2>3 DEF Reader
  <2>5. round[s] = 2 => received[s][s] = starts[s]
    BY DEF RunInv, LoopInv
  <2>6. [NoShare EXCEPT ![s] = starts[s]][s] = starts[s]
    BY DEF NoShare
  <2>7. QED
    BY <2>1, <2>2, <2>3, <2>4, <2>5, <2>6
<1>4. QED
  BY <1>1, <1>2, <1>3

(* The message that Recv takes is the one of its round.                    *)
LEMMA RecvEffect ==
  ASSUME RunInv, NEW p \in Party, Recv(p), NEW d \in Party, d = peer[p]
  PROVE  /\ d # p /\ d < n[p] /\ Returned(p) /\ round[p] \in {1, 2} /\ RecvTurn(p)
         /\ UNCHANGED <<vars, round>>
         /\ \E m \in Inbox(p, d) :
              /\ m.part = round[p]
              /\ wire' = wire \ {m}
              /\ round[p] = 1 =>
                   /\ received' = [received EXCEPT ![p][d] = m.of[d]]
                   /\ agree' = agree
              /\ round[p] = 2 =>
                   /\ received' = received
                   /\ agree' = [agree EXCEPT ![p] = @ /\ m.of = received[p]]
<1>0. /\ IInv /\ TypeOK /\ LoopInv /\ ExchangeTypeOK /\ RecvTurn(p) /\ InExchange(p)
      /\ d \in Nat /\ p \in Nat
  BY RunFacts DEF Recv, RecvTurn
<1>1. /\ d # p /\ d < n[p] /\ Returned(p) /\ round[p] \in {1, 2}
      /\ Received(p, d) = round[p] - 1 /\ main[p] # "off"
  BY <1>0, TurnCounts DEF Returned
<1>2. /\ p < d => fd[p][d].from = d /\ fd[p][d].to = p
      /\ d < p => fd[p][d] = Mine(p, d)
  BY <1>0, <1>1, WhenReturned
<1>3. d < p => fd[p][d].from = p /\ fd[p][d].to = d
  BY <1>2 DEF Mine
<1>4. fd[p][d] = Link(p, d)
  BY <1>0, <1>1, <1>2 DEF Link
<1>5. ASSUME NEW m PROVE m \in Unread(p) <=> m \in Inbox(p, d)
  <2>1. m \in Unread(p) => m \in Inbox(p, d)
    BY <1>0, <1>1, <1>2, <1>3 DEF Unread, Inbox, Reader
  <2>2. m \in Inbox(p, d) => m \in Unread(p)
    BY <1>0, <1>4, InboxIs DEF Unread, RunInv
  <2>3. QED
    BY <2>1, <2>2
<1>6. PICK m \in Unread(p) :
        /\ \A o \in Unread(p) : m.part <= o.part
        /\ wire' = wire \ {m}
        /\ IF round[p] = 1
           THEN /\ received' = [received EXCEPT ![p][peer[p]] = m.of[peer[p]]]
                /\ agree' = [agree EXCEPT ![p] = @ /\ m.part = 1]
           ELSE /\ agree' = [agree EXCEPT ![p] =
                               @ /\ m.part = 2 /\ m.of = received[p]]
                /\ UNCHANGED received
  BY DEF Recv
<1>7. m \in Inbox(p, d) /\ m.part \in {1, 2}
  BY <1>0, <1>5, <1>6, InboxIs DEF RunInv
<1>8. /\ Received(p, d) < m.part
      /\ (m.part = 2 /\ Received(p, d) = 0) => \E o \in Inbox(p, d) : o.part = 1
  BY <1>7 DEF RunInv, OrderInv
<1>9. m.part = round[p]
  <2>1. CASE round[p] = 2
    BY <1>1, <1>7, <1>8, <2>1
  <2>2. CASE round[p] = 1
    <3>1. m.part = 2 => \E o \in Unread(p) : o.part = 1
      BY <1>1, <1>5, <1>8, <2>2
    <3>2. m.part # 2
      BY <1>6, <3>1
    <3>3. QED
      BY <1>7, <2>2, <3>2
  <2>3. QED
    BY <1>1, <2>1, <2>2
<1>10. UNCHANGED <<vars, round>>
  BY DEF Recv, NextCall
<1>11. round[p] = 1 => received' = [received EXCEPT ![p][d] = m.of[d]] /\ agree' = agree
  <2> SUFFICES ASSUME round[p] = 1
               PROVE  received' = [received EXCEPT ![p][d] = m.of[d]] /\ agree' = agree
    OBVIOUS
  <2>1. agree \in [Party -> BOOLEAN] /\ m.part = 1
    BY <1>0, <1>9 DEF ExchangeTypeOK
  <2>2. agree' = [agree EXCEPT ![p] = agree[p]]
    BY <1>6, <2>1
  <2>3. agree' = agree
    BY <2>1, <2>2
  <2>4. QED
    BY <1>6, <2>3
<1>12. round[p] = 2 =>
         /\ received' = received
         /\ agree' = [agree EXCEPT ![p] = @ /\ m.of = received[p]]
  BY <1>6, <1>9
<1>13. QED
  BY <1>0, <1>1, <1>6, <1>7, <1>9, <1>10, <1>11, <1>12

-----------------------------------------------------------------------------
(* What a step does to the shares and partial sums that are around: only   *)
(* Send adds any.                                                          *)
LEMMA WireStep ==
  ASSUME RunInv, [MeterNext]_allVars, NEW m \in wire', m \notin wire
  PROVE  \E s, d \in Party : Arrives(s, d) /\ m = NewMessage(s)
<1>1. PICK s \in Party : Send(s)
  <2>1. ASSUME Quiet PROVE wire' = wire
    BY <2>1 DEF Quiet, exchange
  <2>2. ASSUME NEW s \in Party,
               SplitShares(s) \/ Recv(s) \/ ComputePartial(s) \/ EndProcess(s)
        PROVE  wire' \subseteq wire
    BY <2>2 DEF SplitShares, Recv, ComputePartial, EndProcess
  <2>3. QED
    BY <2>1, <2>2, RunCases
<1>2. PICK d \in Party : d = peer[s]
  BY <1>1, RunFacts, TurnCounts DEF Send, SendTurn
<1>3. /\ fd[s][d] \notin live => wire' = wire
      /\ fd[s][d] \in live => wire' = wire \cup {NewMessage(s)}
  BY <1>1, <1>2, SendEffect
<1>4. QED
  BY <1>1, <1>2, <1>3 DEF Arrives

LEMMA ArrivesFacts ==
  ASSUME RunInv, NEW s \in Party, NEW d \in Party, Arrives(s, d)
  PROVE  /\ SendTurn(s) /\ wire' = wire \cup {NewMessage(s)}
         /\ NewMessage(s).by = s /\ Reader(NewMessage(s)) = d
         /\ NewMessage(s).on = fd[s][d] /\ NewMessage(s).part = round[s]
         /\ round[s] = 1 => NewMessage(s).of = [NoShare EXCEPT ![s] = starts[s]]
         /\ round[s] = 2 => NewMessage(s).of = received[s]
         /\ NewMessage(s).of[s] = starts[s]
         /\ UNCHANGED <<vars, received, agree, round>>
BY SendEffect DEF Arrives, Send

LEMMA InboxStep ==
  ASSUME RunInv, [MeterNext]_allVars, NEW p \in Party, NEW q \in Party,
         NEW m \in Inbox(p, q)'
  PROVE  m \in Inbox(p, q) \/ (Arrives(q, p) /\ m = NewMessage(q))
<1>0. m \in wire' /\ m.by = q /\ Reader(m) = p
  BY DEF Inbox, Reader
<1>1. CASE m \in wire
  BY <1>0, <1>1 DEF Inbox
<1>2. CASE m \notin wire
  <2>1. PICK s \in Party, d \in Party : Arrives(s, d) /\ m = NewMessage(s)
    BY <1>0, <1>2, WireStep
  <2>2. m.by = s /\ Reader(m) = d
    BY <2>1, ArrivesFacts
  <2>3. QED
    BY <1>0, <2>1, <2>2
<1>3. QED
  BY <1>1, <1>2

LEMMA GotStep ==
  ASSUME RunInv, [MeterNext]_allVars, NEW p \in Party, NEW q \in Party, p # q,
         NEW i \in Got(p, q)'
  PROVE  i \in Got(p, q) \/ (Arrives(q, p) /\ i = starts[q])
<1>1. CASE \E m \in Inbox(p, q)' : m.of[q] = i
  <2>1. PICK m \in Inbox(p, q)' : m.of[q] = i
    BY <1>1
  <2>2. CASE m \in Inbox(p, q)
    BY <2>1, <2>2, GotIs
  <2>3. CASE Arrives(q, p) /\ m = NewMessage(q)
    <3>1. NewMessage(q).of[q] = starts[q]
      BY <2>3, ArrivesFacts
    <3>2. QED
      BY <2>1, <2>3, <3>1
  <2>4. QED
    BY <2>2, <2>3, InboxStep
<1>2. CASE i # 0 /\ received'[p][q] = i
  <2>0. received \in [Party -> [Party -> 0 .. (MaxUpsets + 1)]] /\ NoShare[q] = 0
    BY DEF RunInv, ExchangeTypeOK, NoShare
  <2>1. CASE received'[p][q] = received[p][q]
    BY <1>2, <2>1, GotIs
  <2>2. CASE received'[p][q] # received[p][q]
    <3>1. ASSUME Quiet PROVE FALSE
      BY <2>2, <3>1 DEF Quiet, exchange
    <3>2. ASSUME NEW s \in Party, SplitShares(s) PROVE FALSE
      BY <2>0, <2>2, <3>2 DEF SplitShares
    <3>3. ASSUME NEW s \in Party, Send(s) \/ ComputePartial(s) PROVE FALSE
      BY <2>2, <3>3 DEF Send, ComputePartial
    <3>4. ASSUME NEW s \in Party, EndProcess(s) PROVE FALSE
      BY <1>2, <2>0, <2>2, <3>4 DEF EndProcess
    <3>5. ASSUME NEW s \in Party, Recv(s) PROVE \E m \in Inbox(p, q) : m.of[q] = i
      <4>0. peer[s] \in Party
        BY <3>5, RunFacts, TurnCounts DEF Recv, RecvTurn
      <4>1. PICK d \in Party : d = peer[s]
        BY <4>0
      <4>2. PICK m \in Inbox(s, d) :
              /\ round[s] = 1 => received' = [received EXCEPT ![s][d] = m.of[d]]
              /\ round[s] = 2 => received' = received
        BY <3>5, <4>1, RecvEffect
      <4>3. round[s] \in {1, 2}
        BY <3>5, <4>1, RecvEffect
      <4>4. received' = [received EXCEPT ![s][d] = m.of[d]]
        BY <2>2, <4>2, <4>3
      <4>5. s = p /\ d = q /\ received'[p][q] = m.of[q]
        BY <2>0, <2>2, <4>4
      <4>6. QED
        BY <1>2, <4>2, <4>5
    <3>6. QED
      BY <3>1, <3>2, <3>3, <3>4, <3>5, RunCases, GotIs
  <2>3. QED
    BY <2>1, <2>2
<1>3. QED
  BY <1>1, <1>2, GotIsNext

LEMMA PartialStep ==
  ASSUME RunInv, [MeterNext]_allVars, NEW q \in Party, NEW m \in Partials(q)'
  PROVE  \/ m \in Partials(q)
         \/ /\ round[q] = 2 /\ m.of = received[q]
            /\ \E p \in Party : Arrives(q, p) /\ m = NewMessage(q)
<1>0. m \in wire' /\ m.by = q /\ m.part = 2
  BY DEF Partials
<1>1. CASE m \in wire
  BY <1>0, <1>1 DEF Partials
<1>2. CASE m \notin wire
  <2>1. PICK s \in Party, d \in Party : Arrives(s, d) /\ m = NewMessage(s)
    BY <1>0, <1>2, WireStep
  <2>2. /\ m.by = s /\ m.part = round[s]
        /\ round[s] = 2 => m.of = received[s]
    BY <2>1, ArrivesFacts
  <2>3. QED
    BY <1>0, <2>1, <2>2
<1>3. QED
  BY <1>1, <1>2

LEMMA AtLeastStays ==
  ASSUME RunInv, [MeterNext]_allVars, NEW p \in Party, NEW q \in Party, p # q,
         NEW i, i <= starts[q], AtLeast(p, q, i)
  PROVE  AtLeast(p, q, i)'
<1>1. ASSUME NEW k \in Got(p, q)' PROVE i <= k
  BY GotStep DEF AtLeast
<1>2. QED
  BY <1>1 DEF AtLeast

LEMMA NotOlderStays ==
  ASSUME RunInv, [MeterNext]_allVars, NEW a \in Party, NEW z \in Party, a # z,
         NEW i, i <= starts[z], NotOlder(a, z, i)
  PROVE  NotOlder(a, z, i)'
<1>1. ASSUME NEW c \in Connection, Holds(a, c)', c.from = z PROVE i <= c.run
  <2>1. CASE Holds(a, c)
    BY <1>1, <2>1 DEF NotOlder
  <2>2. CASE c = Mine(z, a)
    BY <2>2 DEF Mine
  <2>3. QED
    BY <1>1, <2>1, <2>2, HoldsStep DEF RunInv
<1>2. QED
  BY <1>1 DEF NotOlder

-----------------------------------------------------------------------------
(* A party during any step of a run.                                       *)
LEMMA PartyStep ==
  ASSUME RunInv, [MeterNext]_allVars, NEW p \in Party
  PROVE  /\ n' = n /\ starts[p] <= starts'[p] /\ starts[p] \in Nat
         /\ \/ main[p] = "off" /\ main'[p] = "off" /\ starts'[p] = starts[p]
            \/ /\ main[p] = "off" /\ main'[p] \in {"connect", "wait"}
               /\ starts'[p] = starts[p] + 1
            \/ /\ main[p] # "off" /\ main'[p] # "off" /\ starts'[p] = starts[p]
               /\ \A q \in Party : q < p /\ Reached(p, q) => Reached(p, q)'
               /\ Returned(p) => Returned(p)' /\ fd'[p] = fd[p]
               /\ Returned(p)' => main[p] \in {"wait", "returned"} /\ fd'[p] = fd[p]
            \/ /\ EndProcess(p) /\ main[p] # "off" /\ main'[p] = "off"
               /\ starts'[p] = starts[p]
<1>0. /\ starts[p] \in Nat /\ IInv /\ Base
      /\ main \in [Party -> {"off", "connect", "handshake", "record", "wait", "returned"}]
  BY RunFacts DEF TypeOK
<1>1. CASE Quiet
  BY <1>0, <1>1, QuietParty
<1>2. ASSUME NEW s \in Party,
             SplitShares(s) \/ Send(s) \/ Recv(s) \/ ComputePartial(s)
      PROVE  UNCHANGED <<n, starts, main, next, fd>>
  BY <1>2 DEF SplitShares, Send, Recv, ComputePartial, vars
<1>3. CASE \E s \in Party : SplitShares(s) \/ Send(s) \/ Recv(s) \/ ComputePartial(s)
  <2>1. UNCHANGED <<n, starts, main, next, fd>>
    BY <1>2, <1>3
  <2>2. QED
    BY <1>0, <2>1 DEF Returned, Reached
<1>4. ASSUME NEW s \in Party, EndProcess(s)
      PROVE  /\ n' = n /\ starts' = starts
             /\ s # p => main'[p] = main[p] /\ next'[p] = next[p] /\ fd'[p] = fd[p]
             /\ s = p => main[p] # "off" /\ main'[p] = "off"
  BY <1>0, <1>4 DEF EndProcess, Exit, Base, TypeOK
<1>5. CASE \E s \in Party : EndProcess(s)
  BY <1>0, <1>4, <1>5 DEF Returned, Reached
<1>6. QED
  BY <1>1, <1>3, <1>5, RunCases

LEMMA LinkFacts ==
  ASSUME RunInv, NEW p \in Party, NEW q \in Party, p # q, q < n[p], Linked(p, q)
  PROVE  /\ Link(p, q) \in Connection /\ {Link(p, q).from, Link(p, q).to} = {p, q}
         /\ main[p] # "off"
         /\ q < p => Link(p, q) = Mine(p, q)
         /\ p < q => Link(p, q) = fd[p][q] /\ Returned(p) /\ Link(p, q).from = q
         /\ Returned(p) => fd[p][q] = Link(p, q)
<1>0. IInv /\ Base /\ p \in Nat /\ q \in Nat /\ TypeOK /\ ControlInv
  BY RunFacts
<1>1. CASE q < p
  <2>1. main[p] # "off" /\ Link(p, q) = Mine(p, q)
    BY <1>1 DEF Linked, Reached, Link
  <2>2. /\ Mine(p, q) \in Connection /\ Mine(p, q).from = p /\ Mine(p, q).to = q
    BY <1>0, <2>1, MineFacts
  <2>3. Returned(p) => fd[p][q] = Mine(p, q)
    BY <1>0, <1>1, WhenReturned
  <2>4. ~(p < q)
    BY <1>0, <1>1
  <2>5. QED
    BY <2>1, <2>2, <2>3, <2>4
<1>2. CASE p < q
  <2>1. Returned(p) /\ main[p] # "off" /\ Link(p, q) = fd[p][q] /\ ~(q < p)
    BY <1>0, <1>2 DEF Linked, Returned, Link
  <2>2. fd[p][q] \in Connection /\ fd[p][q].from = q /\ fd[p][q].to = p
    BY <1>0, <1>2, <2>1, WhenReturned
  <2>3. QED
    BY <2>1, <2>2
<1>3. QED
  BY <1>0, <1>1, <1>2

(* A party keeps the connection over which it has or will read a share.    *)
LEMMA LinkStays ==
  ASSUME RunInv, [MeterNext]_allVars, NEW p \in Party, NEW q \in Party, p # q,
         q < n[p], Linked(p, q), ~EndProcess(p)
  PROVE  /\ main'[p] # "off" /\ starts'[p] = starts[p]
         /\ Linked(p, q)' /\ Link(p, q)' = Link(p, q)
         /\ Returned(p) => Returned(p)' /\ fd'[p] = fd[p]
<1>0. p \in Nat /\ q \in Nat /\ main[p] # "off"
  BY RunFacts, LinkFacts
<1>1. /\ main'[p] # "off" /\ starts'[p] = starts[p]
      /\ \A x \in Party : x < p /\ Reached(p, x) => Reached(p, x)'
      /\ Returned(p) => Returned(p)' /\ fd'[p] = fd[p]
  BY <1>0, PartyStep
<1>2. CASE q < p
  BY <1>0, <1>1, <1>2 DEF Linked, Link, Mine
<1>3. CASE p < q
  BY <1>0, <1>1, <1>3 DEF Linked, Link
<1>4. QED
  BY <1>0, <1>1, <1>2, <1>3

(* It is never open again once it has been closed.                         *)
LEMMA LinkCloses ==
  ASSUME RunInv, [MeterNext]_allVars, NEW p \in Party, NEW q \in Party, p # q,
         q < n[p], Linked(p, q), Link(p, q) \in live'
  PROVE  Link(p, q) \in live /\ ~EndProcess(p) /\ ~EndProcess(q)
<1> USE DEF mainVars, acceptorVars, net
<1>0. /\ p \in Nat /\ q \in Nat /\ main[p] # "off" /\ Base /\ [Next]_vars
      /\ Link(p, q) \in Connection /\ {Link(p, q).from, Link(p, q).to} = {p, q}
      /\ p # Stranger /\ q # Stranger
  BY RunFacts, LinkFacts, MeterStep, PartyFacts DEF Stranger
<1>1. ASSUME NEW s \in Party, Connect(s) PROVE Link(p, q) # Mine(s, next[s])
  <2>0. /\ next[s] \in Party /\ main[s] = "connect"
        /\ Mine(s, next[s]).from = s /\ Mine(s, next[s]).to = next[s]
        /\ Mine(s, next[s]).run = starts[s] /\ ~(next[s] < next[s])
    <3>1. main[s] = "connect"
      BY <1>1 DEF Connect
    <3>2. next[s] \in Party
      BY <1>0, <3>1, NextParty DEF Base
    <3>3. next[s] \in Nat
      BY <3>2, PartyFacts
    <3>4. ~(next[s] < next[s])
      BY <3>3
    <3>5. QED
      BY <3>1, <3>2, <3>4 DEF Mine
  <2>1. SUFFICES ASSUME Link(p, q) = Mine(s, next[s]) PROVE FALSE
    OBVIOUS
  <2>2. CASE q < p
    <3>1. Link(p, q).from = p /\ Link(p, q).to = q /\ Reached(p, q)
      BY <1>0, <2>2 DEF Link, Mine, Linked
    <3>2. QED
      BY <2>0, <2>1, <3>1 DEF Reached
  <2>3. CASE p < q
    <3>1. /\ Link(p, q) = fd[p][q] /\ Link(p, q).from = q
      BY <2>3, LinkFacts
    <3>2. s = q /\ next[q] = p /\ fd[p][q].run = starts[q]
      BY <1>0, <2>0, <2>1, <3>1
    <3>3. Holds(p, fd[p][q]) /\ fd[p][q] \in Connection
      BY <1>0, <3>1 DEF Holds
    <3>4. Reached(q, p)
      BY <2>0, <2>3, <3>1, <3>2, <3>3 DEF RunInv, HeldInv
    <3>5. QED
      BY <2>0, <3>2, <3>4 DEF Reached
  <2>4. QED
    BY <1>0, <2>2, <2>3
<1>2. \A c \in live' : \/ c \in live \/ c.from = Stranger
                       \/ \E s \in Party : Connect(s) /\ c = Mine(s, next[s])
  <2>1. ASSUME NEW s \in Party, MainThread(s), ~Connect(s) PROVE live' = live
    BY <2>1 DEF MainThread, SendId, RecordFd, Poll, Return
  <2>2. ASSUME NEW s \in Party, Connect(s) PROVE live' = live \cup {Mine(s, next[s])}
    BY <2>2 DEF Connect
  <2>3. ASSUME NEW s \in Party, AcceptorThread(s) \/ AcceptFails(s) \/ Exit(s) \/ Start(s)
        PROVE  live' \subseteq live
    BY <2>3 DEF AcceptorThread, Accept, Handshake, HandshakeFails, AcceptorEnds,
       AcceptFails, Exit, Start
  <2>4. ASSUME NEW s \in Party, StrangerConnects(s)
        PROVE  \A c \in live' : c \in live \/ c.from = Stranger
    <3>1. PICK id \in StrangerIds :
            live' = live \cup {[from |-> Stranger, run |-> upsets + 1, to |-> s, id |-> id]}
      BY <2>4 DEF StrangerConnects
    <3>2. [from |-> Stranger, run |-> upsets + 1, to |-> s, id |-> id].from = Stranger
      OBVIOUS
    <3>3. QED
      BY <3>1, <3>2
  <2>5. CASE StrangerLeaves \/ UNCHANGED vars
    BY <2>5 DEF StrangerLeaves, vars
  <2>6. QED
    BY <1>0, <2>1, <2>2, <2>3, <2>4, <2>5, Cases
<1>3. Link(p, q) \in live
  BY <1>0, <1>1, <1>2
<1>4. ASSUME NEW s \in {p, q}, EndProcess(s) PROVE FALSE
  BY <1>0, <1>4 DEF EndProcess, Exit
<1>5. QED
  BY <1>3, <1>4

(* A party that has got a share goes on with the connection it came over.  *)
LEMMA GotNext ==
  ASSUME RunInv, [MeterNext]_allVars, NEW p \in Party, NEW q \in Party, p # q,
         Got(p, q)' # {}
  PROVE  /\ ~EndProcess(p) /\ main[p] # "off" /\ Linked(p, q) /\ q < n[p]
         /\ main'[p] # "off" /\ starts'[p] = starts[p]
         /\ Linked(p, q)' /\ Link(p, q)' = Link(p, q)
         /\ Returned(p) => Returned(p)' /\ fd'[p] = fd[p]
<1>1. ~EndProcess(p)
  <2>1. ASSUME EndProcess(p) PROVE Got(p, q)' = {}
    <3>1. received'[p] = NoShare /\ NoShare[q] = 0
      BY <2>1 DEF EndProcess, RunInv, ExchangeTypeOK, NoShare
    <3>2. Inbox(p, q)' = {}
      BY <2>1 DEF EndProcess, Inbox, Reader
    <3>3. QED
      BY <3>1, <3>2, GotIsNext
  <2>2. QED
    BY <2>1
<1>2. Linked(p, q) /\ q < n[p]
  <2>1. PICK i \in Got(p, q)' : TRUE
    OBVIOUS
  <2>2. CASE i \in Got(p, q)
    <3>1. p \in Nat /\ q \in Nat
      BY RunFacts
    <3>2. QED
      BY <2>2, <3>1, GotRuns DEF Linked
  <2>3. CASE Arrives(q, p)
    <3>1. p = peer[q] /\ fd[q][p] \in live /\ SendTurn(q)
      BY <2>3 DEF Arrives, Send
    <3>2. QED
      BY <3>1, LiveSend
  <2>4. QED
    BY <2>1, <2>2, <2>3, GotStep
<1>3. main[p] # "off"
  BY <1>2, LinkFacts
<1>4. QED
  BY <1>1, <1>2, <1>3, LinkStays

-----------------------------------------------------------------------------
(* Counting, step by step.                                                 *)
LEMMA Alone ==
  ASSUME RunInv, NEW s \in Party, Send(s) \/ Recv(s), NEW p \in Party
  PROVE  /\ ~EndProcess(p) /\ (Send(p) \/ Recv(p) => p = s)
         /\ ~(Send(p) /\ Recv(p))
<1>1. TypeOK /\ ExchangeTypeOK
  BY DEF RunInv, IInv
<1>2. main' = main
  BY DEF Send, Recv, vars
<1>3. ASSUME EndProcess(p) PROVE FALSE
  BY <1>1, <1>2, <1>3 DEF EndProcess, Exit, TypeOK
<1>4. ASSUME Send(p) \/ Recv(p), p # s PROVE FALSE
  <2>1. half'[p] = 1 - half[p] /\ half'[p] = half[p] /\ half[p] \in {0, 1}
    BY <1>1, <1>4 DEF Send, Recv, NextCall, ExchangeTypeOK
  <2>2. QED
    BY <2>1
<1>5. ~(Send(p) /\ Recv(p))
  BY DEF Send, Recv, RecvTurn
<1>6. QED
  BY <1>3, <1>4, <1>5

LEMMA CountSteps ==
  ASSUME RunInv, [MeterNext]_allVars, NEW p \in Party, NEW q \in Party, p # q
  PROVE  \/ Sent(p, q)' = Sent(p, q) /\ Received(p, q)' = Received(p, q)
         \/ /\ Send(p) /\ q = peer[p] /\ Sent(p, q) = round[p] - 1
            /\ Sent(p, q)' = round[p] /\ Received(p, q)' = Received(p, q)
         \/ /\ Recv(p) /\ q = peer[p] /\ Received(p, q) = round[p] - 1
            /\ Received(p, q)' = round[p] /\ Sent(p, q)' = Sent(p, q)
         \/ /\ ComputePartial(p) /\ n[p] <= q /\ Sent(p, q) = 0 /\ Received(p, q) = 0
            /\ Sent(p, q)' = 1 /\ Received(p, q)' = 1
         \/ EndProcess(p) /\ Sent(p, q)' = 0 /\ Received(p, q)' = 0
<1>0. /\ Base /\ LoopInv /\ ExchangeTypeOK /\ TypeOK
      /\ p \in Nat /\ q \in Nat /\ n[p] \in Nat
      /\ \A x \in Party : x \in Nat /\ round[x] \in 0 .. 2 /\ half[x] \in {0, 1}
                           /\ peer[x] \in Nat
  BY RunFacts, PartyFacts DEF ExchangeTypeOK
<1> DEFINE Same == UNCHANGED <<round[p], peer[p], half[p]>>
<1>1. Same => Sent(p, q)' = Sent(p, q) /\ Received(p, q)' = Received(p, q)
  BY DEF Sent, Received, Exchanged, Between
<1>2. CASE Quiet
  BY <1>1, <1>2 DEF Quiet, exchange
<1>3. ASSUME NEW s \in Party, s # p,
             SplitShares(s) \/ Send(s) \/ Recv(s) \/ ComputePartial(s) \/ EndProcess(s)
      PROVE  Same
  BY <1>0, <1>3 DEF SplitShares, Send, Recv, ComputePartial, EndProcess, NextCall,
     ExchangeTypeOK
<1>4. CASE SplitShares(p)
  <2>1. round[p] = 0 /\ half[p] = 0 /\ round'[p] = 1 /\ half'[p] = 0
        /\ peer'[p] = FirstPeer(p)
    BY <1>0, <1>4 DEF SplitShares, LoopInv, ExchangeTypeOK
  <2>2. ~(q < FirstPeer(p))
    BY <1>0 DEF FirstPeer
  <2>3. QED
    BY <2>1, <2>2 DEF Sent, Received, Exchanged, Between
<1>5. CASE ComputePartial(p)
  <2>1. /\ round[p] = 1 /\ half[p] = 0 /\ peer[p] = n[p]
        /\ round'[p] = 2 /\ half'[p] = 0 /\ peer'[p] = FirstPeer(p)
    BY <1>0, <1>5 DEF ComputePartial, LoopInv, ExchangeTypeOK
  <2>2. ~(q < FirstPeer(p))
    BY <1>0 DEF FirstPeer
  <2>3. /\ Sent(p, q) = IF q < n[p] THEN 1 ELSE 0
        /\ Received(p, q) = IF q < n[p] THEN 1 ELSE 0
    BY <2>1 DEF Sent, Received, Exchanged, Between
  <2>4. Sent(p, q)' = 1 /\ Received(p, q)' = 1
    BY <2>1, <2>2 DEF Sent, Received, Exchanged, Between
  <2>5. QED
    BY <1>0, <1>5, <2>3, <2>4
<1>6. CASE EndProcess(p)
  <2>1. round'[p] = 0 /\ half'[p] = 0
    BY <1>0, <1>6 DEF EndProcess, ExchangeTypeOK
  <2>2. QED
    BY <1>6, <2>1 DEF Sent, Received, Exchanged, Between
<1>7. CASE Send(p)
  <2>1. InExchange(p) /\ NextCall(p) /\ SendTurn(p)
    BY <1>7 DEF Send, SendTurn
  <2>2. peer[p] \in Party /\ Sent(p, peer[p]) = round[p] - 1
    BY <1>0, <2>1, TurnCounts
  <2>3. CASE q = peer[p]
    BY <1>0, <1>7, <2>1, <2>2, <2>3, CallCounts
  <2>4. CASE q # peer[p]
    BY <1>0, <2>1, <2>4, CallCounts
  <2>5. QED
    BY <2>3, <2>4
<1>8. CASE Recv(p)
  <2>1. InExchange(p) /\ NextCall(p) /\ RecvTurn(p)
    BY <1>8 DEF Recv, RecvTurn
  <2>2. peer[p] \in Party /\ Received(p, peer[p]) = round[p] - 1
    BY <1>0, <2>1, TurnCounts
  <2>3. CASE q = peer[p]
    BY <1>0, <1>8, <2>1, <2>2, <2>3, CallCounts
  <2>4. CASE q # peer[p]
    BY <1>0, <2>1, <2>4, CallCounts
  <2>5. QED
    BY <2>3, <2>4
<1>9. QED
  BY <1>1, <1>2, <1>3, <1>4, <1>5, <1>6, <1>7, <1>8, RunCases

LEMMA CountsGrow ==
  ASSUME RunInv, [MeterNext]_allVars, NEW p \in Party, NEW q \in Party, p # q,
         ~EndProcess(p)
  PROVE  /\ Sent(p, q) <= Sent(p, q)' /\ Received(p, q) <= Received(p, q)'
         /\ Sent(p, q) \in 0 .. 2 /\ Received(p, q) \in 0 .. 2
<1>1. Sent(p, q) \in 0 .. 2 /\ Received(p, q) \in 0 .. 2 /\ round[p] \in 0 .. 2
  BY CountFacts, RunFacts DEF ExchangeTypeOK
<1>2. QED
  BY <1>1, CountSteps

(* A message stays until its reader takes it or ends.                      *)
LEMMA InboxKeeps ==
  ASSUME RunInv, [MeterNext]_allVars, NEW p \in Party, NEW q \in Party,
         NEW m \in Inbox(p, q), ~EndProcess(p), ~(Recv(p) /\ q = peer[p])
  PROVE  m \in Inbox(p, q)'
<1>1. m \in wire /\ m.by = q /\ Reader(m) = p
  BY DEF Inbox
<1>2. CASE Quiet \/ \E s \in Party : SplitShares(s) \/ ComputePartial(s) \/ Send(s)
  BY <1>1, <1>2 DEF Quiet, exchange, SplitShares, ComputePartial, Send, Inbox, Reader
<1>3. ASSUME NEW s \in Party, EndProcess(s) PROVE m \in wire'
  BY <1>1, <1>3 DEF EndProcess
<1>4. ASSUME NEW s \in Party, Recv(s) PROVE m \in wire'
  <2>1. PICK d \in Party : d = peer[s]
    BY <1>4, RunFacts, TurnCounts DEF Recv, RecvTurn
  <2>2. PICK o \in Inbox(s, d) : wire' = wire \ {o}
    BY <1>4, <2>1, RecvEffect
  <2>3. o.by = d /\ Reader(o) = s
    BY DEF Inbox
  <2>4. m # o
    BY <1>1, <1>4, <2>1, <2>3
  <2>5. QED
    BY <1>1, <2>2, <2>4
<1>5. QED
  BY <1>1, <1>2, <1>3, <1>4, RunCases DEF Inbox, Reader

(* In the second round the shares are those of the first.                  *)
LEMMA SecondRound ==
  ASSUME RunInv, [MeterNext]_allVars, NEW q \in Party, round[q] = 2, ~EndProcess(q)
  PROVE  round'[q] = 2 /\ received'[q] = received[q]
<1>0. round \in [Party -> 0 .. 2]
      /\ received \in [Party -> [Party -> 0 .. (MaxUpsets + 1)]]
  BY DEF RunInv, ExchangeTypeOK
<1>1. CASE Quiet
  BY <1>1 DEF Quiet, exchange
<1>2. ASSUME NEW s \in Party,
             SplitShares(s) \/ Send(s) \/ ComputePartial(s) \/ EndProcess(s)
      PROVE  round'[q] = 2 /\ received'[q] = received[q]
  BY <1>0, <1>2 DEF SplitShares, Send, ComputePartial, EndProcess, NextCall
<1>3. ASSUME NEW s \in Party, Recv(s)
      PROVE  round'[q] = 2 /\ received'[q] = received[q]
  <2>1. PICK d \in Party : d = peer[s]
    BY <1>3, RunFacts, TurnCounts DEF Recv, RecvTurn
  <2>2. /\ round' = round /\ round[s] \in {1, 2}
        /\ round[s] = 2 => received' = received
        /\ round[s] = 1 =>
             \E m \in Inbox(s, d) : received' = [received EXCEPT ![s][d] = m.of[d]]
    BY <1>3, <2>1, RecvEffect
  <2>3. QED
    BY <1>0, <2>2
<1>4. QED
  BY <1>1, <1>2, <1>3, RunCases

-----------------------------------------------------------------------------
(* The parts of the invariant are kept.                                    *)
LEMMA LoopNext ==
  ASSUME RunInv, [MeterNext]_allVars
  PROVE  LoopInv'
<1> SUFFICES ASSUME NEW p \in Party PROVE LoopInv!(p)'
  BY DEF LoopInv
<1>0. /\ Base /\ IInv /\ TypeOK /\ ControlInv /\ LoopInv /\ ExchangeTypeOK /\ LoopInv!(p)
      /\ p \in Nat /\ n[p] \in Nat /\ p < n[p] /\ starts[p] \in Nat
      /\ \A x \in Party : x \in Nat
  BY RunFacts DEF LoopInv, ControlInv
<1>1. n' = n
  BY PartyStep
<1>2. /\ round \in [Party -> 0 .. 2] /\ peer \in [Party -> 0 .. N]
      /\ half \in [Party -> {0, 1}] /\ agree \in [Party -> BOOLEAN]
      /\ received \in [Party -> [Party -> 0 .. (MaxUpsets + 1)]]
      /\ main \in [Party -> {"off", "connect", "handshake", "record", "wait", "returned"}]
  BY <1>0 DEF ExchangeTypeOK, TypeOK
<1>3. ASSUME UNCHANGED <<round[p], peer[p], half[p], received[p], agree[p]>>,
             Returned(p) => Returned(p)' /\ starts'[p] = starts[p]
      PROVE  LoopInv!(p)'
  <2>1. \A q \in Party : Received(p, q)' = Received(p, q)
    BY <1>3 DEF Received, Exchanged, Between
  <2>2. NoShare' = NoShare
    BY DEF NoShare
  <2>3. QED
    BY <1>0, <1>1, <1>3, <2>1, <2>2
<1>4. CASE Quiet
  <2>1. Returned(p) => Returned(p)' /\ starts'[p] = starts[p]
    BY <1>0, <1>4, QuietParty DEF Returned
  <2>2. QED
    BY <1>3, <1>4, <2>1 DEF Quiet, exchange
<1>5. ASSUME NEW s \in Party, s # p,
             SplitShares(s) \/ Send(s) \/ Recv(s) \/ ComputePartial(s) \/ EndProcess(s)
      PROVE  LoopInv!(p)'
  <2>1. UNCHANGED <<round[p], peer[p], half[p], received[p], agree[p], main[p], starts[p]>>
    BY <1>2, <1>5 DEF SplitShares, Send, Recv, ComputePartial, EndProcess, Exit, NextCall,
       vars
  <2>2. QED
    BY <1>3, <2>1 DEF Returned
<1>6. CASE SplitShares(p)
  <2>1. /\ Returned(p) /\ round[p] = 0 /\ half[p] = 0 /\ received[p] = NoShare
        /\ round'[p] = 1 /\ half'[p] = 0 /\ peer'[p] = FirstPeer(p)
        /\ received'[p] = [received[p] EXCEPT ![p] = starts[p]]
        /\ UNCHANGED vars
    BY <1>0, <1>2, <1>6 DEF SplitShares
  <2>2. received'[p][p] = starts[p] /\ \A q \in Party : q # p => received'[p][q] = 0
    BY <1>2, <2>1 DEF NoShare
  <2>3. FirstPeer(p) # p /\ FirstPeer(p) <= n[p] /\ \A q \in Party : q # p => ~(q < FirstPeer(p))
    BY <1>0 DEF FirstPeer
  <2>4. \A q \in Party : q # p => Received(p, q)' = 0
    BY <2>1, <2>3 DEF Received, Exchanged, Between
  <2>5. QED
    BY <2>1, <2>2, <2>3, <2>4 DEF vars, Returned
<1>7. CASE ComputePartial(p)
  <2>1. /\ Returned(p) /\ round[p] = 1 /\ peer[p] = n[p] /\ half[p] = 0
        /\ round'[p] = 2 /\ half'[p] = 0 /\ peer'[p] = FirstPeer(p)
        /\ received' = received /\ UNCHANGED vars
    BY <1>0, <1>2, <1>7 DEF ComputePartial
  <2>2. FirstPeer(p) # p /\ FirstPeer(p) <= n[p]
    BY <1>0 DEF FirstPeer
  <2>3. ~Send(p) /\ ~Recv(p) /\ ~EndProcess(p)
    <3>1. ~InExchange(p)
      BY <1>0, <2>1 DEF InExchange
    <3>2. ~EndProcess(p)
      BY <1>2, <2>1 DEF EndProcess, Exit, vars, Returned
    <3>3. QED
      BY <3>1, <3>2 DEF Send, Recv, SendTurn, RecvTurn
  <2>4. \A q \in Party : q # p /\ q < n[p] => Received(p, q)' = Received(p, q)
    <3> SUFFICES ASSUME NEW q \in Party, q # p, q < n[p]
                 PROVE  Received(p, q)' = Received(p, q)
      OBVIOUS
    <3>1. ~(n[p] <= q)
      BY <1>0
    <3>2. QED
      BY <2>3, <3>1, CountSteps
  <2>5. QED
    BY <1>0, <1>1, <2>1, <2>2, <2>4 DEF vars, Returned
<1>8. CASE EndProcess(p)
  <2>1. /\ round'[p] = 0 /\ half'[p] = 0 /\ received'[p] = NoShare /\ agree'[p] = TRUE
    BY <1>2, <1>8 DEF EndProcess
  <2>2. NoShare' = NoShare
    BY DEF NoShare
  <2>3. QED
    BY <2>1, <2>2
<1>9. CASE Send(p)
  <2>1. PICK d \in Party : d = peer[p]
    BY <1>0, <1>9, TurnCounts DEF Send, SendTurn
  <2>2. /\ UNCHANGED <<vars, received, agree, round>> /\ InExchange(p) /\ NextCall(p)
        /\ round[p] # 0
    <3>1. UNCHANGED <<vars, received, agree, round>>
      BY <1>9, <2>1, SendEffect
    <3>2. QED
      BY <1>9, <3>1 DEF Send, SendTurn, InExchange
  <2>3. peer'[p] # p /\ peer'[p] <= n[p] /\ (peer'[p] = n[p] => half'[p] = 0)
    BY <1>0, <2>2, CallCounts
  <2>4. ~Recv(p) /\ ~EndProcess(p) /\ ~ComputePartial(p)
    <3>1. ~ComputePartial(p)
      BY <1>2, <2>2 DEF ComputePartial
    <3>2. QED
      BY <1>9, <3>1, Alone
  <2>5. \A q \in Party : q # p => Received(p, q)' = Received(p, q)
    BY <2>4, CountSteps
  <2>6. QED
    BY <1>0, <2>2, <2>3, <2>5 DEF vars, Returned
<1>10. CASE Recv(p)
  <2>1. PICK d \in Party : d = peer[p]
    BY <1>0, <1>10, TurnCounts DEF Recv, RecvTurn
  <2>2. /\ UNCHANGED <<vars, round>> /\ InExchange(p) /\ NextCall(p) /\ round[p] \in {1, 2}
        /\ d # p /\ d < n[p] /\ RecvTurn(p)
    BY <1>10, <2>1, RecvEffect DEF Recv, RecvTurn
  <2>3. peer'[p] # p /\ peer'[p] <= n[p] /\ (peer'[p] = n[p] => half'[p] = 0)
    BY <1>0, <2>2, CallCounts
  <2>4. /\ Received(p, d)' = round[p] /\ Received(p, d) = round[p] - 1
        /\ \A q \in Party : q # p /\ q # d => Received(p, q)' = Received(p, q)
    BY <1>0, <2>1, <2>2, CallCounts, TurnCounts
  <2>5. PICK m \in Inbox(p, d) :
          /\ m.part = round[p]
          /\ round[p] = 1 => received' = [received EXCEPT ![p][d] = m.of[d]]
          /\ round[p] = 2 => received' = received
    BY <1>10, <2>1, RecvEffect
  <2>6. m.part = 1 => m.of[d] # 0
    BY DEF RunInv, ContentInv
  <2>7. /\ received'[p][d] # 0
        /\ \A q \in Party : q # d => received'[p][q] = received[p][q]
    <3>1. CASE round[p] = 1
      BY <1>2, <2>5, <2>6, <3>1
    <3>2. CASE round[p] = 2
      BY <1>0, <2>2, <2>4, <2>5, <3>2
    <3>3. QED
      BY <2>2, <3>1, <3>2
  <2>8. QED
    BY <1>0, <2>2, <2>3, <2>4, <2>7 DEF vars, Returned
<1>11. QED
  BY <1>4, <1>5, <1>6, <1>7, <1>8, <1>9, <1>10, RunCases

LEMMA InboxNext ==
  ASSUME RunInv, [MeterNext]_allVars
  PROVE  InboxInv'
<1>0. InboxInv /\ ExchangeTypeOK /\ n' = n
  BY PartyStep, PartyFacts DEF RunInv
<1>1. ASSUME NEW m \in wire' PROVE Reader(m) \in Party
  <2>1. CASE m \in wire
    BY <1>0, <2>1 DEF InboxInv
  <2>2. CASE m \notin wire
    <3>1. PICK s \in Party, d \in Party : Arrives(s, d) /\ m = NewMessage(s)
      BY <2>2, WireStep
    <3>2. QED
      BY <3>1, ArrivesFacts
  <2>3. QED
    BY <2>1, <2>2
<1>2. ASSUME NEW p \in Party, NEW q \in Party, NEW m \in Inbox(p, q)'
      PROVE  /\ p # q /\ q < n[p] /\ p < n[q]
             /\ Linked(p, q)' /\ m.on = Link(p, q)'
  <2>1. p # q /\ q < n[p] /\ p < n[q] /\ m.on = Link(p, q)
    <3>1. CASE m \in Inbox(p, q)
      BY <1>0, <3>1, InboxIs
    <3>2. CASE Arrives(q, p) /\ m = NewMessage(q)
      <4>1. SendTurn(q) /\ p = peer[q] /\ fd[q][p] \in live /\ m.on = fd[q][p]
        BY <3>2, ArrivesFacts DEF Arrives
      <4>2. QED
        BY <4>1, LiveSend
    <3>3. QED
      BY <3>1, <3>2, InboxStep
  <2>2. Got(p, q)' # {}
    BY GotIsNext
  <2>3. Linked(p, q)' /\ Link(p, q)' = Link(p, q)
    BY <2>1, <2>2, GotNext
  <2>4. QED
    BY <2>1, <2>3
<1>3. QED
  BY <1>0, <1>1, <1>2 DEF InboxInv, Reader

(* Who has not been started again since some step.                         *)
LEMMA SameRun ==
  ASSUME RunInv, [MeterNext]_allVars, NEW q \in Party, NEW i, i \in Nat, i <= starts[q],
         i = starts'[q], main'[q] # "off"
  PROVE  /\ i = starts[q] /\ starts'[q] = starts[q] /\ main[q] # "off" /\ ~EndProcess(q)
         /\ \A r \in Party : r < q /\ Reached(q, r) => Reached(q, r)'
         /\ Returned(q) => Returned(q)' /\ fd'[q] = fd[q]
<1>1. ASSUME EndProcess(q) PROVE FALSE
  BY <1>1, RunFacts DEF EndProcess, Exit, TypeOK
<1>2. QED
  BY <1>1, PartyStep

LEMMA OrderNext ==
  ASSUME RunInv, [MeterNext]_allVars
  PROVE  OrderInv'
<1>0. OrderInv /\ InboxInv /\ ExchangeTypeOK /\ IInv
      /\ \A x \in Party : round[x] \in 0 .. 2
  BY DEF RunInv, ExchangeTypeOK
<1>1. ASSUME NEW p \in Party, NEW q \in Party, NEW m \in Inbox(p, q)'
      PROVE  /\ Received(p, q)' < m.part
             /\ \A o \in Inbox(p, q)' : o.part = m.part => o = m
             /\ (m.part = 2 /\ Received(p, q)' = 0) => \E o \in Inbox(p, q)' : o.part = 1
             /\ p < q => m.part <= Sent(p, q)'
             /\ m.part = 2 => Returned(p)' /\ Sent(p, q)' >= 1
             /\ (m.of[q] = starts'[q] /\ main'[q] # "off") => m.part <= Sent(q, p)'
  <2>0. /\ p # q /\ q < n[p] /\ p < n[q] /\ ~EndProcess(p)
        /\ Returned(p) => Returned(p)'
        /\ m.part \in {1, 2}
    <3>1. p # q /\ q < n[p] /\ p < n[q]
      BY InboxNext, PartyStep DEF InboxInv
    <3>2. Got(p, q)' # {}
      BY GotIsNext
    <3>3. m.part \in {1, 2}
      <4>1. CASE m \in Inbox(p, q)
        BY <1>0, <4>1, InboxIs
      <4>2. CASE Arrives(q, p) /\ m = NewMessage(q)
        BY <4>2, ArrivesFacts DEF SendTurn, InExchange
      <4>3. QED
        BY <4>1, <4>2, InboxStep
    <3>4. QED
      BY <3>1, <3>2, <3>3, GotNext
  <2>1. /\ Sent(p, q) <= Sent(p, q)' /\ Received(p, q) <= Received(p, q)'
        /\ Sent(p, q) \in 0 .. 2 /\ Received(p, q) \in 0 .. 2
    BY <2>0, CountsGrow
  <2>2. /\ Sent(p, q)' \in 0 .. 2 /\ Received(p, q)' \in 0 .. 2
        /\ ~(Recv(p) /\ q = peer[p]) => Received(p, q)' = Received(p, q)
        /\ (Recv(p) /\ q = peer[p]) => Received(p, q)' = round[p] /\ Received(p, q) = round[p] - 1
    <3>1. ~(n[p] <= q) /\ round[p] \in 0 .. 2
      BY <1>0, <2>0, RunFacts
    <3>2. /\ \/ Sent(p, q)' = Sent(p, q)
             \/ Sent(p, q)' = round[p]
          /\ \/ Received(p, q)' = Received(p, q)
             \/ Recv(p) /\ q = peer[p] /\ Received(p, q)' = round[p]
      BY <2>0, <3>1, CountSteps
    <3>3. (Recv(p) /\ q = peer[p]) => Received(p, q)' = round[p] /\ Received(p, q) = round[p] - 1
      <4>1. ASSUME Recv(p), q = peer[p]
            PROVE  Received(p, q)' = round[p] /\ Received(p, q) = round[p] - 1
        <5>1. InExchange(p) /\ NextCall(p) /\ RecvTurn(p)
          BY <4>1 DEF Recv, RecvTurn
        <5>2. QED
          BY <4>1, <5>1, RunFacts, CallCounts, TurnCounts
      <4>2. QED
        BY <4>1
    <3>4. QED
      BY <2>1, <3>1, <3>2, <3>3
  <2>3. CASE m \in Inbox(p, q)
    <3>0. /\ Received(p, q) < m.part
          /\ \A o \in Inbox(p, q) : o.part = m.part => o = m
          /\ (m.part = 2 /\ Received(p, q) = 0) => \E o \in Inbox(p, q) : o.part = 1
          /\ p < q => m.part <= Sent(p, q)
          /\ m.part = 2 => Returned(p) /\ Sent(p, q) >= 1
          /\ (m.of[q] = starts[q] /\ main[q] # "off") => m.part <= Sent(q, p)
      BY <1>0, <2>3 DEF OrderInv
    <3>1. Received(p, q)' < m.part
      <4>1. CASE Recv(p) /\ q = peer[p]
        <5>1. PICK o \in Inbox(p, q) : o.part = round[p] /\ wire' = wire \ {o}
          BY <4>1, RecvEffect
        <5>2. m # o
          BY <5>1 DEF Inbox
        <5>3. m.part # round[p]
          BY <3>0, <5>1, <5>2
        <5>4. QED
          BY <1>0, <2>0, <2>2, <3>0, <4>1, <5>3
      <4>2. QED
        BY <2>2, <3>0, <4>1
    <3>2. ASSUME NEW o \in Inbox(p, q)', o.part = m.part PROVE o = m
      <4>1. CASE o \in Inbox(p, q)
        BY <3>0, <3>2, <4>1
      <4>2. CASE Arrives(q, p) /\ o = NewMessage(q)
        <5>1. SendTurn(q) /\ p = peer[q] /\ fd[q][p] \in live /\ o.part = round[q]
          BY <4>2, ArrivesFacts DEF Arrives
        <5>2. m.of[q] = starts[q] /\ main[q] # "off" /\ Sent(q, p) = round[q] - 1
          <6>1. m.of[q] \in Got(p, q)
            BY <2>3, GotIs
          <6>2. QED
            BY <5>1, <6>1, LiveSend DEF Returned
        <5>3. QED
          BY <1>0, <3>0, <3>2, <5>1, <5>2
      <4>3. QED
        BY <4>1, <4>2, InboxStep
    <3>3. ASSUME m.part = 2, Received(p, q)' = 0 PROVE \E o \in Inbox(p, q)' : o.part = 1
      <4>1. ~(Recv(p) /\ q = peer[p])
        <5>1. ASSUME Recv(p), q = peer[p] PROVE FALSE
          BY <2>2, <3>3, <5>1, RecvEffect
        <5>2. QED
          BY <5>1
      <4>2. PICK o \in Inbox(p, q) : o.part = 1
        BY <2>2, <3>0, <3>3, <4>1
      <4>3. QED
        BY <2>0, <4>1, <4>2, InboxKeeps
    <3>4. /\ p < q => m.part <= Sent(p, q)'
          /\ m.part = 2 => Returned(p)' /\ Sent(p, q)' >= 1
      BY <2>0, <2>1, <2>2, <3>0
    <3>5. ASSUME m.of[q] = starts'[q], main'[q] # "off" PROVE m.part <= Sent(q, p)'
      <4>1. m.of[q] \in Nat /\ m.of[q] <= starts[q]
        BY <2>0, <2>3, GotIs, GotLive
      <4>2. m.of[q] = starts[q] /\ main[q] # "off" /\ ~EndProcess(q)
        BY <3>5, <4>1, SameRun
      <4>3. Sent(q, p) <= Sent(q, p)' /\ Sent(q, p) \in 0 .. 2
        BY <2>0, <4>2, CountsGrow
      <4>4. Sent(q, p)' \in Int
        BY <1>0, <2>0, <4>2, <4>3, CountSteps
      <4>5. QED
        BY <2>0, <3>0, <4>2, <4>3, <4>4
    <3>6. QED
      BY <3>1, <3>2, <3>3, <3>4, <3>5
  <2>4. CASE Arrives(q, p) /\ m = NewMessage(q)
    <3>0. /\ SendTurn(q) /\ p = peer[q] /\ fd[q][p] \in live /\ m.part = round[q]
          /\ Send(q) /\ round[q] \in {1, 2} /\ UNCHANGED vars
          /\ wire' = wire \cup {NewMessage(q)}
          /\ InExchange(q) /\ NextCall(q)
      BY <2>4, ArrivesFacts DEF Arrives, SendTurn, InExchange, Send
    <3>1. /\ Received(p, q) < round[q] /\ Returned(q) /\ Sent(q, p) = round[q] - 1
          /\ p < q => round[q] <= Sent(p, q)
          /\ round[q] = 2 => Returned(p) /\ Sent(p, q) >= 1
          /\ \A i \in Got(p, q) : i = starts[q]
      BY <3>0, LiveSend
    <3>2. ~Recv(p) /\ ~EndProcess(p)
      BY <3>0, Alone
    <3>3. Received(p, q)' = Received(p, q) /\ Sent(p, q)' = Sent(p, q)
      <4>1. ~Send(p)
        BY <2>0, <3>0, Alone
      <4>2. ~(n[p] <= q)
        BY <2>0, RunFacts
      <4>3. QED
        BY <2>0, <3>2, <4>1, <4>2, CountSteps
    <3>4. ASSUME NEW o \in Inbox(p, q)', o.part = m.part PROVE o = m
      <4>1. CASE o \in Inbox(p, q)
        <5>1. o.of[q] = starts[q] /\ main[q] # "off"
          BY <3>1, <4>1, GotIs DEF Returned
        <5>2. o.part <= Sent(q, p)
          BY <1>0, <4>1, <5>1 DEF OrderInv
        <5>3. QED
          BY <3>0, <3>1, <3>4, <5>2
      <4>2. CASE o = NewMessage(q)
        BY <2>4, <4>2
      <4>3. QED
        BY <4>1, <4>2, InboxStep
    <3>5. ASSUME m.part = 2, Received(p, q)' = 0 PROVE \E o \in Inbox(p, q)' : o.part = 1
      <4>1. Sent(q, p) # 0 /\ Received(p, q) = 0
        BY <3>0, <3>1, <3>3, <3>5
      <4>2. PICK o \in Inbox(p, q) : o.part = 1
        BY <2>0, <3>0, <3>1, <4>1 DEF RunInv, SentInv
      <4>3. QED
        BY <3>2, <4>2, InboxKeeps
    <3>6. Sent(q, p)' = round[q]
      BY <3>0, RunFacts, CallCounts
    <3>7. QED
      BY <2>0, <3>0, <3>1, <3>3, <3>4, <3>5, <3>6
  <2>5. QED
    BY <2>3, <2>4, InboxStep
<1>2. QED
  BY <1>1 DEF OrderInv

LEMMA ContentNext ==
  ASSUME RunInv, [MeterNext]_allVars
  PROVE  ContentInv'
<1>0. /\ ContentInv /\ InboxInv /\ ExchangeTypeOK /\ IInv /\ LoopInv /\ TypeOK /\ ControlInv
      /\ n' = n /\ \A x \in Party : round[x] \in 0 .. 2
  BY RunFacts, PartyStep, PartyFacts DEF RunInv, ExchangeTypeOK
<1>1. ASSUME NEW p \in Party, NEW q \in Party, NEW m \in Inbox(p, q)'
      PROVE  /\ m.part = 1 => \A z \in Party : m.of[z] # 0 <=> z = q
             /\ m.part = 2 => /\ m.of[p] = starts'[p]
                              /\ \A z \in Party : m.of[z] # 0 <=> z < n[q]
             /\ (m.part = 2 /\ m.of[q] = starts'[q] /\ main'[q] # "off") =>
                  round'[q] = 2 /\ m.of = received'[q]
  <2>0. /\ p # q /\ q < n[p] /\ p < n[q] /\ starts'[p] = starts[p]
    <3>1. p # q /\ q < n[p] /\ p < n[q]
      BY <1>0, InboxNext DEF InboxInv
    <3>2. Got(p, q)' # {}
      BY GotIsNext
    <3>3. QED
      BY <3>1, <3>2, GotNext
  <2>1. CASE m \in Inbox(p, q)
    <3>0. /\ m.part = 1 => \A z \in Party : m.of[z] # 0 <=> z = q
          /\ m.part = 2 => m.of[p] = starts[p] /\ \A z \in Party : m.of[z] # 0 <=> z < n[q]
          /\ (m.part = 2 /\ m.of[q] = starts[q] /\ main[q] # "off") =>
               round[q] = 2 /\ m.of = received[q]
      BY <1>0, <2>1 DEF ContentInv
    <3>1. ASSUME m.part = 2, m.of[q] = starts'[q], main'[q] # "off"
          PROVE  round'[q] = 2 /\ m.of = received'[q]
      <4>1. m.of[q] \in Nat /\ m.of[q] <= starts[q]
        BY <2>0, <2>1, GotIs, GotLive
      <4>2. m.of[q] = starts[q] /\ main[q] # "off" /\ ~EndProcess(q)
        BY <3>1, <4>1, SameRun
      <4>3. QED
        BY <3>0, <3>1, <4>2, SecondRound
    <3>2. QED
      BY <2>0, <3>0, <3>1
  <2>2. CASE Arrives(q, p) /\ m = NewMessage(q)
    <3>0. /\ SendTurn(q) /\ p = peer[q] /\ fd[q][p] \in live /\ m.part = round[q]
          /\ round[q] = 1 => m.of = [NoShare EXCEPT ![q] = starts[q]]
          /\ round[q] = 2 => m.of = received[q]
          /\ UNCHANGED <<vars, received, agree, round>>
          /\ InExchange(q)
      BY <2>2, ArrivesFacts DEF Arrives, SendTurn
    <3>1. /\ Returned(q) /\ round[q] \in {1, 2}
          /\ round[q] = 2 => received[q][p] = starts[p]
      BY <3>0, LiveSend
    <3>2. starts[q] # 0 /\ q < n[q]
      BY <1>0, <3>1 DEF ControlInv, Returned
    <3>3. CASE round[q] = 1
      BY <3>0, <3>2, <3>3 DEF NoShare
    <3>4. CASE round[q] = 2
      <4>1. ASSUME NEW z \in Party PROVE received[q][z] # 0 <=> z < n[q]
        <5>1. CASE z = q
          BY <1>0, <3>2, <3>4, <5>1 DEF LoopInv
        <5>2. CASE z # q
          <6>1. Received(q, z) # 0
            BY <1>0, <3>4, <5>2, CountFacts
          <6>2. QED
            BY <5>2, <6>1, ReceivedGot
        <5>3. QED
          BY <5>1, <5>2
      <4>2. QED
        BY <2>0, <3>0, <3>1, <3>4, <4>1
    <3>5. QED
      BY <3>1, <3>3, <3>4
  <2>3. QED
    BY <2>1, <2>2, InboxStep
<1>2. QED
  BY <1>0, <1>1 DEF ContentInv

LEMMA ShareNext ==
  ASSUME RunInv, [MeterNext]_allVars
  PROVE  ShareInv'
<1> SUFFICES ASSUME NEW p \in Party, NEW q \in Party, p # q, NEW i \in Got(p, q)'
             PROVE  /\ 1 <= i /\ i <= starts'[q]
                    /\ i = starts'[q] => main'[q] \in {"off", "returned"}
                    /\ Link(p, q)' \in live' => i = starts'[q] /\ Returned(q)'
                    /\ \A k \in Got(p, q)' : k = i
                    /\ p < q => i = fd'[p][q].run
                    /\ (q < p /\ i = starts'[q] /\ Returned(q)') => fd'[q][p] = Mine(p, q)'
                    /\ (i = starts'[q] /\ Returned(q)') => Received(p, q)' <= Sent(q, p)'
  BY DEF ShareInv
<1>0. /\ IInv /\ TypeOK /\ ControlInv /\ LoopInv /\ ExchangeTypeOK
      /\ p \in Nat /\ q \in Nat /\ starts[q] \in Nat
      /\ main \in [Party -> {"off", "connect", "handshake", "record", "wait", "returned"}]
  BY RunFacts DEF TypeOK
<1>1. /\ ~EndProcess(p) /\ main[p] # "off" /\ Linked(p, q) /\ q < n[p]
      /\ starts'[p] = starts[p] /\ Link(p, q)' = Link(p, q)
      /\ Returned(p) => fd'[p] = fd[p]
  <2>1. Got(p, q)' # {}
    OBVIOUS
  <2>2. QED
    BY <2>1, GotNext
<1>2. /\ starts[q] <= starts'[q]
      /\ \/ main[q] = "off" /\ main'[q] = "off"
         \/ starts'[q] = starts[q] + 1
         \/ main[q] # "off" /\ (Returned(q) => Returned(q)')
         \/ main'[q] = "off"
  BY PartyStep
<1>3. ASSUME NEW k \in Got(p, q)', i \in Got(p, q) PROVE k = i
  <2>1. CASE k \in Got(p, q)
    BY <1>3, <2>1, GotLive
  <2>2. CASE Arrives(q, p) /\ k = starts[q]
    <3>1. SendTurn(q) /\ p = peer[q] /\ fd[q][p] \in live
      BY <2>2, ArrivesFacts DEF Arrives
    <3>2. i = starts[q]
      BY <1>3, <3>1, LiveSend
    <3>3. QED
      BY <2>2, <3>2
  <2>3. QED
    BY <2>1, <2>2, GotStep
<1>4. CASE i \in Got(p, q)
  <2>0. /\ i \in Nat /\ 1 <= i /\ i <= starts[q]
        /\ i = starts[q] => main[q] \in {"off", "returned"}
        /\ Link(p, q) \in live => i = starts[q] /\ Returned(q)
        /\ p < q => i = fd[p][q].run /\ Returned(p)
        /\ (q < p /\ i = starts[q] /\ Returned(q)) => fd[q][p] = Mine(p, q)
        /\ (i = starts[q] /\ Returned(q)) => Received(p, q) <= Sent(q, p)
    <3>1. Got(p, q) # {}
      BY <1>4
    <3>2. p < q => Returned(p)
      BY <3>1, GotRuns
    <3>3. QED
      BY <1>4, <3>2, GotLive
  <2>1. 1 <= i /\ i <= starts'[q]
    BY <1>2, <2>0, StartsGrow, RunFacts, MeterStep
  <2>2. ASSUME i = starts'[q] PROVE main'[q] \in {"off", "returned"}
    <3>1. starts'[q] = starts[q]
      BY <1>0, <1>2, <2>0, <2>2
    <3>2. QED
      BY <1>0, <1>2, <2>0, <2>2, <3>1 DEF Returned
  <2>3. ASSUME Link(p, q)' \in live' PROVE i = starts'[q] /\ Returned(q)'
    <3>1. Link(p, q) \in live /\ ~EndProcess(q)
      BY <1>1, <2>3, LinkCloses
    <3>2. i = starts[q] /\ Returned(q) /\ main[q] # "off"
      BY <2>0, <3>1 DEF Returned
    <3>3. QED
      BY <3>1, <3>2, PartyStep
  <2>4. p < q => i = fd'[p][q].run
    BY <1>1, <2>0
  <2>5. ASSUME i = starts'[q], Returned(q)'
        PROVE  /\ i = starts[q] /\ Returned(q) /\ fd'[q] = fd[q] /\ ~EndProcess(q)
    <3>1. main'[q] # "off"
      BY <2>5 DEF Returned
    <3>2. i = starts[q] /\ main[q] # "off" /\ ~EndProcess(q)
      BY <2>0, <2>5, <3>1, SameRun
    <3>3. Returned(q)
      BY <2>0, <3>2 DEF Returned
    <3>4. fd'[q] = fd[q]
      BY <2>0, <2>5, <3>1, <3>3, SameRun
    <3>5. QED
      BY <3>2, <3>3, <3>4
  <2>6. ASSUME q < p, i = starts'[q], Returned(q)' PROVE fd'[q][p] = Mine(p, q)'
    BY <1>1, <2>0, <2>5, <2>6 DEF Mine
  <2>7. ASSUME i = starts'[q], Returned(q)' PROVE Received(p, q)' <= Sent(q, p)'
    <3>1. /\ i = starts[q] /\ Returned(q) /\ ~EndProcess(q) /\ main[q] # "off"
      BY <2>5, <2>7 DEF Returned
    <3>2. /\ Sent(q, p) <= Sent(q, p)' /\ Sent(q, p) \in 0 .. 2
          /\ Received(p, q) \in 0 .. 2 /\ Sent(q, p)' \in Int
      <4>1. round[q] \in 0 .. 2
        BY <1>0 DEF ExchangeTypeOK
      <4>2. Sent(q, p) <= Sent(q, p)' /\ Sent(q, p) \in 0 .. 2 /\ Received(p, q) \in 0 .. 2
        BY <1>1, <3>1, CountsGrow
      <4>3. QED
        BY <4>1, <4>2, <3>1, CountSteps
    <3>3. Received(p, q) <= Sent(q, p)
      BY <2>0, <3>1
    <3>4. CASE Received(p, q)' = Received(p, q)
      BY <3>2, <3>3, <3>4
    <3>5. CASE Received(p, q)' # Received(p, q)
      <4>1. ~(n[p] <= q)
        BY <1>0, <1>1, RunFacts
      <4>2. Recv(p) /\ q = peer[p] /\ Received(p, q)' = round[p]
        BY <1>1, <3>5, <4>1, CountSteps
      <4>3. PICK m \in Inbox(p, q) : m.part = round[p]
        BY <4>2, RecvEffect
      <4>4. m.of[q] = starts[q]
        BY <1>4, <3>1, GotIs, GotLive
      <4>5. m.part <= Sent(q, p)
        BY <3>1, <4>4 DEF RunInv, OrderInv
      <4>6. round[p] \in Int
        BY <1>0 DEF ExchangeTypeOK
      <4>7. QED
        BY <3>2, <4>2, <4>3, <4>5, <4>6
    <3>6. QED
      BY <3>4, <3>5
  <2>8. QED
    BY <1>3, <1>4, <2>1, <2>2, <2>3, <2>4, <2>6, <2>7
<1>5. CASE Arrives(q, p) /\ i = starts[q]
  <2>0. /\ SendTurn(q) /\ p = peer[q] /\ fd[q][p] \in live /\ Send(q)
        /\ InExchange(q) /\ NextCall(q)
        /\ UNCHANGED vars
    BY <1>5, ArrivesFacts DEF Arrives, Send, SendTurn
  <2>1. /\ Returned(q) /\ Received(p, q) < round[q]
        /\ q < p => fd[q][p] = Mine(p, q)
        /\ p < q => fd[p][q] = Mine(q, p)
        /\ \A k \in Got(p, q) : k = starts[q]
    BY <2>0, LiveSend
  <2>2. UNCHANGED <<n, starts, main, fd, live>> /\ starts[q] >= 1
    BY <1>0, <2>0, <2>1 DEF vars, ControlInv, Returned
  <2>3. \A k \in Got(p, q)' : k = i
    BY <1>5, <2>1, GotStep
  <2>4. Received(p, q)' <= Sent(q, p)'
    <3>1. ~Recv(p) /\ ~EndProcess(p)
      BY <2>0, Alone
    <3>2. ~(n[p] <= q)
      BY <1>0, <1>1, RunFacts
    <3>3. Received(p, q)' = Received(p, q)
      BY <3>1, <3>2, CountSteps
    <3>4. Sent(q, p)' = round[q]
      BY <1>0, <2>0, RunFacts, CallCounts
    <3>5. Received(p, q) \in Int /\ round[q] \in Int
      BY <1>0, CountFacts DEF ExchangeTypeOK
    <3>6. QED
      BY <2>1, <3>3, <3>4, <3>5
  <2>5. Mine(p, q)' = Mine(p, q) /\ Mine(q, p).run = starts[q]
    BY <2>2 DEF Mine
  <2>6. QED
    BY <1>0, <1>5, <2>1, <2>2, <2>3, <2>4, <2>5 DEF Returned
<1>6. QED
  BY <1>4, <1>5, GotStep

LEMMA SentNext ==
  ASSUME RunInv, [MeterNext]_allVars
  PROVE  SentInv'
<1> SUFFICES ASSUME NEW p \in Party, NEW q \in Party, p # q, Returned(q)', p < n'[q],
                    Sent(q, p)' # 0, fd'[q][p] \in live'
             PROVE  Received(p, q)' # 0 \/ \E m \in Inbox(p, q)' : m.part = 1
  BY DEF SentInv
<1>0. /\ IInv /\ TypeOK /\ ControlInv /\ LoopInv /\ ExchangeTypeOK
      /\ p \in Nat /\ q \in Nat /\ n[q] \in Nat /\ n' = n
      /\ round[q] \in 0 .. 2 /\ round[p] \in 0 .. 2
  BY RunFacts, PartyStep DEF ExchangeTypeOK
<1>1. Returned(q)
  <2>1. CASE round[q] = 0
    <3>1. Sent(q, p) = 0 /\ ~(n[q] <= p)
      BY <1>0, <2>1, CountFacts
    <3>2. Send(q)
      BY <1>0, <3>1, CountSteps
    <3>3. QED
      BY <3>2 DEF Send, SendTurn, InExchange
  <2>2. QED
    BY <1>0, <2>1 DEF LoopInv
<1>2. /\ main[q] # "off" /\ ~EndProcess(q) /\ fd'[q] = fd[q]
  <2>1. main[q] # "off"
    BY <1>1 DEF Returned
  <2>2. ~EndProcess(q)
    <3>1. ASSUME EndProcess(q) PROVE FALSE
      BY <1>0, <3>1 DEF EndProcess, Exit, Returned, TypeOK
    <3>2. QED
      BY <3>1
  <2>3. QED
    BY <1>1, <2>1, <2>2, PartyStep
<1>3. /\ fd[q][p] \in live /\ ~EndProcess(p)
  <2>1. Linked(q, p)
    BY <1>1 DEF Linked, Reached, Returned
  <2>2. fd[q][p] = Link(q, p)
    BY <1>0, <1>1, <2>1, LinkFacts
  <2>3. QED
    BY <1>0, <1>2, <2>1, <2>2, LinkCloses
<1>4. /\ Received(p, q) <= Received(p, q)' /\ Received(p, q) \in 0 .. 2
      /\ Received(p, q)' \in Int
  BY <1>0, <1>3, CountsGrow, CountSteps
<1>5. CASE Sent(q, p) # 0
  <2>1. CASE Received(p, q) # 0
    BY <1>4, <2>1
  <2>2. CASE Received(p, q) = 0
    <3>1. PICK m \in Inbox(p, q) : m.part = 1
      BY <1>0, <1>1, <1>3, <1>5, <2>2 DEF RunInv, SentInv
    <3>2. CASE Recv(p) /\ q = peer[p]
      <4>1. InExchange(p) /\ NextCall(p) /\ RecvTurn(p) /\ round[p] # 0
        BY <3>2 DEF Recv, RecvTurn, InExchange
      <4>2. Received(p, q)' = round[p]
        BY <3>2, <4>1, RunFacts, CallCounts
      <4>3. QED
        BY <4>1, <4>2
    <3>3. CASE ~(Recv(p) /\ q = peer[p])
      BY <1>3, <3>1, <3>3, InboxKeeps
    <3>4. QED
      BY <3>2, <3>3
  <2>3. QED
    BY <2>1, <2>2
<1>6. CASE Sent(q, p) = 0
  <2>1. Send(q) /\ p = peer[q] /\ Sent(q, p) = round[q] - 1
    <3>1. ~(n[q] <= p)
      BY <1>0
    <3>2. QED
      BY <1>2, <1>6, <3>1, CountSteps
  <2>2. Arrives(q, p) /\ round[q] = 1
    BY <1>0, <1>3, <1>6, <2>1 DEF Arrives
  <2>3. NewMessage(q) \in Inbox(p, q)' /\ NewMessage(q).part = 1
    BY <2>2, ArrivesFacts DEF Inbox, Reader
  <2>4. QED
    BY <2>3
<1>7. QED
  BY <1>5, <1>6

(* A party newly reaches another one only by connecting to it.             *)
LEMMA ReachedNext ==
  ASSUME Base, [Next]_vars, NEW p \in Party, NEW q \in Party, q < p, Reached(p, q)'
  PROVE  Reached(p, q) \/ (Connect(p) /\ next[p] = q)
<1> USE DEF mainVars, acceptorVars, net
<1>0. /\ p \in Nat /\ q \in Nat
      /\ main \in [Party -> {"off", "connect", "handshake", "record", "wait", "returned"}]
      /\ next \in [Party -> Nat]
  BY PartyFacts DEF Base, TypeOK
<1>1. CASE Start(p)
  BY <1>0, <1>1 DEF Start, Reached
<1>2. CASE Connect(p)
  <2>1. main'[p] = "handshake" /\ next' = next /\ main[p] = "connect"
    BY <1>0, <1>2 DEF Connect
  <2>2. QED
    BY <1>0, <1>2, <2>1 DEF Reached
<1>3. CASE SendId(p)
  BY <1>0, <1>3 DEF SendId, Reached
<1>4. CASE RecordFd(p)
  <2>1. main[p] = "record" /\ next[p] \in Nat
    BY <1>0, <1>4 DEF RecordFd
  <2>2. \/ main'[p] = "connect" /\ next'[p] = next[p] + 1
        \/ p <= next[p] + 1
    BY <1>4, RecordEffect
  <2>3. QED
    BY <1>0, <2>1, <2>2 DEF Reached
<1>5. CASE Poll(p) \/ Return(p)
  BY <1>0, <1>5 DEF Poll, Return, Reached
<1>6. CASE AcceptorThread(p) \/ AcceptFails(p)
  BY <1>6 DEF AcceptorThread, AcceptFails, Accept, Handshake, HandshakeFails,
     AcceptorEnds, Reached
<1>7. CASE Exit(p)
  BY <1>0, <1>7 DEF Exit, Reached
<1>8. CASE UNCHANGED Own(p)
  BY <1>8 DEF Own, Reached
<1>9. QED
  BY <1>1, <1>2, <1>3, <1>4, <1>5, <1>6, <1>7, <1>8, OwnSteps DEF MainThread

(* An acceptor runs only where a higher id is expected.                    *)
LEMMA AcceptorNext ==
  ASSUME Base, [Next]_vars, NEW p \in Party, acceptor'[p] # "off"
  PROVE  acceptor[p] # "off" \/ Incoming(p) > 0
<1> USE DEF mainVars, acceptorVars, net
<1>0. acceptor \in [Party -> {"off", "accept", "recv"}]
  BY DEF Base, TypeOK
<1>1. CASE Start(p)
  BY <1>0, <1>1 DEF Start
<1>2. CASE MainThread(p)
  BY <1>2 DEF MainThread, Connect, SendId, RecordFd, Poll, Return
<1>3. CASE AcceptorThread(p) \/ AcceptFails(p)
  BY <1>0, <1>3 DEF AcceptorThread, AcceptFails, Accept, Handshake, HandshakeFails,
     AcceptorEnds
<1>4. CASE Exit(p)
  BY <1>0, <1>4 DEF Exit
<1>5. CASE UNCHANGED Own(p)
  BY <1>5 DEF Own
<1>6. QED
  BY <1>1, <1>2, <1>3, <1>4, <1>5, OwnSteps

(* A party that does not run has nothing queued.                           *)
LEMMA IdleNext ==
  ASSUME Base, HeldInv, [Next]_vars, NEW p \in Party, main'[p] = "off"
  PROVE  backlog'[p] = <<>> /\ cur'[p] = None
<1> USE DEF mainVars, acceptorVars, net
<1>0. /\ main \in [Party -> {"off", "connect", "handshake", "record", "wait", "returned"}]
      /\ backlog \in [Party -> Seq(Connection)]
      /\ cur \in [Party -> Connection \cup {None}]
      /\ main[p] = "off" => backlog[p] = <<>> /\ cur[p] = None /\ acceptor[p] = "off"
  BY DEF Base, TypeOK, ControlInv, HeldInv
<1>1. CASE Exit(p)
  BY <1>0, <1>1 DEF Exit
<1>2. CASE ~Exit(p)
  <2>1. main[p] = "off" /\ UNCHANGED Own(p)
    <3>1. ~Start(p)
      <4>1. ASSUME Start(p) PROVE FALSE
        BY <1>0, <4>1 DEF Start
      <4>2. QED
        BY <4>1
    <3>2. ~MainThread(p)
      <4>1. ASSUME MainThread(p) PROVE FALSE
        BY <1>0, <4>1 DEF MainThread, Connect, SendId, RecordFd, Poll, Return
      <4>2. QED
        BY <4>1
    <3>3. ~AcceptorThread(p) /\ ~AcceptFails(p)
      <4>1. ASSUME AcceptorThread(p) \/ AcceptFails(p) PROVE FALSE
        <5>1. main' = main
          BY <4>1 DEF AcceptorThread, AcceptFails, Accept, Handshake, HandshakeFails,
             AcceptorEnds
        <5>2. acceptor[p] # "off"
          BY <4>1 DEF AcceptorThread, AcceptFails, Accept, Handshake, HandshakeFails,
             AcceptorEnds
        <5>3. QED
          BY <1>0, <5>1, <5>2
      <4>2. QED
        BY <4>1
    <3>4. QED
      BY <1>2, <3>1, <3>2, <3>3, OwnSteps DEF Own
  <2>2. acceptor[p] = "off" /\ backlog[p] = <<>> /\ cur'[p] = None
    BY <1>0, <2>1 DEF Own
  <2>3. backlog'[p] = backlog[p]
    <3>1. ASSUME NEW q \in Party, Start(q) \/ MainThread(q) PROVE backlog'[p] = backlog[p]
      <4>1. CASE Connect(q)
        <5>1. next[q] # p
          BY <2>2, <4>1 DEF Connect, Listening
        <5>2. QED
          BY <1>0, <4>1, <5>1 DEF Connect
      <4>2. CASE ~Connect(q)
        BY <3>1, <4>2 DEF Start, MainThread, SendId, RecordFd, Poll, Return
      <4>3. QED
        BY <4>1, <4>2
    <3>2. ASSUME NEW q \in Party, AcceptorThread(q) \/ AcceptFails(q)
          PROVE  backlog'[p] = backlog[p]
      BY <1>0, <2>2, <3>2 DEF AcceptorThread, AcceptFails, Accept, Handshake,
         HandshakeFails, AcceptorEnds
    <3>3. ASSUME NEW q \in Party, Exit(q) PROVE backlog'[p] = backlog[p]
      BY <1>0, <1>2, <3>3 DEF Exit
    <3>4. ASSUME NEW q \in Party, StrangerConnects(q) PROVE backlog'[p] = backlog[p]
      <4>1. q # p
        BY <2>2, <3>4 DEF StrangerConnects, Listening
      <4>2. \E s : backlog' = [backlog EXCEPT ![q] = Append(@, s)]
        BY <3>4 DEF StrangerConnects
      <4>3. QED
        BY <1>0, <4>1, <4>2
    <3>5. CASE StrangerLeaves \/ UNCHANGED vars
      BY <3>5 DEF StrangerLeaves, vars
    <3>6. QED
      BY <3>1, <3>2, <3>3, <3>4, <3>5, Cases
  <2>4. QED
    BY <2>2, <2>3
<1>3. QED
  BY <1>1, <1>2

(* What a party in its second round has got of all others.                 *)
LEMMA SecondRoundFull ==
  ASSUME RunInv, NEW q \in Party, round[q] = 2
  PROVE  Full(q)
<1> SUFFICES ASSUME NEW z \in Party, z < n[q], z # q PROVE Met(q, z)
  BY DEF Full
<1>1. Received(q, z) # 0
  BY RunFacts, CountFacts
<1>2. received[q][z] \in Got(q, z)
  BY <1>1, ReceivedGot
<1>3. QED
  BY <1>2 DEF RunInv, SizeInv

LEMMA SizeNext ==
  ASSUME RunInv, [MeterNext]_allVars
  PROVE  SizeInv'
<1>0. /\ Base /\ [Next]_vars /\ SizeInv /\ n' = n /\ IInv /\ LoopInv /\ ExchangeTypeOK
      /\ \A x \in Party : x \in Nat /\ n[x] \in Nat /\ round[x] \in 0 .. 2
  BY RunFacts, MeterStep, PartyStep, PartyFacts DEF RunInv, ExchangeTypeOK
<1>1. /\ \A x \in Party : Incoming(x)' = Incoming(x)
      /\ \A x, y \in Party : Met(x, y) => Met(x, y)'
      /\ \A x \in Party : Full(x) => Full(x)'
  BY <1>0 DEF Incoming, Met, Full
<1>2. ASSUME NEW p \in Party, acceptor'[p] # "off" PROVE Incoming(p) > 0
  BY <1>0, <1>2, AcceptorNext DEF SizeInv
<1>3. ASSUME NEW p \in Party, NEW q \in Party, q < p, Reached(p, q)'
      PROVE  Incoming(q) > 0
  <2>1. CASE Reached(p, q)
    BY <1>0, <1>3, <2>1 DEF SizeInv
  <2>2. CASE Connect(p) /\ next[p] = q
    BY <1>0, <2>2 DEF Connect, Listening, SizeInv
  <2>3. QED
    BY <1>0, <1>3, <2>1, <2>2, ReachedNext
<1>4. ASSUME NEW p \in Party, NEW q \in Party, p # q, Got(p, q)' # {}
      PROVE  Met(p, q)
  <2>1. CASE Got(p, q) # {}
    BY <1>0, <1>4, <2>1 DEF SizeInv
  <2>2. CASE Arrives(q, p)
    <3>1. SendTurn(q) /\ p = peer[q] /\ fd[q][p] \in live /\ InExchange(q)
      BY <2>2, ArrivesFacts DEF Arrives, SendTurn
    <3>2. p < n[q] /\ Returned(q) /\ round[q] \in {1, 2}
      BY <3>1, LiveSend
    <3>3. \A r \in Party : r < q => Incoming(r) > 0
      BY <1>0, <3>2 DEF SizeInv, Reached, Returned
    <3>4. ASSUME NEW a \in Party, a < q, a < p PROVE q < n[a]
      <4>1. a # q /\ a < n[q]
        BY <1>0, <1>4, <3>2, <3>4
      <4>2. Exchanged(q, a) = round[q]
        BY <1>0, <3>1, <3>4, <4>1, RunFacts, TurnCounts
      <4>3. Received(q, a) # 0
        BY <1>0, <3>2, <4>1, <4>2, RunFacts, CountFacts
      <4>4. received[q][a] \in Got(q, a)
        BY <4>1, <4>3, ReceivedGot
      <4>5. QED
        BY <1>0, <4>1, <4>4 DEF SizeInv, Met
    <3>5. QED
      BY <3>2, <3>3, <3>4 DEF Met
  <2>3. QED
    BY <1>4, <2>1, <2>2, GotStep
<1>5. ASSUME NEW m \in wire', m.part = 2 PROVE Full(m.by)
  <2>1. CASE m \in wire
    BY <1>0, <1>5, <2>1 DEF SizeInv
  <2>2. CASE m \notin wire
    <3>1. PICK s \in Party, d \in Party : Arrives(s, d) /\ m = NewMessage(s)
      BY <2>2, WireStep
    <3>2. m.by = s /\ round[s] = 2
      BY <1>5, <3>1, ArrivesFacts
    <3>3. QED
      BY <3>2, SecondRoundFull
  <2>3. QED
    BY <2>1, <2>2
<1>6. ASSUME NEW p \in Party, NEW q \in Party, q # p, q < n[p], Received(p, q)' = 2
      PROVE  Full(q)
  <2>1. CASE Received(p, q) = 2
    BY <1>0, <1>6, <2>1 DEF SizeInv
  <2>2. CASE Received(p, q) # 2
    <3>1. Recv(p) /\ q = peer[p] /\ round[p] = 2
      BY <1>0, <1>6, <2>2, CountSteps
    <3>2. PICK m \in Inbox(p, q) : m.part = 2
      BY <3>1, RecvEffect
    <3>3. QED
      BY <1>0, <3>2 DEF Inbox, SizeInv
  <2>3. QED
    BY <2>1, <2>2
<1>7. \A m \in wire' : m.by \in Party
  <2>1. ExchangeTypeOK'
    BY <1>0, ExchangeNext, RunFacts
  <2>2. QED
    BY <2>1 DEF ExchangeTypeOK, Message
<1>8. QED
  BY <1>0, <1>1, <1>2, <1>3, <1>4, <1>5, <1>6, <1>7 DEF SizeInv

(* What a party holds of a higher id is not of a later incarnation.        *)
LEMMA HeldRun ==
  ASSUME IInv, NEW p \in Party, NEW q \in Party, p < q, NEW c \in Connection,
         Holds(p, c), c.from = q
  PROVE  c.run <= starts[q] /\ c.run \in Nat
<1>0. /\ c # None /\ q # Stranger /\ c.run \in Nat
      /\ backlog[p] \in Seq(Connection)
  <2>1. q # Stranger
    BY PartyFacts DEF Stranger
  <2>2. c # None /\ c.run \in Nat
    BY ConnectionFacts, PartyFacts
  <2>3. QED
    BY <2>1, <2>2 DEF IInv, TypeOK
<1>1. CASE \E x \in Party : c.from = x /\ fd[p][x] = c
  BY <1>0, <1>1 DEF IInv, TableInv
<1>2. CASE cur[p] = c
  BY <1>0, <1>2 DEF IInv, ConnectionInv, Genuine
<1>3. CASE \E k \in 1 .. Len(backlog[p]) : backlog[p][k] = c
  BY <1>0, <1>3 DEF IInv, ConnectionInv, Genuine
<1>4. QED
  BY <1>0, <1>1, <1>2, <1>3 DEF Holds

LEMMA HeldNext ==
  ASSUME RunInv, [MeterNext]_allVars
  PROVE  HeldInv'
<1>0. /\ Base /\ IInv /\ [Next]_vars /\ HeldInv /\ TypeOK
      /\ \A x \in Party : x \in Nat
  BY RunFacts, MeterStep DEF RunInv
<1>1. ASSUME NEW p \in Party, main'[p] = "off" PROVE backlog'[p] = <<>> /\ cur'[p] = None
  BY <1>0, <1>1, IdleNext
<1>2. ASSUME NEW p \in Party, NEW q \in Party, p < q, NEW c \in Connection,
             Holds(p, c)', c.from = q
      PROVE  /\ AtLeast(q, p, starts[p])' 
             /\ (c.run = starts'[q] /\ main'[q] # "off") => Reached(q, p)'
  <2>0. /\ p # q /\ starts'[p] = starts[p] /\ starts[p] \in Nat
        /\ \/ Holds(p, c)
           \/ Connect(q) /\ next[q] = p /\ c = Mine(q, p)
    BY <1>0, <1>2, HoldsStep, RunFacts
  <2>1. CASE Holds(p, c)
    <3>1. /\ AtLeast(q, p, starts[p])
          /\ (c.run = starts[q] /\ main[q] # "off") => Reached(q, p)
      BY <1>0, <1>2, <2>1 DEF HeldInv
    <3>2. AtLeast(q, p, starts[p])'
      <4>1. PICK i : i = starts[p]
        OBVIOUS
      <4>2. AtLeast(q, p, i) /\ i <= starts[p]
        BY <2>0, <3>1, <4>1
      <4>3. AtLeast(q, p, i)'
        BY <2>0, <4>2, AtLeastStays
      <4>4. QED
        BY <2>0, <4>1, <4>3
    <3>3. ASSUME c.run = starts'[q], main'[q] # "off" PROVE Reached(q, p)'
      <4>1. c.run \in Nat /\ c.run <= starts[q]
        BY <1>0, <1>2, <2>1, HeldRun
      <4>2. c.run = starts[q] /\ main[q] # "off"
        BY <3>3, <4>1, SameRun
      <4>3. Reached(q, p)
        BY <3>1, <4>2
      <4>4. QED
        BY <1>2, <3>3, <4>1, <4>3, SameRun
    <3>4. QED
      BY <3>2, <3>3
  <2>2. CASE Connect(q) /\ next[q] = p /\ c = Mine(q, p)
    <3>1. /\ main[q] = "connect" /\ main'[q] = "handshake" /\ next' = next
      BY <1>0, <2>2 DEF Connect, TypeOK, mainVars
    <3>2. ~Linked(q, p)
      BY <1>0, <1>2, <2>2, <3>1 DEF Linked, Reached
    <3>3. Got(q, p)' = {}
      BY <2>0, <3>2, GotNext
    <3>4. QED
      BY <1>0, <1>2, <2>2, <3>1, <3>3 DEF AtLeast, Reached
  <2>3. QED
    BY <2>0, <2>1, <2>2
<1>3. QED
  BY <1>1, <1>2 DEF HeldInv

LEMMA ReplyNext ==
  ASSUME RunInv, [MeterNext]_allVars
  PROVE  ReplyInv'
<1> SUFFICES ASSUME NEW z \in Party, NEW a \in Party, a < z, Got(z, a)' # {}
             PROVE  NotOlder(a, z, starts[z])'
  BY DEF ReplyInv
<1>0. a # z /\ starts'[z] = starts[z] /\ starts[z] \in Nat
  BY RunFacts, GotNext
<1>1. PICK i : i = starts[z]
  OBVIOUS
<1>2. NotOlder(a, z, i)
  <2>1. CASE Got(z, a) # {}
    BY <1>1, <2>1 DEF RunInv, ReplyInv
  <2>2. CASE Arrives(a, z)
    <3>1. SendTurn(a) /\ z = peer[a] /\ fd[a][z] \in live
      BY <2>2, ArrivesFacts DEF Arrives
    <3>2. fd[a][z] = Mine(z, a) /\ Returned(a)
      BY <3>1, LiveSend
    <3>3. \A c \in Connection : Holds(a, c) /\ c.from = z => c = Mine(z, a)
      BY <3>2 DEF Holds
    <3>4. Mine(z, a).run = i
      BY <1>1 DEF Mine
    <3>5. QED
      BY <1>0, <1>1, <3>3, <3>4 DEF NotOlder
  <2>3. QED
    BY <1>0, <2>1, <2>2, GotStep
<1>3. NotOlder(a, z, i)'
  BY <1>0, <1>1, <1>2, NotOlderStays
<1>4. QED
  BY <1>0, <1>1, <1>3

(* Which shares are newly given.                                           *)
LEMMA GivenStep ==
  ASSUME RunInv, [MeterNext]_allVars, NEW z \in Party, NEW d \in Party, z # d,
         NEW i \in Given(z, d)'
  PROVE  i \in Given(z, d) \/ (Arrives(z, d) /\ i = starts[z])
<1>1. CASE i \in Got(d, z)'
  BY <1>1, GotStep DEF Given
<1>2. CASE i # 0 /\ \E m \in Partials(d)' : m.of[z] = i
  <2>1. PICK m \in Partials(d)' : m.of[z] = i
    BY <1>2
  <2>2. CASE m \in Partials(d)
    BY <1>2, <2>1, <2>2 DEF Given
  <2>3. CASE m.of = received[d]
    BY <1>2, <2>1, <2>3, ReceivedGot DEF Given
  <2>4. QED
    BY <2>2, <2>3, PartialStep
<1>3. QED
  BY <1>1, <1>2 DEF Given

LEMMA GivenNext ==
  ASSUME RunInv, [MeterNext]_allVars
  PROVE  GivenInv'
<1> SUFFICES ASSUME NEW z \in Party, NEW d \in Party, z # d, NEW i \in Given(z, d)'
             PROVE  /\ i <= starts'[z]
                    /\ \A w \in Party : z < w /\ w < n'[z] => AtLeast(w, z, i)'
                    /\ \A a \in Party : a < z /\ a < d => NotOlder(a, z, i)'
  BY DEF GivenInv
<1>0. /\ IInv /\ starts[z] \in Nat /\ starts'[z] \in Nat /\ starts[z] <= starts'[z]
      /\ n' = n /\ LoopInv /\ ExchangeTypeOK /\ TypeOK
      /\ \A x \in Party : x \in Nat /\ n[x] \in Nat
  BY RunFacts, StartsGrow, MeterStep, PartyStep
<1>1. /\ i <= starts[z] /\ i \in Int
      /\ \A w \in Party : z < w /\ w < n[z] => AtLeast(w, z, i)
      /\ \A a \in Party : a < z /\ a < d => NotOlder(a, z, i)
  <2>1. CASE i \in Given(z, d)
    <3>1. i \in Int
      <4>1. \A m \in wire : m.of[z] \in 0 .. (MaxUpsets + 1)
        BY <1>0 DEF ExchangeTypeOK, Message
      <4>2. CASE i \in Got(d, z)
        BY <4>2, GotLive
      <4>3. CASE \E m \in Partials(d) : m.of[z] = i
        BY <4>1, <4>3 DEF Partials
      <4>4. QED
        BY <2>1, <4>2, <4>3 DEF Given
    <3>2. QED
      BY <2>1, <3>1 DEF RunInv, GivenInv
  <2>2. CASE Arrives(z, d) /\ i = starts[z]
    <3>0. SendTurn(z) /\ d = peer[z] /\ fd[z][d] \in live /\ InExchange(z)
      BY <2>2, ArrivesFacts DEF Arrives, SendTurn
    <3>1. Returned(z) /\ d < n[z] /\ round[z] \in {1, 2}
      BY <3>0, LiveSend
    <3>2. ASSUME NEW w \in Party, z < w, w < n[z] PROVE AtLeast(w, z, i)
      <4>1. fd[z][w] \in Connection /\ fd[z][w].from = w
        BY <1>0, <3>1, <3>2, WhenReturned
      <4>2. Holds(z, fd[z][w])
        BY <4>1 DEF Holds
      <4>3. QED
        BY <2>2, <3>2, <4>1, <4>2 DEF RunInv, HeldInv
    <3>3. ASSUME NEW a \in Party, a < z, a < d PROVE NotOlder(a, z, i)
      <4>1. a # z /\ a < n[z]
        BY <1>0, <3>1, <3>3
      <4>2. Exchanged(z, a) = round[z]
        BY <1>0, <3>0, <3>3, <4>1, TurnCounts
      <4>3. Received(z, a) # 0
        BY <1>0, <3>1, <4>1, <4>2, CountFacts
      <4>4. received[z][a] \in Got(z, a)
        BY <4>1, <4>3, ReceivedGot
      <4>5. QED
        BY <2>2, <3>3, <4>4 DEF RunInv, ReplyInv
    <3>4. QED
      BY <1>0, <2>2, <3>2, <3>3
  <2>3. QED
    BY <2>1, <2>2, GivenStep
<1>2. i <= starts'[z]
  BY <1>0, <1>1
<1>3. ASSUME NEW w \in Party, z < w, w < n[z] PROVE AtLeast(w, z, i)'
  BY <1>0, <1>1, <1>3, AtLeastStays
<1>4. ASSUME NEW a \in Party, a < z, a < d PROVE NotOlder(a, z, i)'
  BY <1>0, <1>1, <1>4, NotOlderStays
<1>5. QED
  BY <1>0, <1>2, <1>3, <1>4

LEMMA LinkedNext ==
  ASSUME RunInv, [MeterNext]_allVars
  PROVE  LinkedInv'
<1> SUFFICES ASSUME NEW x \in Party, NEW y \in Party, NEW z \in Party,
                    x # y, x < z, y < z, x < n'[y], y < n'[x], z < n'[y],
                    Returned(x)', Returned(y)', fd'[x][y] = fd'[y][x],
                    NEW i \in Got(x, z)'
             PROVE  fd'[y][z].run <= i
  BY DEF LinkedInv, AtLeast
<1>0. /\ IInv /\ Base /\ TypeOK /\ LoopInv /\ ExchangeTypeOK /\ n' = n
      /\ x \in Nat /\ y \in Nat /\ z \in Nat /\ starts[z] \in Nat /\ starts[y] \in Nat
      /\ \A w \in Party : round[w] \in 0 .. 2
  BY RunFacts, PartyStep DEF ExchangeTypeOK
<1>1. Returned(x) /\ fd'[x] = fd[x] /\ main[x] # "off"
  <2>1. Linked(x, z) /\ x # z
    BY <1>0, GotNext
  <2>2. Returned(x)
    BY <1>0, <2>1 DEF Linked
  <2>3. Got(x, z)' # {}
    OBVIOUS
  <2>4. QED
    BY <1>0, <2>2, <2>3, GotNext DEF Returned
<1>2. fd'[y] = fd[y] /\ main[y] \in {"wait", "returned"} /\ starts'[y] = starts[y]
  BY PartyStep DEF Returned
<1>3. CASE Returned(y)
  <2>1. AtLeast(x, z, fd[y][z].run)
    BY <1>0, <1>1, <1>2, <1>3 DEF RunInv, LinkedInv
  <2>2. fd[y][z] \in Connection /\ fd[y][z].run <= starts[z]
    BY <1>0, <1>3, WhenReturned
  <2>3. AtLeast(x, z, fd[y][z].run)'
    <3>1. PICK r : r = fd[y][z].run
      OBVIOUS
    <3>2. AtLeast(x, z, r)'
      BY <1>0, <2>1, <2>2, <3>1, AtLeastStays
    <3>3. r' = r
      OBVIOUS
    <3>4. QED
      BY <1>2, <3>1, <3>2 DEF AtLeast
  <2>4. QED
    BY <1>2, <2>3 DEF AtLeast
<1>4. CASE ~Returned(y)
  (* Then y returns in this step, and x cannot have got a share of z.      *)
  <2>0. main[y] = "wait" /\ main'[y] = "returned"
    BY <1>2, <1>4 DEF Returned
  <2>1. Return(y) /\ UNCHANGED exchange
    <3>1. ASSUME NEW s \in Party,
                 SplitShares(s) \/ Send(s) \/ Recv(s) \/ ComputePartial(s) \/ EndProcess(s)
          PROVE  FALSE
      <4>1. main' = main \/ main' = [main EXCEPT ![s] = "off"]
        BY <3>1 DEF SplitShares, Send, Recv, ComputePartial, EndProcess, Exit, vars
      <4>2. QED
        BY <1>0, <2>0, <4>1 DEF TypeOK
    <3>2. Quiet
      BY <3>1, RunCases
    <3>3. Return(y)
      <4>1. [Next]_vars
        BY <3>2, QuietIsStep
      <4>2. CASE MainThread(y)
        BY <1>0, <2>0, <4>2 DEF MainThread, Connect, SendId, RecordFd, Poll, TypeOK,
           mainVars
      <4>3. CASE Start(y) \/ Exit(y) \/ UNCHANGED Own(y)
        BY <1>0, <2>0, <4>3 DEF Start, Exit, Own, TypeOK
      <4>4. CASE AcceptorThread(y) \/ AcceptFails(y)
        BY <1>0, <2>0, <4>4 DEF AcceptorThread, AcceptFails, Accept, Handshake,
           HandshakeFails, AcceptorEnds, mainVars
      <4>5. QED
        BY <1>0, <4>1, <4>2, <4>3, <4>4, OwnSteps
    <3>4. QED
      BY <3>2, <3>3 DEF Quiet
  <2>2. i \in Got(x, z)
    BY <2>1 DEF Got, Inbox, Reader, exchange
  <2>3. Sent(x, z) # 0
    <3>1. CASE received[x][z] # 0
      <4>1. Received(x, z) # 0
        BY <1>0, <3>1, ReceivedGot
      <4>2. QED
        BY <1>0, <4>1, CountFacts, LowerFirst
    <3>2. CASE received[x][z] = 0
      <4>1. PICK m \in Inbox(x, z) : m.of[z] = i
        BY <2>2, <3>2, GotIs
      <4>2. m.part <= Sent(x, z) /\ m.part \in {1, 2}
        BY <1>0, <4>1, InboxIs DEF RunInv, OrderInv
      <4>3. QED
        BY <4>2
    <3>3. QED
      BY <3>1, <3>2
  <2>4. received[x][y] \in Got(x, y)
    <3>1. Received(x, y) # 0
      BY <1>0, <2>3, CountFacts, Ascending
    <3>2. QED
      BY <1>0, <3>1, ReceivedGot
  <2>5. PICK k \in Got(x, y) : k = received[x][y]
    BY <2>4
  <2>6. k \in Nat /\ k <= starts[y] /\ (k = starts[y] => main[y] \in {"off", "returned"})
        /\ (x < y => k = fd[x][y].run)
    BY GotLive
  <2>7. k = starts[y]
    <3>1. CASE y < x
      <4>1. fd[y][x] = Mine(x, y) /\ Mine(x, y) \in Connection /\ Mine(x, y).from = x
        BY <1>0, <1>1, <1>2, <3>1, WhenReturned, MineFacts DEF Base
      <4>2. Holds(y, Mine(x, y))
        BY <4>1 DEF Holds
      <4>3. AtLeast(x, y, starts[y])
        BY <3>1, <4>1, <4>2 DEF RunInv, HeldInv
      <4>4. QED
        BY <1>0, <2>6, <4>3 DEF AtLeast
    <3>2. CASE x < y
      <4>1. fd[y][x] = Mine(y, x)
        BY <1>0, <2>1, <3>2, WhenReturned
      <4>2. fd[x][y].run = starts[y]
        BY <1>1, <1>2, <4>1 DEF Mine
      <4>3. QED
        BY <2>6, <3>2, <4>2
    <3>3. QED
      BY <1>0, <3>1, <3>2
  <2>8. QED
    BY <2>0, <2>6, <2>7
<1>5. QED
  BY <1>3, <1>4

LEMMA PairNext ==
  ASSUME RunInv, [MeterNext]_allVars
  PROVE  PairInv'
<1> SUFFICES ASSUME NEW a \in Party, NEW b \in Party, a < b, NEW m \in Partials(a)',
                    m.of[b] # 0, m.of[a] \in Got(b, a)'
             PROVE  starts'[b] = m.of[b]
  BY DEF PairInv
<1>0. /\ IInv /\ TypeOK /\ LoopInv /\ ExchangeTypeOK /\ InboxInv
      /\ a \in Nat /\ b \in Nat /\ a # b
  BY RunFacts, PartyFacts DEF RunInv
<1>1. starts'[b] = starts[b]
  <2>1. Got(b, a)' # {}
    OBVIOUS
  <2>2. QED
    BY <1>0, <2>1, GotNext
<1>2. CASE m \in Partials(a)
  <2>1. CASE m.of[a] \in Got(b, a)
    BY <1>1, <1>2, <2>1 DEF RunInv, PairInv
  <2>2. CASE Arrives(a, b) /\ m.of[a] = starts[a]
    <3>0. SendTurn(a) /\ b = peer[a] /\ fd[a][b] \in live
      BY <2>2, ArrivesFacts DEF Arrives
    <3>1. /\ Returned(a) /\ main[a] # "off"
          /\ round[a] = 2 => received[a][b] = starts[b]
      BY <3>0, LiveSend DEF Returned
    <3>2. m \in wire /\ m.by = a /\ m.part = 2 /\ Reader(m) \in Party
      BY <1>0, <1>2 DEF Partials, InboxInv
    <3>3. PICK r \in Party : m \in Inbox(r, a)
      BY <3>2 DEF Inbox
    <3>4. round[a] = 2 /\ m.of = received[a]
      BY <2>2, <3>1, <3>2, <3>3 DEF RunInv, ContentInv
    <3>5. QED
      BY <1>1, <3>1, <3>4
  <2>3. QED
    BY <1>0, <2>1, <2>2, GotStep
<1>3. ASSUME NEW p \in Party, Arrives(a, p), m = NewMessage(a), round[a] = 2,
             m.of = received[a]
      PROVE  starts'[b] = m.of[b]
  <2>0. SendTurn(a) /\ p = peer[a] /\ fd[a][p] \in live
    BY <1>3, ArrivesFacts DEF Arrives
  <2>1. /\ Returned(a) /\ m.of[a] = starts[a]
        /\ received[a][b] \in Got(a, b)
    BY <1>0, <1>3, <2>0, LiveSend, ReceivedGot DEF LoopInv
  <2>2. CASE m.of[a] \in Got(b, a)
    <3>1. fd[a][b] = Mine(b, a)
      BY <1>0, <2>1, <2>2, GotLive
    <3>2. received[a][b] = fd[a][b].run
      BY <1>0, <2>1, GotLive
    <3>3. QED
      BY <1>1, <1>3, <3>1, <3>2 DEF Mine
  <2>3. CASE Arrives(a, b)
    <3>1. b = peer[a] /\ fd[a][b] \in live
      BY <2>3 DEF Arrives
    <3>2. received[a][b] = starts[b]
      BY <1>3, <2>0, <3>1, LiveSend
    <3>3. QED
      BY <1>1, <1>3, <3>2
  <2>4. QED
    BY <1>0, <2>2, <2>3, GotStep
<1>4. QED
  BY <1>2, <1>3, PartialStep

(* The share of z in a partial sum that has just been sent, and the one    *)
(* that its reader has: neither can be of an older incarnation.            *)
LEMMA SumNew ==
  ASSUME RunInv, NEW p \in Party, NEW q \in Party, NEW z \in Party,
         Arrives(q, p), round[q] = 2, p # z, q # z,
         n[q] = n[p], n[z] = n[p], z < n[p]
  PROVE  /\ \A i \in Got(p, z) : i = received[q][z]
         /\ (p < q /\ q < z) => fd[p][z].run <= received[q][z]
<1>0. /\ IInv /\ TypeOK /\ LoopInv /\ ExchangeTypeOK
      /\ p \in Nat /\ q \in Nat /\ z \in Nat /\ n[p] \in Nat
      /\ SendTurn(q) /\ p = peer[q] /\ fd[q][p] \in live
  BY RunFacts, ArrivesFacts DEF Arrives
<1>1. /\ p # q /\ Returned(q) /\ Returned(p) /\ p < n[q] /\ q < n[p]
      /\ fd[q][p] = Link(p, q) /\ Linked(p, q)
  BY <1>0, LiveSend
<1>2. fd[p][q] = fd[q][p]
  BY <1>0, <1>1, LinkFacts
<1>3. received[q][z] \in Got(q, z)
  <2>1. Received(q, z) # 0
    BY <1>0, CountFacts
  <2>2. QED
    BY <2>1, ReceivedGot
<1>4. PICK k \in Got(q, z) : k = received[q][z]
  BY <1>3
<1>5. /\ k \in Nat
      /\ q < z => k = fd[q][z].run
  BY GotLive
<1>6. ASSUME p < z, q < z
      PROVE  /\ \A i \in Got(p, z) : i = k
             /\ fd[p][z].run <= k
  <2>1. AtLeast(p, z, fd[q][z].run) /\ AtLeast(q, z, fd[p][z].run)
    BY <1>0, <1>1, <1>2, <1>6 DEF RunInv, LinkedInv
  <2>2. ASSUME NEW i \in Got(p, z) PROVE i = k
    <3>1. i \in Nat /\ i = fd[p][z].run
      BY <1>0, <1>6, GotLive
    <3>2. k = fd[q][z].run
      BY <1>0, <1>6, GotLive
    <3>3. k <= i /\ i <= k
      BY <2>1, <3>1, <3>2 DEF AtLeast
    <3>4. QED
      BY <1>5, <3>1, <3>3
  <2>3. QED
    BY <2>1, <2>2 DEF AtLeast
<1>7. ASSUME NEW i \in Got(p, z), z < p \/ z < q PROVE i = k
  <2>0. i \in Nat /\ k \in Nat
    BY <1>0, GotLive
  <2>1. i \in Given(z, p) /\ k \in Given(z, q)
    BY DEF Given
  <2>2. /\ \A w \in Party : z < w /\ w < n[z] => AtLeast(w, z, i)
        /\ \A a \in Party : a < z /\ a < p => NotOlder(a, z, i)
    BY <2>1 DEF RunInv, GivenInv
  <2>3. /\ \A w \in Party : z < w /\ w < n[z] => AtLeast(w, z, k)
        /\ \A a \in Party : a < z /\ a < q => NotOlder(a, z, k)
    BY <2>1 DEF RunInv, GivenInv
  <2>4. z < p => k <= i
    BY <1>0, <1>1, <2>3 DEF AtLeast
  <2>5. z < q => i <= k
    BY <1>0, <1>1, <2>2 DEF AtLeast
  <2>6. ASSUME p < z, z < q PROVE k <= i
    <3>1. fd[p][z] \in Connection /\ fd[p][z].from = z
      BY <1>0, <1>1, <2>6, WhenReturned
    <3>2. Holds(p, fd[p][z])
      BY <3>1 DEF Holds
    <3>3. p < q
      BY <1>0, <2>6
    <3>4. k <= fd[p][z].run
      BY <2>3, <2>6, <3>1, <3>2, <3>3 DEF NotOlder
    <3>5. QED
      BY <1>0, <2>6, <3>4, GotLive
  <2>7. ASSUME q < z, z < p PROVE i <= k
    <3>1. fd[q][z] \in Connection /\ fd[q][z].from = z
      BY <1>0, <1>1, <2>7, WhenReturned
    <3>2. Holds(q, fd[q][z])
      BY <3>1 DEF Holds
    <3>3. q < p
      BY <1>0, <2>7
    <3>4. i <= fd[q][z].run
      BY <2>2, <2>7, <3>1, <3>2, <3>3 DEF NotOlder
    <3>5. k = fd[q][z].run
      BY <1>0, <2>7, GotLive
    <3>6. QED
      BY <3>4, <3>5
  <2>8. QED
    BY <1>0, <1>7, <2>0, <2>4, <2>5, <2>6, <2>7
<1>8. p < z \/ z < p
  BY <1>0
<1>9. q < z \/ z < q
  BY <1>0
<1>10. QED
  <2>1. \A i \in Got(p, z) : i = k
    BY <1>6, <1>7, <1>8, <1>9
  <2>2. (p < q /\ q < z) => fd[p][z].run <= k
    BY <1>0, <1>6
  <2>3. QED
    BY <1>4, <2>1, <2>2

(* The share of z that has just been sent to a party that already has a    *)
(* partial sum with a share of z in it: it is the same one.                *)
LEMMA SumOld ==
  ASSUME RunInv, NEW p \in Party, NEW q \in Party, NEW z \in Party, Uniform(p),
         NEW m \in Inbox(p, q), m.part = 2, Arrives(z, p),
         p # q, p # z, q # z, q < n[p], z < n[p]
  PROVE  starts[z] = m.of[z]
<1>0. /\ IInv /\ TypeOK /\ LoopInv /\ ExchangeTypeOK /\ InboxInv
      /\ p \in Nat /\ q \in Nat /\ z \in Nat /\ n[p] \in Nat
      /\ n[q] = n[p] /\ n[z] = n[p]
      /\ SendTurn(z) /\ p = peer[z] /\ fd[z][p] \in live /\ InExchange(z)
      /\ starts[z] \in Nat
  BY RunFacts, ArrivesFacts DEF Arrives, Uniform, RunInv, SendTurn
<1>1. /\ Returned(z) /\ round[z] \in {1, 2} /\ p < n[z]
      /\ p < z => fd[p][z] = Mine(z, p)
      /\ \A i \in Got(p, z) : i = starts[z]
  BY <1>0, LiveSend
<1>2. /\ m.of[z] # 0 /\ m.of[q] \in Got(p, q) /\ m \in Partials(q)
      /\ Sent(p, q) >= 1
  <2>1. m.of[z] # 0
    BY <1>0 DEF RunInv, ContentInv
  <2>2. m.of[q] \in Got(p, q)
    BY GotIs
  <2>3. m \in Partials(q)
    BY DEF Inbox, Partials
  <2>4. Sent(p, q) >= 1
    BY DEF RunInv, OrderInv
  <2>5. QED
    BY <2>1, <2>2, <2>3, <2>4
<1>3. m.of[z] \in Nat /\ m.of[z] <= starts[z] /\ m.of[q] \in Nat
  <2>1. m.of[z] \in Given(z, q)
    BY <1>2 DEF Given
  <2>2. m.of[z] \in Nat /\ m.of[q] \in Nat
    BY <1>0, InboxIs
  <2>3. QED
    BY <2>1, <2>2 DEF RunInv, GivenInv
<1>4. CASE z < q
  <2>1. Received(p, z) # 0
    BY <1>0, <1>2, <1>4, Ascending, CountFacts
  <2>2. received[p][z] \in Got(p, z)
    BY <1>0, <2>1, ReceivedGot
  <2>3. received[p][z] = m.of[z]
    BY <2>2 DEF RunInv, SumInv
  <2>4. QED
    BY <1>1, <2>2, <2>3
<1>5. CASE p < q /\ q < z
  <2>1. fd[p][z].run <= m.of[z]
    BY <1>5 DEF RunInv, SumInv
  <2>2. fd[p][z].run = starts[z]
    BY <1>0, <1>1, <1>5 DEF Mine
  <2>3. QED
    BY <1>0, <1>3, <2>1, <2>2
<1>6. CASE q < p /\ q < z
  <2>1. received[z][q] \in Got(z, q)
    <3>1. Exchanged(z, q) = round[z]
      BY <1>0, <1>6, TurnCounts
    <3>2. Received(z, q) # 0
      BY <1>0, <1>1, <3>1, CountFacts
    <3>3. QED
      BY <1>0, <3>2, ReceivedGot
  <2>2. PICK j \in Got(z, q) : j = received[z][q]
    BY <2>1
  <2>3. j \in Nat
    BY GotLive
  <2>4. j <= m.of[q]
    <3>1. j \in Given(q, z)
      BY DEF Given
    <3>2. AtLeast(p, q, j)
      BY <1>0, <1>1, <1>6, <3>1 DEF RunInv, GivenInv
    <3>3. QED
      BY <1>2, <3>2 DEF AtLeast
  <2>5. m.of[q] <= j
    <3>1. m.of[q] \in Given(q, p)
      BY <1>2 DEF Given
    <3>2. AtLeast(z, q, m.of[q])
      BY <1>0, <1>6, <3>1 DEF RunInv, GivenInv
    <3>3. QED
      BY <3>2 DEF AtLeast
  <2>6. m.of[q] = j
    BY <1>3, <2>3, <2>4, <2>5
  <2>7. QED
    BY <1>2, <1>6, <2>6 DEF RunInv, PairInv
<1>7. QED
  BY <1>0, <1>4, <1>5, <1>6

LEMMA SumNext ==
  ASSUME RunInv, [MeterNext]_allVars
  PROVE  SumInv'
<1>0. n' = n /\ TypeOK /\ \A x \in Party : x \in Nat /\ n[x] \in Nat
  BY RunFacts, PartyStep, PartyFacts
<1>1. ASSUME NEW p \in Party, NEW q \in Party, NEW z \in Party,
             Uniform(p), q < n[p], z < n[p], p # q, p # z, q # z,
             NEW m \in Inbox(p, q)', m.part = 2
      PROVE  /\ \A i \in Got(p, z)' : i = m.of[z]
             /\ (p < q /\ q < z) => fd'[p][z].run <= m.of[z]
  <2>1. CASE m \in Inbox(p, q)
    <3>1. /\ \A i \in Got(p, z) : i = m.of[z]
          /\ (p < q /\ q < z) => fd[p][z].run <= m.of[z]
      BY <1>1, <2>1 DEF RunInv, SumInv
    <3>2. fd'[p] = fd[p]
      <4>1. Returned(p)
        BY <1>1, <2>1 DEF RunInv, OrderInv
      <4>2. Got(p, q)' # {}
        BY GotIsNext
      <4>3. QED
        BY <1>1, <4>1, <4>2, GotNext
    <3>3. ASSUME Arrives(z, p) PROVE starts[z] = m.of[z]
      BY <1>1, <2>1, <3>3, SumOld
    <3>4. \A i \in Got(p, z)' : i = m.of[z]
      BY <1>1, <3>1, <3>3, GotStep
    <3>5. QED
      BY <3>1, <3>2, <3>4
  <2>2. CASE Arrives(q, p) /\ m = NewMessage(q)
    <3>1. /\ round[q] = 2 /\ m.of = received[q] /\ UNCHANGED vars /\ Send(q)
          /\ n[q] = n[p] /\ n[z] = n[p]
      BY <1>1, <2>2, ArrivesFacts DEF Uniform, Arrives
    <3>2. /\ \A i \in Got(p, z) : i = m.of[z]
          /\ (p < q /\ q < z) => fd[p][z].run <= m.of[z]
      BY <1>1, <2>2, <3>1, SumNew
    <3>3. ~Arrives(z, p)
      BY <1>1, <3>1, Alone DEF Arrives
    <3>4. \A i \in Got(p, z)' : i = m.of[z]
      BY <1>1, <3>2, <3>3, GotStep
    <3>5. QED
      BY <3>1, <3>2, <3>4 DEF vars
  <2>3. QED
    BY <2>1, <2>2, InboxStep
<1>2. \A p \in Party : Uniform(p)' <=> Uniform(p)
  BY <1>0 DEF Uniform
<1>3. QED
  BY <1>0, <1>1, <1>2 DEF SumInv

LEMMA AgreeNext ==
  ASSUME RunInv, [MeterNext]_allVars
  PROVE  AgreeInv'
<1> SUFFICES ASSUME NEW p \in Party, Uniform(p)' PROVE agree'[p]
  BY DEF AgreeInv
<1>0. /\ n' = n /\ TypeOK /\ LoopInv /\ ExchangeTypeOK /\ agree \in [Party -> BOOLEAN]
      /\ \A x \in Party : x \in Nat /\ n[x] \in Nat
  BY RunFacts, PartyStep, PartyFacts DEF ExchangeTypeOK
<1>1. Uniform(p) /\ agree[p]
  BY <1>0 DEF Uniform, RunInv, AgreeInv
<1>2. CASE Quiet
  BY <1>1, <1>2 DEF Quiet, exchange
<1>3. ASSUME NEW s \in Party,
             SplitShares(s) \/ Send(s) \/ ComputePartial(s) \/ EndProcess(s)
      PROVE  agree'[p]
  BY <1>0, <1>1, <1>3 DEF SplitShares, Send, ComputePartial, EndProcess
<1>4. ASSUME NEW s \in Party, Recv(s) PROVE agree'[p]
  <2>1. PICK d \in Party : d = peer[s]
    BY <1>0, <1>4, TurnCounts DEF Recv, RecvTurn
  <2>2. d # s /\ d < n[s] /\ round[s] \in {1, 2}
    BY <1>4, <2>1, RecvEffect
  <2>3. PICK m \in Inbox(s, d) :
          /\ m.part = round[s]
          /\ round[s] = 1 => agree' = agree
          /\ round[s] = 2 => agree' = [agree EXCEPT ![s] = @ /\ m.of = received[s]]
    BY <1>4, <2>1, RecvEffect
  <2>4. CASE round[s] = 1 \/ s # p
    BY <1>0, <1>1, <2>2, <2>3, <2>4
  <2>5. CASE round[s] = 2 /\ s = p
    <3>1. /\ m.of \in [Party -> 0 .. (MaxUpsets + 1)]
          /\ received[p] \in [Party -> 0 .. (MaxUpsets + 1)]
      BY <1>0, <2>5, InboxIs DEF ExchangeTypeOK, RunInv
    <3>2. ASSUME NEW z \in Party PROVE m.of[z] = received[p][z]
      <4>1. CASE z = p
        BY <1>0, <2>3, <2>5, <4>1 DEF RunInv, ContentInv, LoopInv
      <4>2. ASSUME z # p, z < n[p] PROVE received[p][z] \in Got(p, z)
        <5>1. Received(p, z) # 0
          BY <1>0, <2>5, <4>2, CountFacts
        <5>2. QED
          BY <4>2, <5>1, ReceivedGot
      <4>3. CASE z = d
        <5>1. m.of[d] \in Got(p, d)
          BY <2>5, GotIs
        <5>2. QED
          BY <2>2, <2>5, <4>2, <4>3, <5>1, GotLive
      <4>4. CASE z # p /\ z # d /\ z < n[p]
        BY <1>1, <2>2, <2>3, <2>5, <4>2, <4>4 DEF RunInv, SumInv
      <4>5. CASE z # p /\ ~(z < n[p])
        <5>1. n[d] = n[p]
          BY <1>1, <2>2, <2>5 DEF Uniform
        <5>2. m.of[z] = 0
          BY <2>3, <2>5, <4>5, <5>1 DEF RunInv, ContentInv
        <5>3. received[p][z] = 0
          BY <4>5, ReceivedGot
        <5>4. QED
          BY <5>2, <5>3
      <4>6. QED
        BY <4>1, <4>3, <4>4, <4>5
    <3>3. m.of = received[p]
      BY <3>1, <3>2
    <3>4. QED
      BY <1>0, <1>1, <2>3, <2>5, <3>3
  <2>6. QED
    BY <2>2, <2>4, <2>5
<1>5. QED
  BY <1>2, <1>3, <1>4, RunCases

-----------------------------------------------------------------------------
LEMMA RunInit == MeterInit => RunInv
<1> SUFFICES ASSUME MeterInit PROVE RunInv
  OBVIOUS
<1>0. /\ IInv /\ ExchangeTypeOK /\ wire = {} /\ Init
      /\ received = [p \in Party |-> NoShare] /\ agree = [p \in Party |-> TRUE]
      /\ round = [p \in Party |-> 0] /\ half = [p \in Party |-> 0]
      /\ fd = [p \in Party |-> [q \in Party |-> None]]
      /\ main = [p \in Party |-> "off"] /\ acceptor = [p \in Party |-> "off"]
      /\ backlog = [p \in Party |-> <<>>] /\ cur = [p \in Party |-> None]
  BY InvInit, ExchangeInit DEF MeterInit, Init
<1>1. \A p, q \in Party : Inbox(p, q) = {} /\ Got(p, q) = {} /\ Given(p, q) = {}
  <2>1. \A p, q \in Party : Inbox(p, q) = {} /\ Partials(p) = {}
    BY <1>0 DEF Inbox, Partials
  <2>2. \A p, q \in Party : received[p][q] = 0
    BY <1>0 DEF NoShare
  <2>3. \A p, q \in Party : Got(p, q) = {}
    BY <2>1, <2>2 DEF Got
  <2>4. QED
    BY <2>1, <2>3 DEF Given
<1>2. \A p, q \in Party : ~Returned(p) /\ ~Reached(p, q) /\ Sent(p, q) = 0 /\ Received(p, q) = 0
  BY <1>0 DEF Returned, Reached, Sent, Received, Exchanged, Between
<1>3. \A p \in Party : \A c \in Connection : ~Holds(p, c)
  <2>1. \A c \in Connection : c # None
    BY ConnectionFacts
  <2>2. \A p \in Party : Len(backlog[p]) = 0
    BY <1>0
  <2>3. QED
    BY <1>0, <2>1, <2>2 DEF Holds
<1>4. LoopInv /\ SentInv /\ LinkedInv
  BY <1>0, <1>2 DEF LoopInv, SentInv, LinkedInv
<1>5. InboxInv /\ OrderInv /\ ContentInv /\ SumInv
  BY <1>0, <1>1 DEF InboxInv, OrderInv, ContentInv, SumInv
<1>6. ShareInv /\ ReplyInv /\ GivenInv
  BY <1>1 DEF ShareInv, ReplyInv, GivenInv
<1>7. SizeInv
  BY <1>0, <1>1, <1>2 DEF SizeInv
<1>8. HeldInv
  BY <1>0, <1>3 DEF HeldInv
<1>9. PairInv /\ AgreeInv
  BY <1>0 DEF PairInv, AgreeInv, Partials
<1>10. QED
  BY <1>0, <1>4, <1>5, <1>6, <1>7, <1>8, <1>9 DEF RunInv

LEMMA RunNext == RunInv /\ [MeterNext]_allVars => RunInv'
<1> SUFFICES ASSUME RunInv, [MeterNext]_allVars PROVE RunInv'
  OBVIOUS
<1>1. IInv' /\ ExchangeTypeOK'
  BY RunFacts, MeterStep, InvNext, ExchangeNext
<1>2. QED
  BY <1>1, LoopNext, InboxNext, OrderNext, ContentNext, ShareNext, SentNext, SizeNext,
     HeldNext, ReplyNext, GivenNext, LinkedNext, PairNext, SumNext, AgreeNext DEF RunInv

(* A party that has heard from everyone in both rounds shares its n with   *)
(* all of them.                                                            *)
LEMMA SameSize ==
  ASSUME RunInv, NEW p \in Party, Succeeds(p)
  PROVE  /\ Uniform(p)
         /\ \A q \in Party : q < n[p] => received[p][q] # 0
<1>0. /\ TypeOK /\ ControlInv /\ LoopInv /\ ExchangeTypeOK /\ p \in Nat
      /\ \A x \in Party : x \in Nat /\ n[x] \in Nat /\ x < n[x] /\ n[x] <= N
      /\ round[p] = 2 /\ peer[p] = n[p]
      /\ half[p] = 0 /\ received[p][p] = starts[p] /\ Returned(p) /\ N \in Nat
  <2>1. /\ TypeOK /\ ControlInv /\ LoopInv /\ ExchangeTypeOK
        /\ round[p] = 2 /\ peer[p] = n[p] /\ Returned(p)
    BY RunFacts DEF Succeeds
  <2>2. /\ p \in Nat /\ N \in Nat
        /\ \A x \in Party : x \in Nat /\ n[x] \in Nat /\ x < n[x] /\ n[x] <= N
    BY <2>1, PartyFacts DEF TypeOK, ControlInv
  <2>3. half[p] = 0 /\ received[p][p] = starts[p]
    BY <2>1 DEF LoopInv
  <2>4. QED
    BY <2>1, <2>2, <2>3
<1>1. \A x \in Nat : x < N => x \in Party
  BY <1>0 DEF Party
<1>2. ASSUME NEW q \in Party, q # p, q < n[p]
      PROVE  received[p][q] # 0 /\ Met(p, q) /\ Full(q)
  <2>1. Received(p, q) = 2
    BY <1>0, <1>2 DEF Received, Exchanged, Between
  <2>2. received[p][q] # 0 /\ received[p][q] \in Got(p, q)
    BY <1>2, <2>1, ReceivedGot
  <2>3. QED
    BY <1>2, <2>1, <2>2 DEF RunInv, SizeInv
<1>3. Full(p)
  BY <1>2 DEF Full
<1>4. \A q \in Party : q < n[p] => Full(q)
  BY <1>2, <1>3
<1>5. ASSUME NEW q \in Party, q < n[p], n[p] < n[q] PROVE FALSE
  (* The last id that p counts knows of p and of one more.                 *)
  <2>1. PICK z \in Party : z = n[p]
    BY <1>0, <1>1, <1>5
  <2>2. PICK r \in Party : r = n[p] - 1
    BY <1>0, <1>1, <1>5
  <2>3. Full(q) /\ Full(r)
    BY <1>0, <1>4, <1>5, <2>2
  <2>4. Met(q, z)
    BY <1>0, <1>5, <2>1, <2>3 DEF Full
  <2>5. Incoming(r) > 0
    BY <1>0, <2>1, <2>2, <2>4 DEF Met
  <2>6. n[r] > n[p]
    BY <1>0, <2>2, <2>5 DEF Incoming
  <2>7. p # r
    BY <2>6, <1>0
  <2>8. Met(r, z)
    BY <1>0, <2>1, <2>2, <2>3, <2>6 DEF Full
  <2>9. p < z /\ p < r
    BY <1>0, <2>1, <2>2, <2>7
  <2>10. z < n[p]
    BY <1>0, <2>8, <2>9 DEF Met
  <2>11. QED
    BY <1>0, <2>1, <2>10
<1>6. ASSUME NEW q \in Party, q < n[p], n[q] < n[p] PROVE FALSE
  <2>1. PICK z \in Party : z = n[q]
    BY <1>0, <1>1, <1>6
  <2>2. PICK r \in Party : r = n[q] - 1
    BY <1>0, <1>1, <1>6
  <2>3. Full(r) /\ q # p
    BY <1>0, <1>4, <1>6, <2>2
  <2>4. z # p
    BY <1>0, <1>2, <1>6, <2>1, <2>3 DEF Met
  <2>5. Met(p, z)
    BY <1>0, <1>3, <1>6, <2>1, <2>4 DEF Full
  <2>6. Incoming(r) > 0
    <3>1. r < z
      BY <1>0, <2>1, <2>2
    <3>2. QED
      BY <2>5, <3>1 DEF Met
  <2>7. n[r] > n[q]
    <3>1. n[r] \in Nat /\ n[q] \in Nat
      BY <1>0
    <3>2. QED
      BY ONLY <2>2, <2>6, <3>1 DEF Incoming
  <2>8. Met(r, z)
    BY <1>0, <2>1, <2>2, <2>3, <2>7 DEF Full
  <2>9. q # r
    BY <1>0, <2>7
  <2>10. q < z /\ q < r
    BY <1>0, <2>1, <2>2, <2>9
  <2>11. QED
    BY <1>0, <2>1, <2>8, <2>10 DEF Met
<1>7. \A q \in Party : q < n[p] => n[q] = n[p]
  <2> SUFFICES ASSUME NEW q \in Party, q < n[p] PROVE n[q] = n[p]
    OBVIOUS
  <2>1. n[q] \in Nat /\ n[p] \in Nat
    BY <1>0
  <2>2. ~(n[p] < n[q]) /\ ~(n[q] < n[p])
    BY <1>5, <1>6
  <2>3. QED
    BY <2>1, <2>2
<1>8. received[p][p] # 0
  BY <1>0 DEF ControlInv, Returned
<1>9. QED
  BY <1>2, <1>7, <1>8 DEF Uniform

(* A party that returns MPC_OK has added up one share of every input, and  *)
(* all partial sums that it took are of the very same shares: of one       *)
(* incarnation of each party, in one configuration, after any number of    *)
(* restarts, failed accepts and foreign connections                        *)
(* (mpc_runner.c:69-160 over mpc_comm_tcp.c:84-226).                       *)
THEOREM OneRunCorrect == MeterSpec => []OneRun
<1>1. ASSUME RunInv PROVE OneRun
  <2> SUFFICES ASSUME NEW p \in Party, Succeeds(p)
               PROVE  agree[p] /\ \A q \in 0 .. (n[p] - 1) :
                                    received[p][q] >= 1 /\ n[q] = n[p]
    BY DEF OneRun
  <2>1. /\ Uniform(p) /\ \A q \in Party : q < n[p] => received[p][q] # 0
    BY <1>1, SameSize
  <2>2. agree[p]
    BY <1>1, <2>1 DEF RunInv, AgreeInv
  <2>3. n[p] \in Nat /\ n[p] <= N /\ received[p] \in [Party -> Nat] /\ N \in Nat
    BY <1>1, RunFacts, PartyFacts DEF TypeOK, ExchangeTypeOK
  <2>4. \A q \in 0 .. (n[p] - 1) : q \in Party /\ q < n[p]
    BY <2>3 DEF Party
  <2>5. QED
    BY <2>1, <2>2, <2>3, <2>4 DEF Uniform
<1>2. QED
  BY <1>1, RunInit, RunNext, PTL DEF MeterSpec

-----------------------------------------------------------------------------
(* Rounds without faults.  Parties that start a round again as soon as     *)
(* they can get ahead of each other, but never out of step.                *)

(* The parties have loaded the same configuration.                         *)
OneConfiguration == \A p, q \in Party : n[p] = n[q]

(* How many rounds a party has ended, and whether it has made all its      *)
(* calls towards another one in its present round.                         *)
Finished(p) == IF main[p] = "off" THEN starts[p] ELSE starts[p] - 1
DoneWith(q, p) == main[q] = "off" \/ (Returned(q) /\ Sent(q, p) = 2)

(* A party ends a round after all others have done their part in it.       *)
FinishInv ==
  \A p, q \in Party : p # q =>
    /\ Finished(p) <= starts[q]
    /\ Finished(p) = starts[q] => DoneWith(q, p)
AlignInv == \A p, q \in Party : p # q => \A i \in Got(p, q) : i = starts[p]
(* A party that is a round ahead finds no listener of the round before.    *)
ListenInv ==
  \A a, b \in Party : (Returned(a) /\ starts[a] < starts[b]) => acceptor[a] = "off"
SameRoundInv ==
  \A c \in live : /\ c.from \in Party /\ c.to \in Party /\ main[c.to] # "off"
                  /\ starts[c.to] = starts[c.from]

RoundInv == OneConfiguration /\ FinishInv /\ AlignInv /\ ListenInv /\ SameRoundInv

LEMMA RoundIsStep == [RoundsNext]_allVars => [MeterNext]_allVars
BY DEF RoundsNext, StartRound, MeterNext

(* A process ends only with MPC_OK.                                        *)
LEMMA EndsWell ==
  ASSUME RunInv, [RoundsNext]_allVars, NEW p \in Party, main[p] # "off", main'[p] = "off"
  PROVE  Succeeds(p) /\ EndProcess(p)
<1>0. /\ main \in [Party -> {"off", "connect", "handshake", "record", "wait", "returned"}]
  BY RunFacts DEF TypeOK
<1>1. ASSUME NEW q \in Party, StartRound(q) PROVE FALSE
  BY <1>0, <1>1 DEF StartRound, Launch, Start
<1>2. ASSUME NEW q \in Party, MainThread(q) PROVE FALSE
  BY <1>0, <1>2 DEF MainThread, Connect, SendId, RecordFd, Poll, Return
<1>3. ASSUME NEW q \in Party, AcceptorThread(q) PROVE FALSE
  BY <1>3 DEF AcceptorThread, Accept, Handshake, HandshakeFails, AcceptorEnds, mainVars
<1>4. ASSUME NEW q \in Party, SplitShares(q) \/ Send(q) \/ Recv(q) \/ ComputePartial(q)
      PROVE  FALSE
  BY <1>4 DEF SplitShares, Send, Recv, ComputePartial, vars
<1>5. ASSUME NEW q \in Party, Finish(q) PROVE q = p
  BY <1>0, <1>5 DEF Finish, EndProcess, Exit
<1>6. ~(UNCHANGED allVars)
  BY DEF allVars, vars
<1>7. QED
  BY <1>1, <1>2, <1>3, <1>4, <1>5, <1>6 DEF RoundsNext, Main, Exchange, Acceptor, Finish

(* With one configuration everybody is a peer of everybody.                *)
LEMMA AllPeers ==
  ASSUME TypeOK, ControlInv, OneConfiguration, NEW p \in Party
  PROVE  n[p] = N /\ \A q \in Party : q < n[p] /\ n[q] = n[p]
<1>1. N - 1 \in Party /\ N \in Nat
  BY PartyFacts DEF Party
<1>2. N - 1 < n[N - 1] /\ n[N - 1] \in Nat /\ n[N - 1] <= N
  BY <1>1, PartyFacts DEF TypeOK, ControlInv
<1>3. n[p] = N
  BY <1>1, <1>2 DEF OneConfiguration
<1>4. QED
  BY <1>3, PartyFacts DEF OneConfiguration

LEMMA FinishNext ==
  ASSUME RunInv, RoundInv, [RoundsNext]_allVars
  PROVE  FinishInv'
<1> SUFFICES ASSUME NEW p \in Party, NEW q \in Party, p # q
             PROVE  /\ Finished(p)' <= starts'[q]
                    /\ Finished(p)' = starts'[q] => DoneWith(q, p)'
  BY DEF FinishInv
<1>0. /\ TypeOK /\ ControlInv /\ LoopInv /\ ExchangeTypeOK /\ [MeterNext]_allVars
      /\ starts[p] \in Nat /\ starts[q] \in Nat
      /\ Finished(p) <= starts[q] /\ (Finished(p) = starts[q] => DoneWith(q, p))
  BY RunFacts, RoundIsStep DEF RoundInv, FinishInv
<1>1. CASE main[p] # "off" /\ main'[p] = "off"
  <2>1. Succeeds(p) /\ EndProcess(p)
    BY <1>1, EndsWell
  <2>2. Received(p, q) = 2 /\ received[p][q] \in Got(p, q)
    <3>1. round[p] = 2 /\ peer[p] = n[p] /\ q < n[p] /\ q \in Nat
      BY <1>0, <2>1, AllPeers, RunFacts DEF Succeeds, RoundInv
    <3>2. half[p] = 0
      BY <1>0, <3>1 DEF LoopInv
    <3>3. Received(p, q) = 2
      BY <3>1, <3>2 DEF Received, Exchanged, Between
    <3>4. received[p][q] # 0
      <4>1. received[p][q] # 0 <=> q < n[p] /\ Received(p, q) # 0
        BY ReceivedGot
      <4>2. QED
        BY <3>1, <3>3, <4>1
    <3>5. QED
      BY <3>3, <3>4, ReceivedGot
  <2>3. starts[p] \in Got(p, q)
    BY <2>2 DEF RoundInv, AlignInv
  <2>4. /\ starts[p] <= starts[q]
        /\ starts[p] = starts[q] =>
             main[q] = "off" \/ (Returned(q) /\ 2 <= Sent(q, p))
    BY <2>2, <2>3, GotLive DEF Returned
  <2>5. Sent(q, p) \in 0 .. 2 /\ Sent(q, p)' = Sent(q, p) /\ starts' = starts
        /\ main'[q] = main[q]
    <3>1. starts' = starts /\ main'[q] = main[q]
      BY <1>0, <2>1 DEF EndProcess, Exit, TypeOK
    <3>2. round'[q] = round[q] /\ peer'[q] = peer[q] /\ half'[q] = half[q]
      BY <1>0, <2>1 DEF EndProcess, ExchangeTypeOK
    <3>3. QED
      BY <1>0, <3>1, <3>2, CountFacts DEF Sent, Exchanged, Between
  <2>6. QED
    BY <1>1, <2>4, <2>5 DEF Finished, DoneWith, Returned
<1>2. CASE ~(main[p] # "off" /\ main'[p] = "off")
  <2>1. Finished(p)' = Finished(p)
    BY <1>0, <1>2, PartyStep DEF Finished
  <2>2. CASE main'[q] = "off"
    BY <1>0, <2>1, <2>2, PartyStep DEF DoneWith
  <2>3. CASE main[q] = "off" /\ main'[q] # "off"
    <3>1. starts'[q] = starts[q] + 1
      BY <1>0, <2>3, PartyStep
    <3>2. Finished(p) \in Int
      BY <1>0 DEF Finished
    <3>3. QED
      BY <1>0, <2>1, <3>1, <3>2
  <2>4. CASE main[q] # "off" /\ main'[q] # "off"
    <3>1. starts'[q] = starts[q] /\ (Returned(q) => Returned(q)') /\ ~EndProcess(q)
      <4>1. EndProcess(q) => main'[q] = "off"
        BY <1>0 DEF EndProcess, Exit, TypeOK
      <4>2. QED
        BY <1>0, <2>4, <4>1, PartyStep
    <3>2. /\ Sent(q, p) <= Sent(q, p)' /\ round[q] \in 0 .. 2 /\ Sent(q, p) \in 0 .. 2
          /\ Sent(q, p)' \in {Sent(q, p), round[q], 1}
      BY <1>0, <3>1, CountsGrow, CountSteps DEF ExchangeTypeOK
    <3>3. Sent(q, p) = 2 => Sent(q, p)' = 2
      BY <3>2
    <3>4. QED
      BY <1>0, <2>1, <2>4, <3>1, <3>3 DEF DoneWith
  <2>5. QED
    BY <2>2, <2>3, <2>4
<1>3. QED
  BY <1>1, <1>2

LEMMA AlignNext ==
  ASSUME RunInv, RoundInv, [RoundsNext]_allVars
  PROVE  AlignInv'
<1> SUFFICES ASSUME NEW p \in Party, NEW q \in Party, p # q, NEW i \in Got(p, q)'
             PROVE  i = starts'[p]
  BY DEF AlignInv
<1>0. [MeterNext]_allVars
  BY RoundIsStep
<1>1. starts'[p] = starts[p]
  BY <1>0, GotNext
<1>2. CASE i \in Got(p, q)
  BY <1>1, <1>2 DEF RoundInv, AlignInv
<1>3. CASE Arrives(q, p) /\ i = starts[q]
  <2>1. p = peer[q] /\ fd[q][p] \in live /\ SendTurn(q)
    BY <1>3 DEF Arrives, Send
  <2>2. {fd[q][p].from, fd[q][p].to} = {q, p}
    BY <2>1, LiveSend
  <2>3. starts[q] = starts[p]
    BY <2>1, <2>2 DEF RoundInv, SameRoundInv
  <2>4. QED
    BY <1>1, <1>3, <2>3
<1>4. QED
  BY <1>0, <1>2, <1>3, GotStep

LEMMA ListenNext ==
  ASSUME RunInv, RoundInv, [RoundsNext]_allVars
  PROVE  ListenInv'
<1> USE DEF mainVars, acceptorVars, net
<1> SUFFICES ASSUME NEW a \in Party, NEW b \in Party, Returned(a)',
                    starts'[a] < starts'[b]
             PROVE  acceptor'[a] = "off"
  BY DEF ListenInv
<1>0. /\ Base /\ [Next]_vars /\ TypeOK /\ ControlInv /\ [MeterNext]_allVars
      /\ starts[a] \in Nat /\ starts[b] \in Nat
      /\ main[a] \in {"wait", "returned"} /\ starts'[a] = starts[a] /\ starts[a] >= 1
      /\ main'[a] = "returned"
  <2>1. /\ Base /\ [Next]_vars /\ TypeOK /\ ControlInv /\ [MeterNext]_allVars
        /\ starts[a] \in Nat /\ starts[b] \in Nat /\ main'[a] = "returned"
    BY RunFacts, RoundIsStep, MeterStep DEF Returned
  <2>2. main[a] \in {"wait", "returned"} /\ starts'[a] = starts[a]
    BY <2>1, PartyStep
  <2>3. QED
    BY <2>1, <2>2 DEF ControlInv
<1>1. CASE main[a] = "wait"
  <2>1. MainThread(a)
    <3>1. ~Start(a) /\ ~Exit(a) /\ ~AcceptorThread(a) /\ ~AcceptFails(a) /\ ~UNCHANGED Own(a)
      BY <1>0, <1>1 DEF Start, Exit, TypeOK, AcceptorThread, AcceptFails, Accept,
         Handshake, HandshakeFails, AcceptorEnds, Own
    <3>2. QED
      BY <1>0, <3>1, OwnSteps
  <2>2. starts' = starts
    BY <2>1 DEF MainThread, Connect, SendId, RecordFd, Poll, Return
  <2>3. a # b /\ Finished(b) >= starts[a]
    BY <1>0, <2>2 DEF Finished
  <2>4. Finished(b) <= starts[a] /\ (Finished(b) = starts[a] => DoneWith(a, b))
    BY <2>3 DEF RoundInv, FinishInv
  <2>5. DoneWith(a, b)
    BY <1>0, <2>3, <2>4 DEF Finished
  <2>6. QED
    BY <1>1, <2>5 DEF DoneWith, Returned
<1>2. CASE main[a] = "returned" /\ starts[a] < starts[b]
  <2>1. acceptor[a] = "off"
    BY <1>2 DEF RoundInv, ListenInv, Returned
  <2>2. ~Start(a)
    BY <1>2 DEF Start
  <2>3. CASE MainThread(a)
    BY <2>1, <2>3 DEF MainThread, Connect, SendId, RecordFd, Poll, Return
  <2>4. CASE UNCHANGED Own(a)
    BY <2>1, <2>4 DEF Own
  <2>5. ~AcceptorThread(a) /\ ~AcceptFails(a)
    BY <2>1 DEF AcceptorThread, AcceptFails, Accept, Handshake, HandshakeFails, AcceptorEnds
  <2>6. CASE Exit(a)
    BY <1>0, <2>6 DEF Exit, TypeOK
  <2>7. QED
    BY <1>0, <2>2, <2>3, <2>4, <2>5, <2>6, OwnSteps
<1>3. CASE main[a] = "returned" /\ starts[b] <= starts[a]
  <2>1. /\ starts'[b] = starts[b] + 1 /\ main[b] = "off" /\ main'[b] # "off"
        /\ starts[b] = starts[a]
    BY <1>0, <1>3, PartyStep
  <2>2. Start(b)
    <3>1. /\ ~MainThread(b) /\ ~AcceptorThread(b) /\ ~AcceptFails(b) /\ ~Exit(b)
          /\ ~UNCHANGED Own(b)
      BY <1>0, <2>1 DEF MainThread, Connect, SendId, RecordFd, Poll, Return, Exit,
         TypeOK, AcceptorThread, AcceptFails, Accept, Handshake, HandshakeFails,
         AcceptorEnds, Own
    <3>2. QED
      BY <1>0, <3>1, OwnSteps
  <2>3. ListenersClosed
    <3>1. PICK q \in Party : StartRound(q)
      <4>1. ASSUME NEW q \in Party, MainThread(q) PROVE starts' = starts
        BY <4>1 DEF MainThread, Connect, SendId, RecordFd, Poll, Return
      <4>2. ASSUME NEW q \in Party, Acceptor(q) \/ Exchange(q) PROVE starts' = starts
        BY <4>2 DEF Acceptor, AcceptorThread, Accept, Handshake, HandshakeFails,
           AcceptorEnds, Exchange, SplitShares, Send, Recv, ComputePartial, Finish,
           EndProcess, Exit, vars
      <4>3. starts' # starts
        BY <1>0, <2>1
      <4>4. QED
        BY <4>1, <4>2, <4>3 DEF RoundsNext, Main, allVars, vars
    <3>2. q = b
      BY <1>0, <2>1, <3>1 DEF StartRound, Launch, Start, TypeOK
    <3>3. QED
      BY <1>0, <2>1, <3>1, <3>2 DEF StartRound
  <2>4. slots[a] = 0 /\ acceptor[a] # "recv"
    BY <1>3, WhenReturned, RunFacts DEF Returned
  <2>5. acceptor[a] = "off"
    BY <1>0, <2>3, <2>4 DEF ListenersClosed, TypeOK
  <2>6. acceptor'[a] = acceptor[a]
    BY <1>0, <1>3, <2>1, <2>2 DEF Start, TypeOK
  <2>7. QED
    BY <2>5, <2>6
<1>4. QED
  BY <1>0, <1>1, <1>2, <1>3

(* Who can connect to whom: only parties of the same round.                *)
LEMMA ConnectInStep ==
  ASSUME RunInv, RoundInv, NEW p \in Party, Connect(p), NEW j \in Party, j = next[p]
  PROVE  starts[j] = starts[p] /\ main[j] # "off" /\ main[p] # "off"
<1>0. /\ Base /\ TypeOK /\ ControlInv /\ starts[p] \in Nat /\ starts[j] \in Nat
      /\ p \in Nat /\ j \in Nat
  BY RunFacts
<1>1. main[p] = "connect" /\ Listening(j) /\ j < p
  BY <1>0 DEF Connect, ControlInv
<1>2. main[j] # "off" /\ acceptor[j] # "off"
  BY <1>0, <1>1 DEF Listening, ControlInv
<1>3. /\ Finished(p) = starts[p] - 1 /\ Finished(j) = starts[j] - 1 /\ p # j
  BY <1>0, <1>1, <1>2 DEF Finished
<1>4. ASSUME starts[j] < starts[p] PROVE FALSE
  <2>1. Finished(p) = starts[j] /\ DoneWith(j, p)
    <3>1. Finished(p) <= starts[j] /\ (Finished(p) = starts[j] => DoneWith(j, p))
      BY <1>3 DEF RoundInv, FinishInv
    <3>2. QED
      BY <1>0, <1>3, <1>4, <3>1
  <2>2. Returned(j)
    BY <1>2, <2>1 DEF DoneWith
  <2>3. QED
    BY <1>2, <1>4, <2>2 DEF RoundInv, ListenInv
<1>5. ASSUME starts[p] < starts[j] PROVE FALSE
  <2>1. Finished(j) = starts[p] /\ DoneWith(p, j)
    <3>1. Finished(j) <= starts[p] /\ (Finished(j) = starts[p] => DoneWith(p, j))
      BY <1>3 DEF RoundInv, FinishInv
    <3>2. QED
      BY <1>0, <1>3, <1>5, <3>1
  <2>2. QED
    BY <1>1, <2>1 DEF DoneWith, Returned
<1>6. QED
  BY <1>0, <1>1, <1>2, <1>4, <1>5

LEMMA SameRoundNext ==
  ASSUME RunInv, RoundInv, [RoundsNext]_allVars
  PROVE  SameRoundInv'
<1> USE DEF mainVars, acceptorVars, net
<1> SUFFICES ASSUME NEW c \in live'
             PROVE  /\ c.from \in Party /\ c.to \in Party /\ main'[c.to] # "off"
                    /\ starts'[c.to] = starts'[c.from]
  BY DEF SameRoundInv
<1>0. /\ Base /\ TypeOK /\ ControlInv /\ [MeterNext]_allVars /\ [Next]_vars /\ LiveInv
  BY RunFacts, RoundIsStep, MeterStep DEF IInv
<1>1. CASE c \in live
  <2>1. /\ c.from \in Party /\ c.to \in Party /\ main[c.to] # "off"
        /\ starts[c.to] = starts[c.from]
    BY <1>1 DEF RoundInv, SameRoundInv
  <2>2. main[c.from] # "off"
    <3>1. c.from # Stranger
      BY <2>1, PartyFacts DEF Stranger
    <3>2. QED
      BY <1>0, <1>1, <3>1 DEF LiveInv
  <2>3. starts'[c.to] = starts[c.to] /\ starts'[c.from] = starts[c.from]
    BY <1>0, <2>1, <2>2, PartyStep
  <2>4. main'[c.to] # "off"
    <3>1. ASSUME EndProcess(c.to) PROVE FALSE
      BY <3>1 DEF EndProcess, Exit
    <3>2. QED
      BY <1>0, <2>1, <3>1, PartyStep
  <2>5. QED
    BY <2>1, <2>3, <2>4
<1>2. CASE c \notin live
  <2>1. PICK p \in Party : Connect(p) /\ c = Mine(p, next[p])
    <3>1. ASSUME NEW q \in Party, StartRound(q) PROVE live' = live
      BY <3>1 DEF StartRound, Launch, Start
    <3>2. ASSUME NEW q \in Party, MainThread(q), ~Connect(q) PROVE live' = live
      BY <3>2 DEF MainThread, SendId, RecordFd, Poll, Return
    <3>3. ASSUME NEW q \in Party, Acceptor(q) \/ Exchange(q) PROVE live' \subseteq live
      BY <3>3 DEF Acceptor, AcceptorThread, Accept, Handshake, HandshakeFails,
         AcceptorEnds, Exchange, SplitShares, Send, Recv, ComputePartial, Finish,
         EndProcess, Exit, vars
    <3>4. PICK q \in Party : Connect(q)
      BY <1>2, <3>1, <3>2, <3>3 DEF RoundsNext, Main, allVars, vars
    <3>5. QED
      BY <1>2, <3>4 DEF Connect
  <2>2. PICK j \in Party : j = next[p]
    BY <1>0, <2>1, NextParty DEF Connect
  <2>3. starts[j] = starts[p] /\ main[j] # "off" /\ main[p] # "off" /\ j # p
    <3>1. j # p
      BY <1>0, <2>1, <2>2, PartyFacts DEF ControlInv, Connect
    <3>2. QED
      BY <2>1, <2>2, <3>1, ConnectInStep
  <2>4. /\ starts' = starts /\ main'[j] = main[j]
    BY <1>0, <2>1, <2>3 DEF Connect, TypeOK
  <2>5. c.from = p /\ c.to = j
    BY <2>1, <2>2 DEF Mine
  <2>6. QED
    BY <2>3, <2>4, <2>5
<1>3. QED
  BY <1>1, <1>2

LEMMA RoundInit == MeterInit /\ OneConfiguration => RoundInv
<1> SUFFICES ASSUME MeterInit, OneConfiguration PROVE RoundInv
  OBVIOUS
<1>1. /\ main = [p \in Party |-> "off"] /\ starts = [p \in Party |-> 0] /\ live = {}
      /\ wire = {} /\ received = [p \in Party |-> NoShare]
  BY DEF MeterInit, Init
<1>2. \A p, q \in Party : Got(p, q) = {}
  <2>1. \A p, q \in Party : received[p][q] = 0 /\ Inbox(p, q) = {}
    BY <1>1 DEF NoShare, Inbox
  <2>2. QED
    BY <2>1 DEF Got
<1>3. FinishInv /\ AlignInv /\ ListenInv /\ SameRoundInv
  BY <1>1, <1>2 DEF FinishInv, AlignInv, ListenInv, SameRoundInv, Finished, DoneWith, Returned
<1>4. QED
  BY <1>3 DEF RoundInv

LEMMA RoundNext == RunInv /\ RoundInv /\ [RoundsNext]_allVars => RoundInv'
<1> SUFFICES ASSUME RunInv, RoundInv, [RoundsNext]_allVars PROVE RoundInv'
  OBVIOUS
<1>1. OneConfiguration'
  <2>1. 0 \in Party /\ [MeterNext]_allVars
    BY PartyFacts, RoundIsStep
  <2>2. n' = n
    BY <2>1, PartyStep
  <2>3. QED
    BY <2>2 DEF RoundInv, OneConfiguration
<1>2. QED
  BY <1>1, FinishNext, AlignNext, ListenNext, SameRoundNext DEF RoundInv

(* The rounds that the scripts run are runs of the meters.                 *)
THEOREM RoundsAreRuns == RoundsSpec => MeterSpec
<1>1. [RoundsNext]_allVars => [MeterNext]_allVars
  BY RoundIsStep
<1>2. QED
  BY <1>1, PTL DEF RoundsSpec, MeterSpec

(* Rounds that are started again and again without waiting for the others  *)
(* never mix: where one configuration is loaded everywhere, whoever has    *)
(* entered the protocol takes only shares of its own round, and the        *)
(* partial sums it takes are of the shares it added up                     *)
(* (mpc_runner.c:69-160, run_meter_pi5_rounds.sh).                         *)
THEOREM RoundsAlignedCorrect == RoundsSpec /\ OneConfiguration => []RoundsAligned
<1>1. ASSUME RunInv, RoundInv PROVE RoundsAligned
  <2> SUFFICES ASSUME NEW p \in Party, NEW q \in Party, Returned(p)
               PROVE  agree[p] /\ received[p][q] \in {0, starts[p]}
    BY DEF RoundsAligned
  <2>1. agree[p]
    <3>1. Uniform(p)
      BY <1>1 DEF RoundInv, OneConfiguration, Uniform
    <3>2. QED
      BY <1>1, <3>1 DEF RunInv, AgreeInv
  <2>2. CASE q = p
    <3>1. received[p][p] = 0 \/ received[p][p] = starts[p]
      BY <1>1 DEF RunInv, LoopInv, NoShare
    <3>2. QED
      BY <2>1, <2>2, <3>1
  <2>3. CASE q # p
    BY <1>1, <2>1, <2>3, ReceivedGot DEF RoundInv, AlignInv
  <2>4. QED
    BY <2>1, <2>2, <2>3
<1>2. MeterInit /\ OneConfiguration => RunInv /\ RoundInv
  BY RunInit, RoundInit
<1>3. RunInv /\ RoundInv /\ [RoundsNext]_allVars => RunInv' /\ RoundInv'
  BY RunNext, RoundNext, RoundIsStep
<1>4. QED
  BY <1>1, <1>2, <1>3, PTL DEF RoundsSpec

-----------------------------------------------------------------------------
(* The first round implements MpcRunner.  Its connections do not fail:     *)
(* the acceptor takes in one connection of each higher id in a round, and  *)
(* it stays open until one of the two parties ends.                        *)

OfRound(c, q) == c.from # Stranger /\ c.run = starts[q]
PresentInv ==
  \A q \in Party :
    /\ \A p \in Party : (q < p /\ fd[q][p] # None) => fd[q][p].run = starts[q]
    /\ cur[q] # None => OfRound(cur[q], q) /\ fd[q][cur[q].from] = None
    /\ \A k \in 1 .. Len(backlog[q]) :
         /\ OfRound(backlog[q][k], q) /\ fd[q][backlog[q][k].from] = None
         /\ cur[q] # None => cur[q].from # backlog[q][k].from
         /\ \A l \in 1 .. Len(backlog[q]) : l # k => backlog[q][l].from # backlog[q][k].from
FullInv ==
  \A q \in Party : main[q] # "off" => Cardinality(Filed(q)) + slots[q] = Incoming(q)
OpenInv ==
  \A p, q \in Party : (q < p /\ Reached(p, q)) =>
    /\ starts[p] <= starts[q]
    /\ (main[q] # "off" /\ starts[p] = starts[q]) => Mine(p, q) \in live

ServedInv == PresentInv /\ FullInv /\ OpenInv

(* What can happen to what a party has accepted.                           *)
LEMMA AcceptingSteps ==
  ASSUME RunInv, [RoundsNext]_allVars, NEW q \in Party
  PROVE  \/ Start(q) \/ RecordFd(q) \/ AcceptorThread(q) \/ EndProcess(q)
         \/ \E p \in Party :
              /\ q < p /\ Connect(p) /\ q = next[p]
              /\ backlog'[q] = Append(backlog[q], Mine(p, q))
              /\ UNCHANGED <<starts, fd, cur, slots, main[q]>>
         \/ /\ UNCHANGED <<starts[q], fd[q], cur[q], backlog[q], slots[q]>>
            /\ main'[q] = "off" <=> main[q] = "off"
<1> USE DEF mainVars, acceptorVars, net
<1> DEFINE Same == /\ UNCHANGED <<starts[q], fd[q], cur[q], backlog[q], slots[q]>>
                   /\ main'[q] = "off" <=> main[q] = "off"
<1>0. TypeOK /\ ControlInv
  BY RunFacts
<1>1. ASSUME NEW s \in Party, StartRound(s), s # q PROVE Same
  BY <1>0, <1>1 DEF StartRound, Launch, Start, TypeOK
<1>2. ASSUME NEW s \in Party, SendId(s) \/ Poll(s) \/ Return(s) PROVE Same
  BY <1>0, <1>2 DEF SendId, Poll, Return, TypeOK
<1>3. ASSUME NEW s \in Party, RecordFd(s), s # q PROVE Same
  BY <1>0, <1>3 DEF RecordFd, TypeOK
<1>4. ASSUME NEW s \in Party, Connect(s), next[s] # q PROVE Same
  BY <1>0, <1>4 DEF Connect, TypeOK
<1>5. ASSUME NEW s \in Party, Connect(s), next[s] = q
      PROVE  /\ q < s
             /\ backlog'[q] = Append(backlog[q], Mine(s, q))
             /\ UNCHANGED <<starts, fd, cur, slots, main[q]>>
  <2>1. q < s /\ q # s
    BY <1>0, <1>5, PartyFacts DEF Connect, ControlInv
  <2>2. QED
    BY <1>0, <1>5, <2>1 DEF Connect, TypeOK
<1>6. ASSUME NEW s \in Party, AcceptorThread(s), s # q PROVE Same
  BY <1>0, <1>6 DEF AcceptorThread, Accept, Handshake, HandshakeFails, AcceptorEnds,
     NextSlot, TypeOK
<1>7. ASSUME NEW s \in Party, SplitShares(s) \/ Send(s) \/ Recv(s) \/ ComputePartial(s)
      PROVE  Same
  BY <1>7 DEF SplitShares, Send, Recv, ComputePartial, vars
<1>8. ASSUME NEW s \in Party, EndProcess(s), s # q PROVE Same
  BY <1>0, <1>8 DEF EndProcess, Exit, TypeOK
<1>9. CASE UNCHANGED allVars
  BY <1>9 DEF allVars, vars
<1>10. CASE \E s \in Party : StartRound(s)
  BY <1>1, <1>10 DEF StartRound, Launch
<1>11. CASE \E s \in Party : MainThread(s)
  BY <1>2, <1>3, <1>4, <1>5, <1>11 DEF MainThread
<1>12. CASE \E s \in Party : AcceptorThread(s)
  BY <1>6, <1>12
<1>13. CASE \E s \in Party : Exchange(s)
  BY <1>7, <1>8, <1>13 DEF Exchange, Finish
<1>14. QED
  BY <1>9, <1>10, <1>11, <1>12, <1>13 DEF RoundsNext, Main, Acceptor

(* A connection in the hands of an acceptor is its maker's own.            *)
LEMMA OwnConnection ==
  ASSUME NEW c \in Connection, NEW q \in Party, Genuine(c, starts), c.to = q,
         c.from # Stranger, starts[c.from] = c.run
  PROVE  c.from \in Party /\ q < c.from /\ c = Mine(c.from, q)
<1>1. c.from \in Party /\ c.id = c.from /\ q < c.from
  BY ConnectionFacts DEF Genuine
<1>2. c \in [from : Party, run : 1 .. (MaxUpsets + 1), to : Party, id : Party]
  BY <1>1 DEF Connection
<1>3. QED
  BY <1>1, <1>2 DEF Mine

(* Whoever still waits for a party has in hand only connections of parties *)
(* that are in the same round, and open ones.                              *)
LEMMA InHand ==
  ASSUME RunInv, RoundInv, ServedInv, NEW q \in Party, acceptor[q] = "recv"
  PROVE  /\ cur[q] \in live /\ InRange(q, cur[q].id) /\ ~HandshakeFails(q)
         /\ cur[q].from \in Party /\ q < cur[q].from /\ cur[q].id = cur[q].from
<1> DEFINE p == cur[q].from
<1>0. /\ Base /\ IInv /\ TypeOK /\ ControlInv /\ HeldInv
      /\ \A x \in Party : x \in Nat /\ starts[x] \in Nat
  BY RunFacts DEF RunInv
<1>1. /\ main[q] # "off" /\ ~Returned(q) /\ cur[q] # None /\ cur[q] \in Connection
  BY <1>0, WhenReturned DEF ControlInv, TypeOK
<1>2. Genuine(cur[q], starts) /\ cur[q].to = q /\ OfRound(cur[q], q)
  BY <1>0, <1>1 DEF IInv, ConnectionInv, ServedInv, PresentInv
<1>3. p \in Party /\ q < p /\ p # q /\ starts[q] <= starts[p] /\ cur[q].id = p
  BY <1>0, <1>1, <1>2, ConnectionFacts DEF Genuine, OfRound
<1>4. starts[p] = starts[q] /\ main[p] # "off"
  <2>1. Finished(p) <= starts[q] /\ (Finished(p) = starts[q] => DoneWith(q, p))
    BY <1>3 DEF RoundInv, FinishInv
  <2>2. ~DoneWith(q, p)
    BY <1>1 DEF DoneWith
  <2>3. QED
    BY <1>0, <1>3, <2>1, <2>2 DEF Finished
<1>5. cur[q] = Mine(p, q)
  BY <1>1, <1>2, <1>4, OwnConnection DEF OfRound
<1>6. Reached(p, q)
  <2>1. Holds(q, cur[q])
    BY <1>1 DEF Holds
  <2>2. cur[q].run = starts[p]
    BY <1>2, <1>4 DEF OfRound
  <2>3. QED
    BY <1>0, <1>1, <1>3, <1>4, <2>1, <2>2 DEF HeldInv
<1>7. cur[q] \in live
  BY <1>1, <1>3, <1>4, <1>5, <1>6 DEF ServedInv, OpenInv
<1>8. InRange(q, cur[q].id)
  BY <1>0, <1>3, AllPeers DEF InRange, RoundInv
<1>9. ~HandshakeFails(q)
  BY <1>7, <1>8 DEF HandshakeFails
<1>10. QED
  BY <1>3, <1>7, <1>8, <1>9

(* The acceptor ends when there is nothing in its queue.                   *)
LEMMA NothingQueued ==
  ASSUME RunInv, RoundInv, ServedInv, NEW q \in Party, main[q] # "off", slots[q] = 0
  PROVE  backlog[q] = <<>>
<1>0. Base /\ IInv /\ TypeOK /\ ControlInv
  BY RunFacts
<1>1. Filed(q) = (q + 1) .. (n[q] - 1)
  <2>1. Cardinality(Filed(q)) + 0 = Incoming(q)
    BY DEF ServedInv, FullInv
  <2>2. /\ IsFiniteSet((q + 1) .. (n[q] - 1)) /\ Filed(q) \in SUBSET ((q + 1) .. (n[q] - 1))
        /\ Cardinality((q + 1) .. (n[q] - 1)) = Incoming(q)
        /\ Cardinality(Filed(q)) \in Nat
    BY <1>0, FiledFacts DEF Filed
  <2>3. Cardinality(Filed(q)) = Cardinality((q + 1) .. (n[q] - 1))
    BY <2>1, <2>2
  <2>4. QED
    BY <2>2, <2>3, FS_Subset
<1>2. ASSUME backlog[q] # <<>> PROVE FALSE
  <2>1. backlog[q] \in Seq(Connection) /\ 1 \in 1 .. Len(backlog[q])
    BY <1>0, <1>2 DEF TypeOK
  <2> DEFINE c == backlog[q][1]
  <2>2. /\ c \in Connection /\ Genuine(c, starts) /\ c.to = q /\ c.from # Stranger
        /\ fd[q][c.from] = None
    BY <1>0, <2>1 DEF IInv, ConnectionInv, ServedInv, PresentInv, OfRound
  <2>3. c.from \in Party /\ q < c.from
    BY <2>2, ConnectionFacts DEF Genuine
  <2> HIDE DEF c
  <2>4. c.from \in (q + 1) .. (n[q] - 1)
    <3>1. c.from \in Nat /\ q \in Nat /\ n[q] \in Nat /\ c.from < n[q]
      BY <1>0, <2>3, AllPeers, PartyFacts DEF RoundInv, TypeOK
    <3>2. QED
      BY <2>3, <3>1
  <2>5. QED
    BY <1>1, <2>2, <2>4 DEF Filed
<1>3. QED
  BY <1>2

(* A party connects only where nothing of it has been accepted.            *)
LEMMA NotTaken ==
  ASSUME RunInv, RoundInv, ServedInv, NEW p \in Party, NEW q \in Party, Connect(p), q = next[p]
  PROVE  /\ starts[p] = starts[q] /\ q < p /\ fd[q][p] = None
         /\ cur[q] # None => cur[q].from # p
         /\ \A k \in 1 .. Len(backlog[q]) : backlog[q][k].from # p
<1>0. /\ Base /\ IInv /\ TypeOK /\ ControlInv /\ HeldInv /\ starts[p] = starts[q]
      /\ main[p] = "connect" /\ main[q] # "off" /\ q < p /\ p # q /\ p \in Nat /\ q \in Nat
  <2>1. Base /\ IInv /\ TypeOK /\ ControlInv /\ HeldInv /\ p \in Nat /\ q \in Nat
    BY RunFacts DEF RunInv
  <2>2. starts[p] = starts[q] /\ main[q] # "off" /\ main[p] = "connect"
    BY ConnectInStep DEF Connect
  <2>3. q < p
    BY <2>1, <2>2 DEF ControlInv
  <2>4. QED
    BY <2>1, <2>2, <2>3
<1>1. ~Reached(p, q)
  BY <1>0 DEF Reached
<1>2. ASSUME NEW c \in Connection, Holds(q, c), c.from = p, c.run = starts[q] PROVE FALSE
  BY <1>0, <1>1, <1>2 DEF HeldInv
<1>3. fd[q][p] = None
  <2>1. SUFFICES ASSUME fd[q][p] # None PROVE FALSE
    OBVIOUS
  <2>2. fd[q][p] \in Connection /\ fd[q][p].from = p /\ fd[q][p].run = starts[q]
    BY <1>0, <2>1 DEF IInv, TypeOK, TableInv, ServedInv, PresentInv
  <2>3. QED
    BY <1>2, <2>2 DEF Holds
<1>4. ~Returned(q)
  <2>1. ASSUME Returned(q) PROVE fd[q][p] # None
    BY <1>0, <2>1, WhenReturned, AllPeers DEF RoundInv
  <2>2. QED
    BY <1>3, <2>1
<1>5. ASSUME cur[q] # None, cur[q].from = p PROVE FALSE
  <2>1. cur[q] \in Connection /\ cur[q].run = starts[q]
    BY <1>0, <1>5 DEF TypeOK, ServedInv, PresentInv, OfRound
  <2>2. Holds(q, cur[q])
    BY <1>4, <1>5 DEF Holds
  <2>3. QED
    BY <1>2, <1>5, <2>1, <2>2
<1>6. ASSUME NEW k \in 1 .. Len(backlog[q]), backlog[q][k].from = p PROVE FALSE
  <2>1. backlog[q][k] \in Connection /\ backlog[q][k].run = starts[q]
    <3>1. backlog[q] \in Seq(Connection)
      BY <1>0 DEF TypeOK
    <3>2. QED
      BY <3>1 DEF ServedInv, PresentInv, OfRound
  <2>2. Holds(q, backlog[q][k])
    BY <1>4, <1>6 DEF Holds
  <2>3. QED
    BY <1>2, <1>6, <2>1, <2>2
<1>7. QED
  BY <1>0, <1>3, <1>5, <1>6

LEMMA PresentNext ==
  ASSUME RunInv, RoundInv, ServedInv, [RoundsNext]_allVars
  PROVE  PresentInv'
<1> USE DEF mainVars, acceptorVars, net
<1> SUFFICES ASSUME NEW q \in Party PROVE PresentInv!(q)'
  BY DEF PresentInv
<1>0. /\ Base /\ IInv /\ TypeOK /\ ControlInv /\ ConnectionInv /\ [Next]_vars
      /\ fd[q] \in [Party -> Connection \cup {None}] /\ backlog[q] \in Seq(Connection)
      /\ \A x \in Party : x \in Nat
  BY RunFacts, RoundIsStep, MeterStep DEF TypeOK, IInv
<1>1. PresentInv!(q)
  BY DEF ServedInv, PresentInv
<1>2. ASSUME backlog'[q] = <<>>, cur'[q] = None, \A p \in Party : fd'[q][p] = None
      PROVE  PresentInv!(q)'
  BY <1>2
<1>3. CASE Start(q)
  <2>1. backlog[q] = <<>> /\ cur[q] = None /\ \A p \in Party : fd[q][p] = None
    BY <1>0, <1>3 DEF Start, RunInv, HeldInv, IInv, TableInv
  <2>2. UNCHANGED <<backlog, cur, fd>>
    BY <1>3 DEF Start
  <2>3. QED
    BY <1>2, <2>1, <2>2
<1>4. CASE EndProcess(q)
  <2>1. backlog'[q] = <<>> /\ cur'[q] = None /\ \A p \in Party : fd'[q][p] = None
    BY <1>0, <1>4 DEF EndProcess, Exit, TypeOK
  <2>2. QED
    BY <1>2, <2>1
<1>5. CASE RecordFd(q)
  <2>1. /\ next[q] \in Party /\ next[q] < q
        /\ fd'[q] = [fd[q] EXCEPT ![next[q]] = Mine(q, next[q])]
        /\ UNCHANGED <<starts, cur, backlog>>
    BY <1>0, <1>5, RecordEffect DEF RecordFd
  <2>2. \A p \in Party : q < p => fd'[q][p] = fd[q][p]
    BY <1>0, <2>1
  <2>3. cur[q] # None => cur[q].from \in Party /\ q < cur[q].from
    <3>1. SUFFICES ASSUME cur[q] # None PROVE cur[q].from \in Party /\ q < cur[q].from
      OBVIOUS
    <3>2. cur[q] \in Connection
      BY <1>0, <3>1 DEF TypeOK
    <3>3. QED
      BY <1>0, <1>1, <3>1, <3>2, ConnectionFacts DEF ConnectionInv, Genuine, OfRound
  <2>4. \A k \in 1 .. Len(backlog[q]) : backlog[q][k].from \in Party /\ q < backlog[q][k].from
    <3>1. SUFFICES ASSUME NEW k \in 1 .. Len(backlog[q])
                   PROVE  backlog[q][k].from \in Party /\ q < backlog[q][k].from
      OBVIOUS
    <3>2. backlog[q][k] \in Connection
      BY <1>0
    <3>3. QED
      BY <1>0, <1>1, <3>2, ConnectionFacts DEF ConnectionInv, Genuine, OfRound
  <2>5. QED
    BY <1>1, <2>1, <2>2, <2>3, <2>4 DEF OfRound
<1>6. CASE \E p \in Party :
             /\ q < p /\ Connect(p) /\ q = next[p]
             /\ backlog'[q] = Append(backlog[q], Mine(p, q))
             /\ UNCHANGED <<starts, fd, cur, slots, main[q]>>
  <2>1. PICK p \in Party :
             /\ q < p /\ Connect(p) /\ q = next[p]
             /\ backlog'[q] = Append(backlog[q], Mine(p, q))
             /\ UNCHANGED <<starts, fd, cur>>
    BY <1>6
  <2>2. /\ starts[p] = starts[q] /\ fd[q][p] = None
        /\ cur[q] # None => cur[q].from # p
        /\ \A k \in 1 .. Len(backlog[q]) : backlog[q][k].from # p
    BY <2>1, NotTaken
  <2>3. OfRound(Mine(p, q), q) /\ Mine(p, q).from = p
    BY <2>2, PartyFacts DEF OfRound, Mine, Stranger
  <2>4. \A k \in 1 .. Len(Append(backlog[q], Mine(p, q))) :
          \/ k \in 1 .. Len(backlog[q]) /\ Append(backlog[q], Mine(p, q))[k] = backlog[q][k]
          \/ k = Len(backlog[q]) + 1 /\ Append(backlog[q], Mine(p, q))[k] = Mine(p, q)
    BY <1>0
  <2>5. ASSUME NEW k \in 1 .. Len(backlog'[q])
        PROVE  /\ OfRound(backlog'[q][k], q) /\ fd[q][backlog'[q][k].from] = None
               /\ cur[q] # None => cur[q].from # backlog'[q][k].from
               /\ \A l \in 1 .. Len(backlog'[q]) :
                    l # k => backlog'[q][l].from # backlog'[q][k].from
    BY <1>1, <2>1, <2>2, <2>3, <2>4
  <2>6. QED
    BY <1>1, <2>1, <2>5 DEF OfRound
<1>7. CASE Accept(q)
  <2>1. /\ backlog[q] # <<>> /\ cur'[q] = Head(backlog[q]) /\ backlog'[q] = Tail(backlog[q])
        /\ UNCHANGED <<starts, fd>>
    BY <1>0, <1>7 DEF Accept, TypeOK
  <2>2. /\ 1 \in 1 .. Len(backlog[q]) /\ Head(backlog[q]) = backlog[q][1]
        /\ \A k \in 1 .. Len(Tail(backlog[q])) :
             /\ k + 1 \in 1 .. Len(backlog[q]) /\ k + 1 # 1
             /\ Tail(backlog[q])[k] = backlog[q][k + 1]
             /\ \A l \in 1 .. Len(Tail(backlog[q])) : l # k => l + 1 # k + 1
    BY <1>0, <2>1
  <2>3. OfRound(cur'[q], q) /\ fd[q][cur'[q].from] = None
    BY <1>1, <2>1, <2>2
  <2>4. ASSUME NEW k \in 1 .. Len(backlog'[q])
        PROVE  /\ OfRound(backlog'[q][k], q) /\ fd[q][backlog'[q][k].from] = None
               /\ cur'[q].from # backlog'[q][k].from
               /\ \A l \in 1 .. Len(backlog'[q]) :
                    l # k => backlog'[q][l].from # backlog'[q][k].from
    BY <1>1, <2>1, <2>2
  <2>5. QED
    BY <1>1, <2>1, <2>3, <2>4 DEF OfRound
<1>8. CASE Handshake(q)
  <2>1. /\ cur[q] # None /\ cur[q].id \in Party /\ UNCHANGED <<starts, backlog>>
        /\ fd'[q] = [fd[q] EXCEPT ![cur[q].id] = cur[q]] /\ cur'[q] = None
        /\ acceptor[q] = "recv"
    <3>1. /\ cur[q] # None /\ cur[q].id \in Party
          /\ fd'[q] = [fd[q] EXCEPT ![cur[q].id] = cur[q]]
      BY <1>0, <1>8, HandshakeEffect
    <3>2. UNCHANGED <<starts, backlog>> /\ cur'[q] = None /\ acceptor[q] = "recv"
      BY <1>0, <1>8 DEF Handshake, NextSlot, TypeOK
    <3>3. QED
      BY <3>1, <3>2
  <2>2. cur[q].id = cur[q].from /\ cur[q].run = starts[q]
    BY <1>1, <2>1, InHand DEF OfRound
  <2>3. \A p \in Party : (q < p /\ fd'[q][p] # None) => fd'[q][p].run = starts[q]
    BY <1>0, <1>1, <2>1, <2>2
  <2>4. \A k \in 1 .. Len(backlog[q]) : fd'[q][backlog[q][k].from] = None
    <3>1. SUFFICES ASSUME NEW k \in 1 .. Len(backlog[q])
                   PROVE  fd'[q][backlog[q][k].from] = None
      OBVIOUS
    <3>2. backlog[q][k] \in Connection /\ backlog[q][k].from # Stranger
      BY <1>0, <1>1 DEF OfRound
    <3>3. backlog[q][k].from \in Party
      BY <3>2, ConnectionFacts
    <3>4. QED
      BY <1>0, <1>1, <2>1, <2>2, <3>3
  <2>5. QED
    BY <1>1, <2>1, <2>3, <2>4 DEF OfRound
<1>9. CASE HandshakeFails(q)
  <2>1. UNCHANGED <<starts, backlog, fd>> /\ cur'[q] = None
    BY <1>0, <1>9 DEF HandshakeFails, NextSlot, TypeOK
  <2>2. QED
    BY <1>1, <2>1 DEF OfRound
<1>10. CASE AcceptorEnds(q)
  <2>1. UNCHANGED <<starts, cur, fd>> /\ backlog'[q] = <<>>
    BY <1>0, <1>10 DEF AcceptorEnds, TypeOK
  <2>2. QED
    BY <1>1, <2>1 DEF OfRound
<1>11. CASE UNCHANGED <<starts[q], fd[q], cur[q], backlog[q], slots[q]>>
  BY <1>1, <1>11 DEF OfRound
<1>12. QED
  BY <1>3, <1>4, <1>5, <1>6, <1>7, <1>8, <1>9, <1>10, <1>11, AcceptingSteps DEF AcceptorThread

LEMMA FullNext ==
  ASSUME RunInv, RoundInv, ServedInv, [RoundsNext]_allVars
  PROVE  FullInv'
<1> USE DEF mainVars, acceptorVars, net
<1> SUFFICES ASSUME NEW q \in Party, main'[q] # "off"
             PROVE  Cardinality(Filed(q)') + slots'[q] = Incoming(q)
  <2>1. n' = n
    BY RoundIsStep, PartyStep, PartyFacts
  <2>2. \A x \in Party : Incoming(x)' = Incoming(x)
    BY <2>1 DEF Incoming
  <2>3. QED
    BY <2>2 DEF FullInv
<1>0. /\ Base /\ IInv /\ TypeOK /\ ControlInv /\ [Next]_vars /\ n' = n
      /\ fd[q] \in [Party -> Connection \cup {None}]
      /\ IsFiniteSet(Filed(q)) /\ Cardinality(Filed(q)) \in Nat
      /\ Incoming(q) \in Nat /\ slots[q] \in Nat
  BY RunFacts, RoundIsStep, MeterStep, PartyStep, FiledFacts DEF TypeOK
<1>00. \A p \in (q + 1) .. (n[q] - 1) : p \in Party /\ q < p
  <2>1. q \in Nat /\ n[q] \in Nat /\ n[q] <= N /\ N \in Nat
    BY <1>0, PartyFacts DEF TypeOK
  <2>2. QED
    BY ONLY <2>1 DEF Party
<1>1. main[q] # "off" => Cardinality(Filed(q)) + slots[q] = Incoming(q)
  BY DEF ServedInv, FullInv
<1>2. ASSUME Filed(q)' = Filed(q), slots'[q] = slots[q], main[q] # "off"
      PROVE  Cardinality(Filed(q)') + slots'[q] = Incoming(q)
  BY <1>1, <1>2
<1>3. CASE Start(q)
  <2>1. \A p \in Party : fd'[q][p] = None
    BY <1>0, <1>3 DEF Start, IInv, TableInv
  <2>2. Filed(q)' = {} /\ slots'[q] = Incoming(q)
    BY <1>0, <1>00, <1>3, <2>1 DEF Start, Filed, TypeOK
  <2>3. Cardinality({}) = 0
    BY FS_EmptySet
  <2>4. QED
    BY <1>0, <2>2, <2>3
<1>4. ~EndProcess(q)
  <2>1. ASSUME EndProcess(q) PROVE FALSE
    BY <1>0, <2>1 DEF EndProcess, Exit, TypeOK
  <2>2. QED
    BY <2>1
<1>5. CASE RecordFd(q)
  <2>1. /\ next[q] \in Party /\ next[q] < q /\ main[q] # "off"
        /\ fd'[q] = [fd[q] EXCEPT ![next[q]] = Mine(q, next[q])]
        /\ slots' = slots
    BY <1>0, <1>5, RecordEffect DEF RecordFd
  <2>2. \A p \in Party : q < p => fd'[q][p] = fd[q][p]
    <3>1. q \in Nat /\ next[q] \in Nat
      BY <2>1, PartyFacts
    <3>2. QED
      BY <1>0, <2>1, <3>1
  <2>3. Filed(q)' = Filed(q)
    BY <1>0, <1>00, <2>2 DEF Filed
  <2>4. QED
    BY <1>2, <2>1, <2>3
<1>6. CASE \E p \in Party :
             /\ q < p /\ Connect(p) /\ q = next[p]
             /\ backlog'[q] = Append(backlog[q], Mine(p, q))
             /\ UNCHANGED <<starts, fd, cur, slots, main[q]>>
  <2>1. UNCHANGED <<fd, slots, main[q]>>
    BY <1>6
  <2>2. QED
    BY <1>0, <1>2, <2>1 DEF Filed
<1>7. CASE Accept(q) \/ AcceptorEnds(q)
  <2>1. UNCHANGED <<fd, slots, main>>
    BY <1>7 DEF Accept, AcceptorEnds
  <2>2. QED
    BY <1>0, <1>2, <2>1 DEF Filed
<1>8. CASE Handshake(q)
  <2> DEFINE p == cur[q].from
  <2>1. /\ cur[q] # None /\ slots[q] > 0 /\ main[q] # "off"
        /\ fd'[q] = [fd[q] EXCEPT ![cur[q].id] = cur[q]]
        /\ acceptor[q] = "recv"
    BY <1>0, <1>8, HandshakeEffect DEF Handshake, IInv
  <2>2. p \in Party /\ q < p /\ cur[q].id = p
    BY <2>1, InHand
  <2>3. slots'[q] = slots[q] - 1
    BY <1>0, <1>8 DEF Handshake, NextSlot, TypeOK
  <2>4. fd[q][p] = None
    BY <2>1 DEF ServedInv, PresentInv
  <2> HIDE DEF p
  <2>5. p \in (q + 1) .. (n[q] - 1)
    <3>1. p \in Nat /\ q \in Nat /\ n[q] \in Nat /\ p < n[q]
      BY <1>0, <2>2, AllPeers, PartyFacts DEF RoundInv, TypeOK
    <3>2. QED
      BY <2>2, <3>1
  <2>6. Filed(q)' = Filed(q) \cup {p} /\ p \notin Filed(q)
    BY <1>0, <1>00, <2>1, <2>2, <2>4, <2>5 DEF Filed
  <2>7. Cardinality(Filed(q) \cup {p}) = Cardinality(Filed(q)) + 1
    BY <1>0, <2>6, FS_AddElement
  <2>8. Cardinality(Filed(q)') = Cardinality(Filed(q)) + 1
    BY <2>6, <2>7
  <2>9. QED
    BY <1>0, <1>1, <2>1, <2>3, <2>8
<1>9. ~HandshakeFails(q)
  BY InHand DEF HandshakeFails
<1>10. CASE UNCHANGED <<starts[q], fd[q], cur[q], backlog[q], slots[q]>>
            /\ (main'[q] = "off" <=> main[q] = "off")
  BY <1>0, <1>2, <1>10 DEF Filed
<1>11. QED
  BY <1>3, <1>4, <1>5, <1>6, <1>7, <1>8, <1>9, <1>10, AcceptingSteps DEF AcceptorThread

LEMMA OpenNext ==
  ASSUME RunInv, RoundInv, ServedInv, [RoundsNext]_allVars
  PROVE  OpenInv'
<1> USE DEF mainVars, acceptorVars, net
<1> SUFFICES ASSUME NEW p \in Party, NEW q \in Party, q < p, Reached(p, q)'
             PROVE  /\ starts'[p] <= starts'[q]
                    /\ (main'[q] # "off" /\ starts'[p] = starts'[q]) => Mine(p, q)' \in live'
  BY DEF OpenInv
<1>0. /\ Base /\ IInv /\ TypeOK /\ ControlInv /\ [Next]_vars /\ [MeterNext]_allVars
      /\ starts[p] \in Nat /\ starts[q] \in Nat /\ p \in Nat /\ q \in Nat /\ p # q
  BY RunFacts, RoundIsStep, MeterStep
<1>1. main'[p] # "off"
  BY DEF Reached
<1>2. CASE Connect(p) /\ next[p] = q
  <2>1. starts[q] = starts[p]
    BY <1>2, ConnectInStep
  <2>2. starts' = starts /\ Mine(p, q) \in live'
    BY <1>0, <1>2 DEF Connect
  <2>3. QED
    BY <1>0, <2>1, <2>2 DEF Mine
<1>3. CASE Reached(p, q)
  <2>1. main[p] # "off" /\ starts'[p] = starts[p] /\ starts[q] <= starts'[q]
    BY <1>0, <1>3, PartyStep DEF Reached
  <2>2. /\ starts[p] <= starts[q]
        /\ (main[q] # "off" /\ starts[p] = starts[q]) => Mine(p, q) \in live
    BY <1>3 DEF ServedInv, OpenInv
  <2>3. Mine(p, q)' = Mine(p, q)
    BY <2>1 DEF Mine
  <2>4. ASSUME main'[q] # "off", starts[p] = starts'[q] PROVE Mine(p, q) \in live'
    <3>1. main[q] # "off" /\ starts'[q] = starts[q] /\ starts'[q] \in Nat
      BY <1>0, <2>2, <2>4, PartyStep
    <3>2. Mine(p, q) \in live
      BY <2>2, <2>4, <3>1
    <3>3. Mine(p, q).from = p /\ Mine(p, q).to = q
      BY DEF Mine
    <3>4. ASSUME NEW s \in Party, EndProcess(s) PROVE Mine(p, q) \in live'
      <4>1. s # p /\ s # q
        BY <1>0, <1>1, <2>4, <3>4 DEF EndProcess, Exit, TypeOK
      <4>2. QED
        BY <3>2, <3>3, <3>4, <4>1 DEF EndProcess, Exit
    <3>5. ASSUME NEW s \in Party, AcceptorEnds(s) PROVE live' = live
      <4>1. acceptor[s] = "accept" /\ slots[s] = 0
        BY <3>5 DEF AcceptorEnds
      <4>2. backlog[s] = <<>>
        BY <1>0, <4>1, NothingQueued DEF ControlInv
      <4>3. Range(backlog[s]) = {}
        BY <4>2 DEF Range
      <4>4. QED
        BY <3>5, <4>3 DEF AcceptorEnds
    <3>6. ASSUME NEW s \in Party, HandshakeFails(s) PROVE FALSE
      BY <3>6, InHand DEF HandshakeFails
    <3>7. ASSUME NEW s \in Party, StartRound(s) \/ MainThread(s) \/ Accept(s) \/ Handshake(s)
          PROVE  live \subseteq live'
      BY <3>7 DEF StartRound, Launch, Start, MainThread, Connect, SendId, RecordFd, Poll,
         Return, Accept, Handshake
    <3>8. ASSUME NEW s \in Party, SplitShares(s) \/ Send(s) \/ Recv(s) \/ ComputePartial(s)
          PROVE  live' = live
      BY <3>8 DEF SplitShares, Send, Recv, ComputePartial, vars
    <3>9. QED
      BY <3>2, <3>4, <3>5, <3>6, <3>7, <3>8 DEF RoundsNext, Main, Exchange, Finish,
         Acceptor, AcceptorThread, allVars, vars
  <2>5. starts'[q] \in Nat
    BY <1>0, PartyStep
  <2>6. QED
    BY <1>0, <2>1, <2>2, <2>3, <2>4, <2>5
<1>4. QED
  BY <1>0, <1>2, <1>3, ReachedNext

LEMMA ServedInit == MeterInit => ServedInv /\ IsFiniteSet(wire)
<1> SUFFICES ASSUME MeterInit PROVE ServedInv /\ IsFiniteSet(wire)
  OBVIOUS
<1>1. /\ main = [p \in Party |-> "off"] /\ wire = {}
      /\ fd = [p \in Party |-> [q \in Party |-> None]]
      /\ cur = [p \in Party |-> None] /\ backlog = [p \in Party |-> <<>>]
  BY DEF MeterInit, Init
<1>2. PresentInv
  BY <1>1 DEF PresentInv
<1>3. FullInv /\ OpenInv
  BY <1>1 DEF FullInv, OpenInv, Reached
<1>4. QED
  BY <1>1, <1>2, <1>3, FS_EmptySet DEF ServedInv

LEMMA ServedNext ==
  RunInv /\ RoundInv /\ ServedInv /\ IsFiniteSet(wire) /\ [RoundsNext]_allVars
    => ServedInv' /\ IsFiniteSet(wire)'
<1> SUFFICES ASSUME RunInv, RoundInv, ServedInv, IsFiniteSet(wire), [RoundsNext]_allVars
             PROVE  ServedInv' /\ IsFiniteSet(wire')
  OBVIOUS
<1>1. ServedInv'
  BY PresentNext, FullNext, OpenNext DEF ServedInv
<1>2. IsFiniteSet(wire')
  <2>1. CASE Quiet
    BY <2>1 DEF Quiet, exchange
  <2>2. ASSUME NEW s \in Party,
               SplitShares(s) \/ Recv(s) \/ ComputePartial(s) \/ EndProcess(s)
        PROVE  wire' \in SUBSET wire
    BY <2>2 DEF SplitShares, Recv, ComputePartial, EndProcess
  <2>3. ASSUME NEW s \in Party, Send(s)
        PROVE  \E m : wire' = wire \/ wire' = wire \cup {m}
    BY <2>3 DEF Send
  <2>4. QED
    BY <2>1, <2>2, <2>3, RunCases, RoundIsStep, FS_Subset, FS_AddElement
<1>3. QED
  BY <1>1, <1>2

(* The connection between two parties of the same round is open.           *)
LEMMA TableOpen ==
  ASSUME RunInv, RoundInv, ServedInv, NEW p \in Party, NEW q \in Party, p # q,
         Returned(p), main[q] # "off", starts[q] = starts[p]
  PROVE  fd[p][q] \in live
<1>0. Base /\ IInv /\ TypeOK /\ ControlInv /\ p \in Nat /\ q \in Nat /\ q < n[p]
  BY RunFacts, AllPeers DEF RoundInv
<1>1. main[p] # "off"
  BY DEF Returned
<1>2. CASE q < p
  <2>1. fd[p][q] = Mine(p, q) /\ Reached(p, q)
    BY <1>0, <1>2, WhenReturned DEF Reached, Returned
  <2>2. QED
    BY <1>2, <2>1 DEF ServedInv, OpenInv
<1>3. CASE p < q
  <2>1. /\ fd[p][q] \in Connection /\ fd[p][q].from = q /\ fd[p][q].to = p
        /\ fd[p][q].id = q /\ fd[p][q] # None
    BY <1>0, <1>3, WhenReturned
  <2>2. fd[p][q].run = starts[q]
    BY <1>3, <2>1 DEF ServedInv, PresentInv
  <2>3. q # Stranger
    BY PartyFacts DEF Stranger
  <2>4. fd[p][q] = Mine(q, p)
    <3>1. starts[q] \in Nat
      BY RunFacts
    <3>2. Genuine(fd[p][q], starts)
      BY <1>3, <2>1, <2>2, <3>1 DEF Genuine
    <3>3. QED
      BY <2>1, <2>2, <2>3, <3>2, OwnConnection
  <2>5. Reached(q, p)
    <3>1. Holds(p, fd[p][q])
      BY <2>1 DEF Holds
    <3>2. QED
      BY <1>3, <2>1, <2>2, <3>1 DEF RunInv, HeldInv
  <2>6. QED
    BY <1>1, <1>3, <2>4, <2>5 DEF ServedInv, OpenInv
<1>4. QED
  BY <1>0, <1>2, <1>3

-----------------------------------------------------------------------------
(* The state of MpcRunner that a state of the meters stands for.           *)
FirstWire(p, q) == {m \in wire : m.by = p /\ Reader(m) = q /\ m.of[p] = 1}
RunnerRound == [p \in Party |-> OfFirstRound(p, round[p], 2)]
RunnerPeer == [p \in Party |-> IF Ended(p) THEN N
                               ELSE IF round[p] = 0 THEN FirstPeer(p) ELSE peer[p]]
RunnerHalf == [p \in Party |-> OfFirstRound(p, half[p], 0)]
RunnerStatus == [p \in Party |-> IF Ended(p) THEN "MPC_OK" ELSE "running"]
RunnerChan == [p \in Party |-> [q \in Party |-> Zeros(1 .. Cardinality(FirstWire(p, q)))]]
Nothing == Zeros(Party)
Nothings == [p \in Party |-> Zeros(Party)]

LEMMA RunnerVars ==
  UNCHANGED <<RunnerRound, RunnerPeer, RunnerHalf, RunnerStatus, RunnerChan>>
    => UNCHANGED Runner!vars
BY DEF Runner!vars, Nothing, Nothings, RunnerRound, RunnerPeer, RunnerHalf, RunnerStatus,
       RunnerChan, FirstWire

Control(p, r, j, h, s) ==
  RunnerRound[p] = r /\ RunnerPeer[p] = j /\ RunnerHalf[p] = h /\ RunnerStatus[p] = s
LEMMA RunnerControl ==
  ASSUME LoopInv, NEW p \in Party
  PROVE  /\ Ended(p) => Control(p, 2, N, 0, "MPC_OK")
         /\ ~Ended(p) =>
              Control(p, round[p], IF round[p] = 0 THEN FirstPeer(p) ELSE peer[p],
                      half[p], "running")
<1>1. (~Returned(p) => round[p] = 0) /\ (round[p] = 0 => half[p] = 0)
  BY DEF LoopInv
<1>2. QED
  BY <1>1 DEF Control, RunnerRound, RunnerPeer, RunnerHalf, RunnerStatus, OfFirstRound

LEMMA RunnerControlNext ==
  ASSUME LoopInv', NEW p \in Party
  PROVE  /\ Ended(p)' => Control(p, 2, N, 0, "MPC_OK")'
         /\ ~Ended(p)' =>
              /\ RunnerRound'[p] = round'[p] /\ RunnerHalf'[p] = half'[p]
              /\ RunnerStatus'[p] = "running"
              /\ RunnerPeer'[p] = IF round'[p] = 0 THEN FirstPeer(p) ELSE peer'[p]
<1>1. (~Returned(p)' => round'[p] = 0) /\ (round'[p] = 0 => half'[p] = 0)
  BY DEF LoopInv
<1>2. QED
  BY <1>1 DEF Control, RunnerRound, RunnerPeer, RunnerHalf, RunnerStatus, OfFirstRound

(* Sequences of zeros.                                                     *)
LEMMA ZeroSequence ==
  ASSUME NEW k \in Nat
  PROVE  /\ Zeros(1 .. k) \in Seq({0}) /\ Len(Zeros(1 .. k)) = k
         /\ Zeros(1 .. k) = <<>> <=> k = 0
         /\ Append(Zeros(1 .. k), 0) = Zeros(1 .. (k + 1))
         /\ k # 0 => Head(Zeros(1 .. k)) = 0 /\ Tail(Zeros(1 .. k)) = Zeros(1 .. (k - 1))
<1>1. Zeros(1 .. k) \in Seq({0}) /\ Len(Zeros(1 .. k)) = k
  BY DEF Zeros
<1>2. Zeros(1 .. k) = <<>> <=> k = 0
  BY <1>1
<1>3. Append(Zeros(1 .. k), 0) = Zeros(1 .. (k + 1))
  BY <1>1 DEF Zeros
<1>4. ASSUME k # 0
      PROVE  Head(Zeros(1 .. k)) = 0 /\ Tail(Zeros(1 .. k)) = Zeros(1 .. (k - 1))
  BY <1>1, <1>4 DEF Zeros
<1>5. QED
  BY <1>1, <1>2, <1>3, <1>4

(* In a field of one element every sum is 0.                               *)
Unit == INSTANCE MpcField_proofs WITH P <- 1, Word <- 3
LEMMA UnitSum ==
  ASSUME NEW f, NEW k \in Nat, \A i \in 0 .. (k - 1) : f[i] = 0
  PROVE  Runner!FieldFold(0, f, k) = 0
<1>1. Unit!FieldFold(0, f, k) = 0
  BY Unit!SumZero
<1>2. Unit!FieldFold(0, f, k) = Runner!FieldFold(0, f, k)
  BY DEF Unit!FieldFold, Runner!FieldFold, Unit!field_add, Runner!field_add, Unit!U32,
     Runner!U32
<1>3. QED
  BY <1>1, <1>2

LEMMA UnitArithmetic ==
  /\ Runner!field_add(0, 0) = 0 /\ Runner!field_sub(0, 0) = 0 /\ Runner!Field = {0}
  /\ Runner!Party = Party
BY DEF Runner!field_add, Runner!field_sub, Runner!U32, Runner!Field, Runner!Party, Party

(* What is on its way in the first round, and that it is all there is for  *)
(* a party in its first round.                                             *)
LEMMA FirstWireFacts ==
  ASSUME RunInv, RoundInv, NEW p \in Party, NEW q \in Party
  PROVE  /\ \A m \in FirstWire(p, q) : p # q /\ m \in Inbox(q, p) /\ ~Ended(q)
         /\ (~Ended(q) /\ p # q) => FirstWire(p, q) = Inbox(q, p)
<1>1. \A m \in Inbox(q, p) : p # q /\ m.of[p] = starts[q] /\ main[q] # "off" /\ starts[q] >= 1
  <2>1. SUFFICES ASSUME NEW m \in Inbox(q, p)
                 PROVE  p # q /\ m.of[p] = starts[q] /\ main[q] # "off" /\ starts[q] >= 1
    OBVIOUS
  <2>2. p # q /\ m.of[p] \in Got(q, p)
    BY InboxIs DEF RunInv, Got
  <2>3. m.of[p] = starts[q] /\ main[q] # "off"
    BY <2>2, GotRuns DEF RoundInv, AlignInv
  <2>4. QED
    BY <2>2, <2>3, RunFacts DEF ControlInv
<1>2. \A m \in FirstWire(p, q) : m \in Inbox(q, p) /\ m.of[p] = 1
  BY DEF FirstWire, Inbox
<1>3. ~Ended(q) => \A m \in Inbox(q, p) : m.of[p] = 1
  BY <1>1, RunFacts DEF Ended
<1>4. QED
  BY <1>1, <1>2, <1>3 DEF Ended, FirstWire, Inbox

(* A party has ended its first round or not; only Finish makes it so.      *)
LEMMA EndedStep ==
  ASSUME RunInv, [RoundsNext]_allVars, NEW p \in Party
  PROVE  (Ended(p)' <=> Ended(p)) \/ (Finish(p) /\ Ended(p)')
<1>1. starts[p] \in Nat /\ (main[p] # "off" => starts[p] >= 1)
  BY RunFacts DEF ControlInv
<1>2. CASE main[p] # "off" /\ main'[p] = "off"
  <2>1. Finish(p) /\ starts'[p] = starts[p]
    BY <1>2, EndsWell DEF Finish, EndProcess, Exit
  <2>2. QED
    BY <1>1, <1>2, <2>1 DEF Ended
<1>3. CASE ~(main[p] # "off" /\ main'[p] = "off")
  BY <1>1, <1>3, RoundIsStep, PartyStep DEF Ended
<1>4. QED
  BY <1>2, <1>3

(* When nothing changes for MpcRunner.                                     *)
LEMMA Stutters ==
  ASSUME RunInv, RunInv',
         \A x \in Party : Ended(x)' <=> Ended(x),
         \A x \in Party : ~Ended(x) =>
           /\ round'[x] = round[x] /\ half'[x] = half[x]
           /\ round[x] # 0 => peer'[x] = peer[x],
         \A x, y \in Party : FirstWire(x, y)' = FirstWire(x, y)
  PROVE  UNCHANGED Runner!vars
<1>1. ASSUME NEW x \in Party
      PROVE  /\ RunnerRound'[x] = RunnerRound[x] /\ RunnerPeer'[x] = RunnerPeer[x]
             /\ RunnerHalf'[x] = RunnerHalf[x] /\ RunnerStatus'[x] = RunnerStatus[x]
  <2>1. LoopInv /\ LoopInv'
    BY DEF RunInv
  <2>2. CASE Ended(x)
    BY <2>1, <2>2, RunnerControl, RunnerControlNext DEF Control
  <2>3. CASE ~Ended(x)
    BY <2>1, <2>3, RunnerControl, RunnerControlNext DEF Control
  <2>4. QED
    BY <2>2, <2>3
<1>2. /\ RunnerRound' = RunnerRound /\ RunnerPeer' = RunnerPeer
      /\ RunnerHalf' = RunnerHalf /\ RunnerStatus' = RunnerStatus
  BY <1>1 DEF RunnerRound, RunnerPeer, RunnerHalf, RunnerStatus
<1>3. RunnerChan' = RunnerChan
  BY DEF RunnerChan
<1>4. QED
  BY <1>2, <1>3, RunnerVars

LEMMA QuietStutters ==
  ASSUME RunInv, RunInv', [RoundsNext]_allVars, Quiet
  PROVE  UNCHANGED Runner!vars
<1>1. UNCHANGED <<round, peer, half, wire>>
  BY DEF Quiet, exchange
<1>2. \A x \in Party : ~Finish(x)
  <2>1. ASSUME NEW x \in Party, Finish(x) PROVE FALSE
    <3>1. wire' = wire /\ received'[x] = received[x] /\ received'[x] = NoShare
      BY <2>1, RunFacts DEF Finish, EndProcess, Quiet, exchange, ExchangeTypeOK
    <3>2. received[x][x] = starts[x] /\ starts[x] >= 1
      BY <2>1, RunFacts DEF Finish, Succeeds, LoopInv, ControlInv, Returned
    <3>3. QED
      BY <3>1, <3>2 DEF NoShare
  <2>2. QED
    BY <2>1
<1>3. \A x \in Party : Ended(x)' <=> Ended(x)
  BY <1>2, EndedStep
<1>4. \A x, y \in Party : FirstWire(x, y)' = FirstWire(x, y)
  BY <1>1 DEF FirstWire, Reader
<1>5. QED
  BY <1>1, <1>3, <1>4, Stutters

-----------------------------------------------------------------------------
(* The actions of MpcRunner, in terms of the state that is stood for.      *)
LEMMA AsSplitShares ==
  ASSUME NEW p \in Party, RunnerStatus[p] = "running", RunnerRound[p] = 0,
         RunnerRound' = [RunnerRound EXCEPT ![p] = 1],
         UNCHANGED <<RunnerPeer, RunnerHalf, RunnerStatus, RunnerChan>>
  PROVE  Runner!SplitShares(p)
<1> DEFINE rand == Zeros(0 .. (N - 2))
<1>1. N \in Nat \ {0} /\ N - 1 \in Nat
  BY PartyFacts
<1>2. \A i \in 0 .. (N - 2) : rand[i] = 0
  BY DEF Zeros
<1>3. rand \in [0 .. (N - 2) -> Runner!Field]
  BY UnitArithmetic DEF Zeros
<1>4. Runner!FieldFold(0, rand, N - 1) = 0
  <2>1. N - 1 - 1 = N - 2
    BY <1>1
  <2>2. QED
    BY <1>1, <1>2, <2>1, UnitSum
<1>5. Runner!share_split(0, rand, N) = Zeros(Party)
  <2>1. \A i \in 0 .. (N - 1) : i < N - 1 => i \in 0 .. (N - 2)
    BY <1>1
  <2> HIDE DEF rand
  <2>2. QED
    BY <1>2, <1>4, <2>1, UnitArithmetic DEF Runner!share_split, Zeros, Party
<1>6. Zeros(Party)[p] = 0
  BY DEF Zeros
<1>7. \E r \in [0 .. (N - 2) -> Runner!Field] :
        Nothings = [Nothings EXCEPT ![p] = Runner!share_split(Zeros(Party)[p], r, N)]
  <2>1. Nothings = [Nothings EXCEPT ![p] = Zeros(Party)]
    BY DEF Nothings
  <2> HIDE DEF rand
  <2>2. QED
    BY <1>3, <1>5, <1>6, <2>1
<1> HIDE DEF rand
<1>8. Runner!Running(p) /\ RunnerRound[p] = 0
  BY DEF Runner!Running, RunnerStatus
<1>9. QED
  BY <1>7, <1>8 DEF Runner!SplitShares, Nothings, RunnerRound, RunnerPeer, RunnerHalf,
     RunnerStatus, RunnerChan, FirstWire

(* The next call of an exchange.                                           *)
Calls(p, q) ==
  /\ RunnerStatus[p] = "running" /\ RunnerRound[p] \in {1, 2}
  /\ RunnerPeer[p] = q /\ q < N
  /\ RunnerHalf' = [RunnerHalf EXCEPT ![p] = 1 - @]
  /\ RunnerPeer' = IF RunnerHalf[p] = 0 THEN RunnerPeer
                   ELSE [RunnerPeer EXCEPT ![p] = NextPeer(p, @)]
  /\ UNCHANGED <<RunnerRound, RunnerStatus>>

LEMMA AsCall ==
  ASSUME NEW p \in Party, NEW q \in Party, Calls(p, q)
  PROVE  /\ Runner!InExchange(p) /\ Runner!NextCall(p)
         /\ Runner!SendTurn(p) <=> (RunnerHalf[p] = 0 <=> p < q)
         /\ Runner!RecvTurn(p) <=> ~(RunnerHalf[p] = 0 <=> p < q)
<1>1. Runner!InExchange(p)
  BY DEF Calls, Runner!InExchange, Runner!Running, RunnerStatus, RunnerRound, RunnerPeer
<1>2. Runner!NextCall(p)
  BY DEF Calls, Runner!NextCall, Runner!NextPeer, NextPeer, RunnerHalf, RunnerRound, RunnerPeer
<1>3. Runner!SendTurn(p) <=> (RunnerHalf[p] = 0 <=> p < q)
  BY <1>1 DEF Calls, Runner!SendTurn, RunnerHalf, RunnerPeer
<1>4. Runner!RecvTurn(p) <=> ~Runner!SendTurn(p)
  BY <1>1 DEF Runner!RecvTurn
<1>5. QED
  BY <1>1, <1>2, <1>3, <1>4

LEMMA AsSend ==
  ASSUME NEW p \in Party, NEW q \in Party, Calls(p, q), RunnerHalf[p] = 0 <=> p < q,
         RunnerStatus[q] = "running",
         RunnerChan' = [RunnerChan EXCEPT ![p][q] = Append(@, 0)]
  PROVE  Runner!Send(p)
<1>1. Runner!SendTurn(p) /\ Runner!NextCall(p)
  BY AsCall
<1>2. Runner!Running(q)
  BY DEF Runner!Running, RunnerStatus
<1>3. \A r : Runner!Payload(p, q, r) = 0
  BY DEF Runner!Payload, Zeros
<1>4. RunnerStatus' = RunnerStatus /\ RunnerPeer[p] = q
  BY DEF Calls
<1>5. QED
  BY <1>1, <1>2, <1>3, <1>4 DEF Runner!Send, Runner!data, RunnerStatus, RunnerChan,
     RunnerPeer, RunnerRound, FirstWire

LEMMA AsRecv ==
  ASSUME NEW p \in Party, NEW q \in Party, Calls(p, q), ~(RunnerHalf[p] = 0 <=> p < q),
         RunnerChan[q][p] # <<>>, Head(RunnerChan[q][p]) = 0,
         RunnerChan' = [RunnerChan EXCEPT ![q][p] = Tail(@)]
  PROVE  Runner!Recv(p)
<1>1. Runner!RecvTurn(p) /\ Runner!NextCall(p)
  BY AsCall
<1>2. RunnerStatus' = RunnerStatus /\ RunnerPeer[p] = q
  BY DEF Calls
<1>3. /\ Nothings = [Nothings EXCEPT ![p][q] = 0]
      /\ Nothing = [Nothing EXCEPT ![p] = Runner!field_add(@, 0)]
  BY UnitArithmetic DEF Nothings, Nothing, Zeros
<1>4. QED
  BY <1>1, <1>2, <1>3 DEF Runner!Recv, RunnerStatus, RunnerChan, RunnerPeer, RunnerRound,
     FirstWire, Nothings, Nothing

LEMMA AsComputePartial ==
  ASSUME NEW p \in Party, RunnerStatus[p] = "running", RunnerRound[p] = 1,
         RunnerPeer[p] = N,
         RunnerRound' = [RunnerRound EXCEPT ![p] = 2],
         RunnerPeer' = [RunnerPeer EXCEPT ![p] = FirstPeer(p)],
         UNCHANGED <<RunnerHalf, RunnerStatus, RunnerChan>>
  PROVE  Runner!ComputePartial(p)
<1>1. Runner!PartialSum(p) = 0
  <2>1. /\ N \in Nat /\ Zeros(Party)[p] = 0
        /\ \A i \in 0 .. (N - 1) :
             [j \in Runner!Party |-> IF j = p THEN 0
                                     ELSE [x \in Party |-> Zeros(Party)][p][j]][i] = 0
    BY PartyFacts, UnitArithmetic DEF Zeros, Party
  <2>2. Runner!FieldFold(0, [j \in Runner!Party |-> IF j = p THEN 0
                                     ELSE [x \in Party |-> Zeros(Party)][p][j]], N) = 0
    BY <2>1, UnitSum
  <2>3. QED
    BY <2>1, <2>2 DEF Runner!PartialSum
<1>2. Nothing = [Nothing EXCEPT ![p] = 0]
  BY DEF Nothing, Zeros
<1>3. Runner!Running(p)
  BY DEF Runner!Running, RunnerStatus
<1>4. QED
  BY <1>1, <1>2, <1>3 DEF Runner!ComputePartial, Runner!FirstPeer, FirstPeer, RunnerRound,
     RunnerPeer, RunnerHalf, RunnerStatus, RunnerChan, FirstWire, Nothing

LEMMA AsFinish ==
  ASSUME NEW p \in Party, RunnerStatus[p] = "running", RunnerRound[p] = 2,
         RunnerPeer[p] = N,
         RunnerStatus' = [RunnerStatus EXCEPT ![p] = "MPC_OK"],
         RunnerChan' = [x \in Party |-> [RunnerChan[x] EXCEPT ![p] = <<>>]],
         UNCHANGED <<RunnerRound, RunnerPeer, RunnerHalf>>
  PROVE  Runner!Finish(p)
<1>1. Runner!Running(p)
  BY DEF Runner!Running, RunnerStatus
<1>2. Runner!Stop(p, "MPC_OK")
  BY UnitArithmetic DEF Runner!Stop, Runner!data, Runner!control, RunnerRound, RunnerPeer,
     RunnerHalf, RunnerStatus, RunnerChan, FirstWire
<1>3. QED
  BY <1>1, <1>2 DEF Runner!Finish, RunnerRound, RunnerPeer

(* A step of one party changes what is stood for only at that party.       *)
Apart(p) ==
  \A x \in Party : x # p =>
    /\ Ended(x)' <=> Ended(x)
    /\ round'[x] = round[x] /\ peer'[x] = peer[x] /\ half'[x] = half[x]

LEMMA AtOneParty ==
  ASSUME RunInv, RunInv', NEW p \in Party, Apart(p)
  PROVE  /\ RunnerRound' = [RunnerRound EXCEPT ![p] = RunnerRound'[p]]
         /\ RunnerPeer' = [RunnerPeer EXCEPT ![p] = RunnerPeer'[p]]
         /\ RunnerHalf' = [RunnerHalf EXCEPT ![p] = RunnerHalf'[p]]
         /\ RunnerStatus' = [RunnerStatus EXCEPT ![p] = RunnerStatus'[p]]
<1>1. ASSUME NEW x \in Party, x # p
      PROVE  /\ RunnerRound'[x] = RunnerRound[x] /\ RunnerPeer'[x] = RunnerPeer[x]
             /\ RunnerHalf'[x] = RunnerHalf[x] /\ RunnerStatus'[x] = RunnerStatus[x]
  <2>1. /\ LoopInv /\ LoopInv' /\ (Ended(x)' <=> Ended(x))
        /\ round'[x] = round[x] /\ peer'[x] = peer[x] /\ half'[x] = half[x]
    BY <1>1 DEF RunInv, Apart
  <2>2. CASE Ended(x)
    BY <2>1, <2>2, RunnerControl, RunnerControlNext DEF Control
  <2>3. CASE ~Ended(x)
    BY <2>1, <2>3, RunnerControl, RunnerControlNext DEF Control
  <2>4. QED
    BY <2>2, <2>3
<1>2. /\ RunnerRound = [x \in Party |-> RunnerRound[x]]
      /\ RunnerRound' = [x \in Party |-> RunnerRound'[x]]
  BY DEF RunnerRound
<1>3. /\ RunnerPeer = [x \in Party |-> RunnerPeer[x]]
      /\ RunnerPeer' = [x \in Party |-> RunnerPeer'[x]]
  BY DEF RunnerPeer
<1>4. /\ RunnerHalf = [x \in Party |-> RunnerHalf[x]]
      /\ RunnerHalf' = [x \in Party |-> RunnerHalf'[x]]
  BY DEF RunnerHalf
<1>5. /\ RunnerStatus = [x \in Party |-> RunnerStatus[x]]
      /\ RunnerStatus' = [x \in Party |-> RunnerStatus'[x]]
  BY DEF RunnerStatus
<1> HIDE DEF Apart
<1>6. QED
  BY <1>1, <1>2, <1>3, <1>4, <1>5

(* Calls and the end of a loop leave everything else alone.                *)
LEMMA StepsApart ==
  ASSUME RunInv, NEW p \in Party,
         SplitShares(p) \/ Send(p) \/ Recv(p) \/ ComputePartial(p) \/ EndProcess(p)
  PROVE  /\ Apart(p) /\ (~EndProcess(p) => (Ended(p)' <=> Ended(p)))
         /\ (Ended(p) => starts[p] > 1)
<1>0. /\ TypeOK /\ ExchangeTypeOK /\ starts[p] \in Nat
      /\ main[p] # "off"
  BY RunFacts DEF SplitShares, Send, SendTurn, InExchange, Recv, RecvTurn, ComputePartial,
     EndProcess, Exit, Returned
<1>3. Ended(p) => starts[p] > 1
  BY <1>0 DEF Ended
<1>1. CASE EndProcess(p)
  BY <1>0, <1>1 DEF EndProcess, Exit, Apart, Ended, TypeOK, ExchangeTypeOK
<1>2. CASE SplitShares(p) \/ Send(p) \/ Recv(p) \/ ComputePartial(p)
  <2>1. UNCHANGED <<starts, main>>
    BY <1>2 DEF SplitShares, Send, Recv, ComputePartial, vars
  <2>2. \A x \in Party : x # p =>
          round'[x] = round[x] /\ peer'[x] = peer[x] /\ half'[x] = half[x]
    BY <1>0, <1>2 DEF SplitShares, Send, Recv, ComputePartial, NextCall, ExchangeTypeOK
  <2>3. QED
    BY <1>3, <2>1, <2>2 DEF Apart, Ended
<1>4. QED
  BY <1>1, <1>2

LEMMA SplitStep ==
  ASSUME RunInv, RunInv', RoundInv, NEW p \in Party, SplitShares(p)
  PROVE  Runner!SplitShares(p) \/ UNCHANGED Runner!vars
<1>0. /\ Apart(p) /\ (Ended(p)' <=> Ended(p)) /\ LoopInv /\ LoopInv' /\ ExchangeTypeOK
      /\ round[p] = 0 /\ round'[p] = 1 /\ peer'[p] = FirstPeer(p) /\ half'[p] = half[p]
      /\ wire' = wire
  <2>1. ExchangeTypeOK /\ LoopInv /\ LoopInv' /\ ~EndProcess(p)
    <3>1. ASSUME EndProcess(p) PROVE FALSE
      BY <3>1, RunFacts DEF EndProcess, Exit, SplitShares, vars, TypeOK
    <3>2. QED
      BY <3>1, RunFacts DEF RunInv
  <2>2. QED
    BY <2>1, StepsApart DEF SplitShares, ExchangeTypeOK
<1>1. RunnerChan' = RunnerChan /\ \A x, y \in Party : FirstWire(x, y)' = FirstWire(x, y)
  BY <1>0 DEF RunnerChan, FirstWire, Reader
<1>2. CASE Ended(p)
  <2>1. \A x \in Party : ~Ended(x) => x # p
    BY <1>2
  <2>2. QED
    BY <1>0, <1>1, <1>2, <2>1, Stutters DEF Apart
<1>3. CASE ~Ended(p)
  <2>1. /\ RunnerRound[p] = 0 /\ RunnerPeer[p] = FirstPeer(p) /\ RunnerHalf[p] = half[p]
        /\ RunnerStatus[p] = "running"
    BY <1>0, <1>3, RunnerControl DEF Control
  <2>2. /\ RunnerRound'[p] = 1 /\ RunnerPeer'[p] = FirstPeer(p) /\ RunnerHalf'[p] = half[p]
        /\ RunnerStatus'[p] = "running"
    BY <1>0, <1>3, RunnerControlNext
  <2>3. RunnerRound' = [RunnerRound EXCEPT ![p] = 1]
    BY <1>0, <2>2, AtOneParty
  <2>4. UNCHANGED <<RunnerPeer, RunnerHalf, RunnerStatus>>
    <3>1. /\ RunnerPeer = [RunnerPeer EXCEPT ![p] = RunnerPeer[p]]
          /\ RunnerHalf = [RunnerHalf EXCEPT ![p] = RunnerHalf[p]]
          /\ RunnerStatus = [RunnerStatus EXCEPT ![p] = RunnerStatus[p]]
      BY DEF RunnerPeer, RunnerHalf, RunnerStatus
    <3>2. QED
      BY <1>0, <2>1, <2>2, <3>1, AtOneParty
  <2>5. QED
    BY <1>1, <2>1, <2>3, <2>4, AsSplitShares
<1>4. QED
  BY <1>2, <1>3

(* A call of a party in its first round is one of MpcRunner.               *)
LEMMA CallStep ==
  ASSUME RunInv, RunInv', RoundInv, NEW p \in Party, Send(p) \/ Recv(p), ~Ended(p),
         NEW q \in Party, q = peer[p]
  PROVE  Calls(p, q) /\ RunnerHalf[p] = half[p] /\ RunnerRound[p] = round[p]
<1>0. /\ InExchange(p) /\ NextCall(p) /\ LoopInv /\ LoopInv' /\ ExchangeTypeOK
      /\ Apart(p) /\ ~Ended(p)' /\ round[p] \in {1, 2} /\ n[p] = N /\ q < N
  <2>1. InExchange(p) /\ NextCall(p) /\ ~EndProcess(p)
    BY Alone DEF Send, SendTurn, Recv, RecvTurn
  <2>2. n[p] = N
    BY RunFacts, AllPeers DEF RoundInv
  <2>3. QED
    BY <2>1, <2>2, StepsApart, RunFacts DEF InExchange, RunInv
<1>1. /\ half'[p] = 1 - half[p] /\ round'[p] = round[p]
      /\ peer'[p] = IF half[p] = 0 THEN peer[p] ELSE NextPeer(p, peer[p])
  BY <1>0 DEF NextCall, ExchangeTypeOK
<1>2. /\ RunnerRound[p] = round[p] /\ RunnerPeer[p] = q /\ RunnerHalf[p] = half[p]
      /\ RunnerStatus[p] = "running"
  BY <1>0, RunnerControl DEF Control
<1>3. /\ RunnerRound'[p] = RunnerRound[p] /\ RunnerHalf'[p] = 1 - RunnerHalf[p]
      /\ RunnerStatus'[p] = RunnerStatus[p]
      /\ RunnerPeer'[p] = IF RunnerHalf[p] = 0 THEN RunnerPeer[p]
                          ELSE NextPeer(p, RunnerPeer[p])
  BY <1>0, <1>1, <1>2, RunnerControlNext
<1>4. /\ RunnerHalf' = [RunnerHalf EXCEPT ![p] = 1 - @]
      /\ RunnerPeer' = IF RunnerHalf[p] = 0 THEN RunnerPeer
                       ELSE [RunnerPeer EXCEPT ![p] = NextPeer(p, @)]
      /\ UNCHANGED <<RunnerRound, RunnerStatus>>
  <2>1. /\ RunnerRound = [RunnerRound EXCEPT ![p] = RunnerRound[p]]
        /\ RunnerPeer = [RunnerPeer EXCEPT ![p] = RunnerPeer[p]]
        /\ RunnerStatus = [RunnerStatus EXCEPT ![p] = RunnerStatus[p]]
    BY DEF RunnerRound, RunnerPeer, RunnerStatus
  <2>2. QED
    BY <1>0, <1>3, <2>1, AtOneParty
<1>5. QED
  BY <1>0, <1>2, <1>4 DEF Calls

(* A party in its first round sends to one that is in its first, too.      *)
LEMMA SendArrives ==
  ASSUME RunInv, RoundInv, ServedInv, NEW p \in Party, Send(p), ~Ended(p),
         NEW q \in Party, q = peer[p]
  PROVE  ~Ended(q) /\ fd[p][q] \in live /\ p # q
<1>0. /\ IInv /\ SendTurn(p) /\ Returned(p) /\ starts[p] = 1 /\ q # p /\ q < n[p]
      /\ Sent(p, q) = round[p] - 1 /\ round[p] \in {1, 2}
      /\ starts[q] \in Nat /\ main[p] # "off"
  <2>1. /\ IInv /\ SendTurn(p) /\ Returned(p) /\ q # p /\ q < n[p]
        /\ Sent(p, q) = round[p] - 1 /\ round[p] \in {1, 2} /\ starts[q] \in Nat
    BY RunFacts, TurnCounts DEF Send, SendTurn
  <2>2. starts[p] = 1 /\ main[p] # "off"
    BY <2>1, RunFacts DEF Ended, Returned, ControlInv
  <2>3. QED
    BY <2>1, <2>2
<1>1. starts[q] >= 1
  <2>1. CASE q < p
    BY <1>0, <2>1 DEF IInv, TableInv, Reached, Returned
  <2>2. CASE p < q
    <3>1. fd[p][q] \in Connection /\ fd[p][q].run <= starts[q]
      BY <1>0, <2>2, WhenReturned
    <3>2. fd[p][q].run \in Nat /\ fd[p][q].run >= 1
      BY <3>1, ConnectionFacts, PartyFacts
    <3>3. QED
      BY <1>0, <3>1, <3>2
  <2>3. QED
    BY <1>0, <2>1, <2>2, PartyFacts
<1>2. starts[q] = 1 /\ main[q] # "off"
  <2>1. Finished(q) <= 1 /\ (Finished(q) = 1 => DoneWith(p, q))
    BY <1>0 DEF RoundInv, FinishInv
  <2>2. ~DoneWith(p, q)
    BY <1>0 DEF DoneWith
  <2>3. QED
    BY <1>0, <1>1, <2>1, <2>2 DEF Finished
<1>3. fd[p][q] \in live
  BY <1>0, <1>2, TableOpen
<1>4. QED
  BY <1>0, <1>2, <1>3 DEF Ended

(* What is on its way grows at one end and shrinks at the other.           *)
LEMMA ChanAt ==
  ASSUME NEW p \in Party, NEW q \in Party, NEW s, RunnerChan'[p][q] = s,
         \A x, y \in Party : (x # p \/ y # q) => RunnerChan'[x][y] = RunnerChan[x][y]
  PROVE  RunnerChan' = [RunnerChan EXCEPT ![p][q] = s]
<1>1. /\ RunnerChan = [x \in Party |-> [y \in Party |-> RunnerChan[x][y]]]
      /\ RunnerChan' = [x \in Party |-> [y \in Party |-> RunnerChan'[x][y]]]
  BY DEF RunnerChan
<1>2. QED
  BY ONLY <1>1, p \in Party, q \in Party, RunnerChan'[p][q] = s,
     \A x, y \in Party : (x # p \/ y # q) => RunnerChan'[x][y] = RunnerChan[x][y]

LEMMA FirstWireAdds ==
  ASSUME NEW p \in Party, NEW q \in Party, NEW m, m \notin wire, wire' = wire \cup {m},
         m.by = p, Reader(m) = q, m.of[p] = 1
  PROVE  FirstWire(p, q)' = FirstWire(p, q) \cup {m} /\ m \notin FirstWire(p, q)
BY DEF FirstWire, Reader
LEMMA ChanAppends ==
  ASSUME IsFiniteSet(wire), NEW p \in Party, NEW q \in Party, NEW m,
         m \notin FirstWire(p, q), FirstWire(p, q)' = FirstWire(p, q) \cup {m},
         \A x, y \in Party : (x # p \/ y # q) => FirstWire(x, y)' = FirstWire(x, y)
  PROVE  RunnerChan' = [RunnerChan EXCEPT ![p][q] = Append(@, 0)]
<1>1. IsFiniteSet(FirstWire(p, q))
  BY FS_Subset DEF FirstWire
<1>2. /\ Cardinality(FirstWire(p, q)) \in Nat
      /\ Cardinality(FirstWire(p, q) \cup {m}) = Cardinality(FirstWire(p, q)) + 1
  BY <1>1, FS_CardinalityType, FS_AddElement
<1>3. RunnerChan'[p][q] = Append(RunnerChan[p][q], 0)
  <2>1. /\ RunnerChan[p][q] = Zeros(1 .. Cardinality(FirstWire(p, q)))
        /\ RunnerChan'[p][q] = Zeros(1 .. Cardinality(FirstWire(p, q)'))
    BY DEF RunnerChan, Zeros
  <2>2. QED
    BY <1>2, <2>1, ZeroSequence
<1>4. \A x, y \in Party : (x # p \/ y # q) => RunnerChan'[x][y] = RunnerChan[x][y]
  <2>1. SUFFICES ASSUME NEW x \in Party, NEW y \in Party, x # p \/ y # q
                 PROVE  RunnerChan'[x][y] = RunnerChan[x][y]
    OBVIOUS
  <2>2. /\ RunnerChan[x][y] = Zeros(1 .. Cardinality(FirstWire(x, y)))
        /\ RunnerChan'[x][y] = Zeros(1 .. Cardinality(FirstWire(x, y)'))
    BY DEF RunnerChan, Zeros
  <2>3. QED
    BY <2>1, <2>2
<1>5. QED
  BY <1>3, <1>4, ChanAt

LEMMA ChanShrinks ==
  ASSUME IsFiniteSet(wire), NEW p \in Party, NEW q \in Party, NEW m,
         m \in FirstWire(p, q), FirstWire(p, q)' = FirstWire(p, q) \ {m},
         \A x, y \in Party : (x # p \/ y # q) => FirstWire(x, y)' = FirstWire(x, y)
  PROVE  /\ RunnerChan[p][q] # <<>> /\ Head(RunnerChan[p][q]) = 0
         /\ RunnerChan' = [RunnerChan EXCEPT ![p][q] = Tail(@)]
<1>1. IsFiniteSet(FirstWire(p, q))
  BY FS_Subset DEF FirstWire
<1>2. /\ Cardinality(FirstWire(p, q)) \in Nat /\ Cardinality(FirstWire(p, q)) # 0
      /\ Cardinality(FirstWire(p, q) \ {m}) = Cardinality(FirstWire(p, q)) - 1
  BY <1>1, FS_CardinalityType, FS_RemoveElement, FS_EmptySet
<1>3. /\ RunnerChan[p][q] # <<>> /\ Head(RunnerChan[p][q]) = 0
      /\ RunnerChan'[p][q] = Tail(RunnerChan[p][q])
  <2>1. /\ RunnerChan[p][q] = Zeros(1 .. Cardinality(FirstWire(p, q)))
        /\ RunnerChan'[p][q] = Zeros(1 .. Cardinality(FirstWire(p, q)'))
    BY DEF RunnerChan, Zeros
  <2>2. QED
    BY <1>2, <2>1, ZeroSequence
<1>4. \A x, y \in Party : (x # p \/ y # q) => RunnerChan'[x][y] = RunnerChan[x][y]
  <2>1. SUFFICES ASSUME NEW x \in Party, NEW y \in Party, x # p \/ y # q
                 PROVE  RunnerChan'[x][y] = RunnerChan[x][y]
    OBVIOUS
  <2>2. /\ RunnerChan[x][y] = Zeros(1 .. Cardinality(FirstWire(x, y)))
        /\ RunnerChan'[x][y] = Zeros(1 .. Cardinality(FirstWire(x, y)'))
    BY DEF RunnerChan, Zeros
  <2>3. QED
    BY <2>1, <2>2
<1>5. RunnerChan' = [RunnerChan EXCEPT ![p][q] = Tail(RunnerChan[p][q])]
  <2> DEFINE rest == Tail(RunnerChan[p][q])
  <2>1. RunnerChan'[p][q] = rest
    BY <1>3
  <2> HIDE DEF rest
  <2>2. RunnerChan' = [RunnerChan EXCEPT ![p][q] = rest]
    BY <1>4, <2>1, ChanAt
  <2>3. QED
    BY <2>2 DEF rest
<1>6. QED
  BY <1>3, <1>5

LEMMA SendStep ==
  ASSUME RunInv, RunInv', RoundInv, ServedInv, IsFiniteSet(wire), NEW p \in Party, Send(p)
  PROVE  Runner!Send(p) \/ UNCHANGED Runner!vars
<1>1. PICK q \in Party : q = peer[p]
  BY RunFacts, PeerFacts DEF Send, SendTurn
<1>2. /\ Apart(p) /\ (Ended(p)' <=> Ended(p)) /\ (Ended(p) => starts[p] > 1)
  BY StepsApart, Alone
<1>3. CASE Ended(p)
  <2>1. \A m \in wire' \ wire : m.of[p] # 1 /\ m.by = p
    <3>1. starts[p] # 1
      BY <1>2, <1>3, RunFacts
    <3>2. CASE fd[p][q] \in live
      <4>1. wire' = wire \cup {NewMessage(p)}
        BY <1>1, <3>2, SendEffect
      <4>2. NewMessage(p).of[p] # 1 /\ NewMessage(p).by = p
        BY <1>1, <3>1, <3>2, SendEffect
      <4>3. QED
        BY <4>1, <4>2
    <3>3. CASE fd[p][q] \notin live
      BY <1>1, <3>3, SendEffect
    <3>4. QED
      BY <3>2, <3>3
  <2>2. wire \in SUBSET wire'
    BY <1>1, SendEffect
  <2>3. \A x, y \in Party : FirstWire(x, y)' = FirstWire(x, y)
    BY <2>1, <2>2 DEF FirstWire, Reader
  <2>4. \A x \in Party : ~Ended(x) => x # p
    BY <1>3
  <2>5. QED
    BY <1>2, <1>3, <2>3, <2>4, Stutters DEF Apart
<1>4. CASE ~Ended(p)
  <2>1. Calls(p, q) /\ RunnerHalf[p] = half[p]
    BY <1>1, <1>4, CallStep
  <2>2. ~Ended(q) /\ fd[p][q] \in live /\ p # q
    BY <1>1, <1>4, SendArrives
  <2>3. /\ wire' = wire \cup {NewMessage(p)}
        /\ NewMessage(p).by = p /\ Reader(NewMessage(p)) = q
        /\ NewMessage(p).part = round[p] /\ NewMessage(p).of[p] = starts[p]
    BY <1>1, <2>2, SendEffect
  <2>4. /\ SendTurn(p) /\ Sent(p, q) = round[p] - 1 /\ round[p] \in {1, 2}
        /\ main[p] # "off" /\ starts[p] = 1
    <3>1. SendTurn(p) /\ Sent(p, q) = round[p] - 1 /\ round[p] \in {1, 2} /\ Returned(p)
      BY <1>1, RunFacts, TurnCounts DEF Send, SendTurn
    <3>2. starts[p] \in Nat /\ starts[p] >= 1
      BY <3>1, RunFacts DEF ControlInv, Returned
    <3>3. QED
      BY <1>4, <3>1, <3>2 DEF Ended, Returned
  <2>5. NewMessage(p) \notin wire
    <3>1. SUFFICES ASSUME NewMessage(p) \in wire PROVE FALSE
      OBVIOUS
    <3>2. NewMessage(p) \in Inbox(q, p)
      BY <2>3, <3>1 DEF Inbox
    <3>3. NewMessage(p).part <= Sent(p, q)
      BY <2>3, <2>4, <3>2 DEF RunInv, OrderInv
    <3>4. QED
      BY <2>3, <2>4, <3>3
  <2>6. \A x, y \in Party : (x # p \/ y # q) => FirstWire(x, y)' = FirstWire(x, y)
    BY <2>3 DEF FirstWire, Reader
  <2>7. /\ FirstWire(p, q)' = FirstWire(p, q) \cup {NewMessage(p)}
        /\ NewMessage(p) \notin FirstWire(p, q)
    BY <2>3, <2>4, <2>5, FirstWireAdds
  <2>8. RunnerChan' = [RunnerChan EXCEPT ![p][q] = Append(@, 0)]
    BY <2>6, <2>7, ChanAppends
  <2>9. RunnerHalf[p] = 0 <=> p < q
    BY <1>1, <2>1, <2>4 DEF SendTurn
  <2>10. RunnerStatus[q] = "running"
    BY <2>2 DEF RunnerStatus
  <2>11. QED
    BY <2>1, <2>8, <2>9, <2>10, AsSend
<1>5. QED
  BY <1>3, <1>4

LEMMA RecvStep ==
  ASSUME RunInv, RunInv', RoundInv, ServedInv, IsFiniteSet(wire), NEW p \in Party, Recv(p)
  PROVE  Runner!Recv(p) \/ UNCHANGED Runner!vars
<1>1. PICK q \in Party : q = peer[p]
  BY RunFacts, PeerFacts DEF Recv, RecvTurn
<1>2. /\ Apart(p) /\ (Ended(p)' <=> Ended(p)) /\ (Ended(p) => starts[p] > 1)
  BY StepsApart, Alone
<1>3. PICK m \in Inbox(p, q) : wire' = wire \ {m}
  BY <1>1, RecvEffect
<1>4. RecvTurn(p) /\ q # p /\ m \in wire /\ m.by = q /\ Reader(m) = p
  BY <1>1, <1>3, RecvEffect DEF Inbox
<1>5. CASE Ended(p)
  <2>1. \A x, y \in Party : m \notin FirstWire(x, y)
    <3>1. SUFFICES ASSUME NEW x \in Party, NEW y \in Party, m \in FirstWire(x, y)
                   PROVE  FALSE
      OBVIOUS
    <3>2. y = p
      BY <1>4, <3>1 DEF FirstWire
    <3>3. QED
      BY <1>5, <3>1, <3>2, FirstWireFacts
  <2>2. \A x, y \in Party : FirstWire(x, y)' = FirstWire(x, y)
    BY <1>3, <2>1 DEF FirstWire, Reader
  <2>3. \A x \in Party : ~Ended(x) => x # p
    BY <1>5
  <2>4. QED
    BY <1>2, <1>5, <2>2, <2>3, Stutters DEF Apart
<1>6. CASE ~Ended(p)
  <2>1. Calls(p, q) /\ RunnerHalf[p] = half[p]
    BY <1>1, <1>6, CallStep
  <2>2. m \in FirstWire(q, p)
    BY <1>3, <1>4, <1>6, FirstWireFacts
  <2>3. \A x, y \in Party : (x # q \/ y # p) => FirstWire(x, y)' = FirstWire(x, y)
    BY <1>3, <1>4 DEF FirstWire, Reader
  <2>4. FirstWire(q, p)' = FirstWire(q, p) \ {m}
    BY <1>3 DEF FirstWire, Reader
  <2>5. /\ RunnerChan[q][p] # <<>> /\ Head(RunnerChan[q][p]) = 0
        /\ RunnerChan' = [RunnerChan EXCEPT ![q][p] = Tail(@)]
    BY <2>2, <2>3, <2>4, ChanShrinks
  <2>6. ~(RunnerHalf[p] = 0 <=> p < q)
    BY <1>1, <1>4, <2>1 DEF RecvTurn, SendTurn
  <2>7. QED
    BY <2>1, <2>5, <2>6, AsRecv
<1>7. QED
  BY <1>5, <1>6

LEMMA ComputePartialStep ==
  ASSUME RunInv, RunInv', RoundInv, NEW p \in Party, ComputePartial(p)
  PROVE  Runner!ComputePartial(p) \/ UNCHANGED Runner!vars
<1>0. /\ round[p] = 1 /\ round'[p] = 2 /\ peer[p] = n[p] /\ peer'[p] = FirstPeer(p)
      /\ half' = half /\ half[p] = 0 /\ wire' = wire /\ main' = main
      /\ LoopInv /\ LoopInv' /\ Returned(p) /\ n[p] = N
  <2>1. LoopInv /\ LoopInv' /\ ExchangeTypeOK /\ n[p] = N
    BY RunFacts, AllPeers DEF RunInv, RoundInv
  <2>2. QED
    BY <2>1 DEF ComputePartial, ExchangeTypeOK, LoopInv, vars
<1>1. /\ Apart(p) /\ (Ended(p)' <=> Ended(p)) /\ (Ended(p) => starts[p] > 1)
  <2>1. ~EndProcess(p)
    <3>1. SUFFICES ASSUME EndProcess(p) PROVE FALSE
      OBVIOUS
    <3>2. main'[p] = "off"
      BY <3>1, RunFacts DEF EndProcess, Exit, TypeOK
    <3>3. QED
      BY <1>0, <3>2 DEF Returned
  <2>2. QED
    BY <2>1, StepsApart
<1>2. RunnerChan' = RunnerChan /\ \A x, y \in Party : FirstWire(x, y)' = FirstWire(x, y)
  BY <1>0 DEF RunnerChan, FirstWire, Reader
<1>3. CASE Ended(p)
  <2>1. \A x \in Party : ~Ended(x) => x # p
    BY <1>3
  <2>2. QED
    BY <1>1, <1>2, <1>3, <2>1, Stutters DEF Apart
<1>4. CASE ~Ended(p)
  <2>1. /\ RunnerRound[p] = 1 /\ RunnerPeer[p] = N /\ RunnerHalf[p] = 0
        /\ RunnerStatus[p] = "running"
    BY <1>0, <1>4, RunnerControl DEF Control
  <2>2. /\ RunnerRound'[p] = 2 /\ RunnerPeer'[p] = FirstPeer(p) /\ RunnerHalf'[p] = 0
        /\ RunnerStatus'[p] = "running"
    BY <1>0, <1>1, <1>4, RunnerControlNext
  <2>3. /\ RunnerRound' = [RunnerRound EXCEPT ![p] = 2]
        /\ RunnerPeer' = [RunnerPeer EXCEPT ![p] = FirstPeer(p)]
    BY <1>1, <2>2, AtOneParty
  <2>4. UNCHANGED <<RunnerHalf, RunnerStatus>>
    <3>1. /\ RunnerHalf = [RunnerHalf EXCEPT ![p] = RunnerHalf[p]]
          /\ RunnerStatus = [RunnerStatus EXCEPT ![p] = RunnerStatus[p]]
      BY DEF RunnerHalf, RunnerStatus
    <3>2. QED
      BY <1>1, <2>1, <2>2, <3>1, AtOneParty
  <2>5. QED
    BY <1>2, <2>1, <2>3, <2>4, AsComputePartial
<1>5. QED
  BY <1>3, <1>4

(* A process that ends its first round leaves nothing unread.              *)
LEMMA FinishStep ==
  ASSUME RunInv, RunInv', RoundInv, NEW p \in Party, Finish(p)
  PROVE  Runner!Finish(p) \/ UNCHANGED Runner!vars
<1>0. /\ round[p] = 2 /\ peer[p] = n[p] /\ n[p] = N /\ half[p] = 0 /\ main[p] # "off"
      /\ EndProcess(p) /\ LoopInv /\ LoopInv' /\ starts' = starts /\ main'[p] = "off"
      /\ wire' = {m \in wire : Reader(m) # p}
  <2>1. LoopInv /\ LoopInv' /\ ExchangeTypeOK /\ TypeOK /\ n[p] = N
    BY RunFacts, AllPeers DEF RunInv, RoundInv
  <2>2. QED
    BY <2>1 DEF Finish, Succeeds, Returned, EndProcess, Exit, TypeOK, LoopInv
<1>1. Apart(p) /\ (Ended(p) => starts[p] > 1) /\ Ended(p)'
  <2>1. Apart(p) /\ (Ended(p) => starts[p] > 1)
    BY <1>0, StepsApart
  <2>2. starts[p] \in Nat /\ starts[p] >= 1
    BY <1>0, RunFacts DEF ControlInv
  <2>3. QED
    BY <1>0, <2>1, <2>2 DEF Ended
<1>2. \A x, y \in Party : FirstWire(x, y)' = IF y = p THEN {} ELSE FirstWire(x, y)
  BY <1>0 DEF FirstWire, Reader
<1>3. CASE Ended(p)
  <2>1. \A x \in Party : FirstWire(x, p) = {}
    BY <1>3, FirstWireFacts
  <2>2. \A x, y \in Party : FirstWire(x, y)' = FirstWire(x, y)
    BY <1>2, <2>1
  <2>3. \A x \in Party : ~Ended(x) => x # p
    BY <1>3
  <2>4. QED
    BY <1>1, <1>3, <2>2, <2>3, Stutters DEF Apart
<1>4. CASE ~Ended(p)
  <2>1. /\ RunnerRound[p] = 2 /\ RunnerPeer[p] = N /\ RunnerHalf[p] = 0
        /\ RunnerStatus[p] = "running"
    BY <1>0, <1>4, RunnerControl DEF Control
  <2>2. /\ RunnerRound'[p] = 2 /\ RunnerPeer'[p] = N /\ RunnerHalf'[p] = 0
        /\ RunnerStatus'[p] = "MPC_OK"
    BY <1>0, <1>1, RunnerControlNext DEF Control
  <2>3. RunnerStatus' = [RunnerStatus EXCEPT ![p] = "MPC_OK"]
    BY <1>1, <2>2, AtOneParty
  <2>4. UNCHANGED <<RunnerRound, RunnerPeer, RunnerHalf>>
    <3>1. /\ RunnerRound = [RunnerRound EXCEPT ![p] = RunnerRound[p]]
          /\ RunnerPeer = [RunnerPeer EXCEPT ![p] = RunnerPeer[p]]
          /\ RunnerHalf = [RunnerHalf EXCEPT ![p] = RunnerHalf[p]]
      BY DEF RunnerRound, RunnerPeer, RunnerHalf
    <3>2. QED
      BY <1>1, <2>1, <2>2, <3>1, AtOneParty
  <2>5. RunnerChan' = [x \in Party |-> [RunnerChan[x] EXCEPT ![p] = <<>>]]
    <3>1. Zeros(1 .. Cardinality({})) = <<>>
      BY FS_EmptySet, ZeroSequence
    <3>2. RunnerChan' = [x \in Party |-> [y \in Party |->
                           IF y = p THEN <<>> ELSE Zeros(1 .. Cardinality(FirstWire(x, y)))]]
      BY <1>2, <3>1 DEF RunnerChan
    <3>3. QED
      BY <3>2 DEF RunnerChan
  <2>6. QED
    BY <2>1, <2>3, <2>4, <2>5, AsFinish
<1>5. QED
  BY <1>3, <1>4

LEMMA RunnerStep ==
  RunInv /\ RunInv' /\ RoundInv /\ ServedInv /\ IsFiniteSet(wire) /\ [RoundsNext]_allVars
    => [Runner!Next]_Runner!vars
<1> SUFFICES ASSUME RunInv, RunInv', RoundInv, ServedInv, IsFiniteSet(wire),
                    [RoundsNext]_allVars
             PROVE  Runner!Next \/ UNCHANGED Runner!vars
  OBVIOUS
<1>1. ASSUME NEW p \in Party,
             \/ Runner!SplitShares(p) \/ Runner!Send(p) \/ Runner!Recv(p)
             \/ Runner!ComputePartial(p) \/ Runner!Finish(p)
      PROVE  Runner!Next
  <2>1. Runner!Step(p)
    BY <1>1 DEF Runner!Step
  <2>2. QED
    BY <2>1, UnitArithmetic DEF Runner!Next
<1>2. CASE Quiet
  BY <1>2, QuietStutters
<1>3. ASSUME NEW p \in Party, SplitShares(p) PROVE Runner!Next \/ UNCHANGED Runner!vars
  BY <1>1, <1>3, SplitStep
<1>4. ASSUME NEW p \in Party, Send(p) PROVE Runner!Next \/ UNCHANGED Runner!vars
  BY <1>1, <1>4, SendStep
<1>5. ASSUME NEW p \in Party, Recv(p) PROVE Runner!Next \/ UNCHANGED Runner!vars
  BY <1>1, <1>5, RecvStep
<1>6. ASSUME NEW p \in Party, ComputePartial(p)
      PROVE  Runner!Next \/ UNCHANGED Runner!vars
  BY <1>1, <1>6, ComputePartialStep
<1>7. ASSUME NEW p \in Party, EndProcess(p) PROVE Runner!Next \/ UNCHANGED Runner!vars
  <2>1. main[p] # "off" /\ main'[p] = "off"
    BY <1>7, RunFacts DEF EndProcess, Exit, TypeOK
  <2>2. Finish(p)
    BY <2>1, EndsWell DEF Finish
  <2>3. QED
    BY <1>1, <2>2, FinishStep
<1>8. QED
  BY <1>2, <1>3, <1>4, <1>5, <1>6, <1>7, RunCases, RoundIsStep

LEMMA RunnerInit == MeterInit => Runner!Init
<1> SUFFICES ASSUME MeterInit PROVE Runner!Init
  OBVIOUS
<1>1. /\ main = [p \in Party |-> "off"] /\ starts = [p \in Party |-> 0] /\ wire = {}
      /\ round = [p \in Party |-> 0] /\ half = [p \in Party |-> 0]
  BY DEF MeterInit, Init
<1>2. \A p \in Party : ~Ended(p) /\ ~Returned(p)
  BY <1>1 DEF Ended, Returned
<1>3. /\ RunnerRound = [p \in Party |-> 0] /\ RunnerPeer = [p \in Party |-> FirstPeer(p)]
      /\ RunnerHalf = [p \in Party |-> 0] /\ RunnerStatus = [p \in Party |-> "running"]
  BY <1>1, <1>2 DEF RunnerRound, RunnerPeer, RunnerHalf, RunnerStatus, OfFirstRound
<1>4. RunnerChan = [p \in Party |-> [q \in Party |-> <<>>]]
  <2>1. Zeros(1 .. Cardinality({})) = <<>>
    BY FS_EmptySet, ZeroSequence
  <2>2. \A p, q \in Party : FirstWire(p, q) = {}
    BY <1>1 DEF FirstWire
  <2>3. QED
    BY <2>1, <2>2 DEF RunnerChan
<1>5. Zeros(Party) \in [Party -> Runner!Field]
  BY UnitArithmetic DEF Zeros
<1>6. QED
  BY <1>3, <1>4, <1>5, UnitArithmetic DEF Runner!Init, Runner!FirstPeer, FirstPeer, Zeros,
     RunnerRound, RunnerPeer, RunnerHalf, RunnerStatus, RunnerChan, FirstWire

(* What comm_init hands over is what mpc_run_from_config's rounds start    *)
(* from: in its first round every party does what MpcRunner says and sends *)
(* and takes the messages that MpcRunner says, whoever starts first and    *)
(* however many rounds the others are ahead (mpc_runner.c:263-380).        *)
THEOREM RunnerImplemented == RoundsSpec /\ OneConfiguration => ImplementsRunner
<1>1. MeterInit /\ OneConfiguration =>
        RunInv /\ RoundInv /\ ServedInv /\ IsFiniteSet(wire) /\ Runner!Init
  BY RunInit, RoundInit, ServedInit, RunnerInit
<1>2. RunInv /\ RoundInv /\ ServedInv /\ IsFiniteSet(wire) /\ [RoundsNext]_allVars
        => RunInv' /\ RoundInv' /\ ServedInv' /\ IsFiniteSet(wire)'
  BY RunNext, RoundNext, ServedNext, RoundIsStep
<1>3. RunInv /\ RunInv' /\ RoundInv /\ ServedInv /\ IsFiniteSet(wire)
        /\ [RoundsNext]_allVars => [Runner!Next]_Runner!vars
  BY RunnerStep
<1>4. QED
  BY <1>1, <1>2, <1>3, PTL DEF RoundsSpec, ImplementsRunner, Runner!Spec
=============================================================================
