------------------------- MODULE GridOperator_proofs ------------------------
(***************************************************************************)
(* What the operator prints, for every number of meters.                   *)
(*                                                                         *)
(* The two variants differ in which meters receive before they send and in *)
(* how the operator accepts: the steps of the meters are dealt with once,  *)
(* for any set F of meters that receive first.                             *)
(***************************************************************************)
EXTENDS TwoMeterOperator, FiniteSetTheorems, SequenceTheorems, TLAPS

BoundsOK == N \in Nat \ {0, 1} /\ MaxRuns \in Nat \ {0} /\ MaxFails \in Nat

-----------------------------------------------------------------------------
(* The inductive invariant.                                                *)

Connection == [from : Meter, run : Run, sum : Sum, words : 0 .. 2]

TypeInv ==
  /\ faulty \in BOOLEAN /\ fails \in 0 .. MaxFails /\ run \in Run
  /\ at \in [Meter -> {"off", "init", "send", "recv", "connect", "report",
                       "done", "dead"}]
  /\ peer \in [Meter -> Meter]
  /\ sent \in SUBSET (Meter \X Meter)
  /\ received \in [Meter -> Sum]
  /\ queue \in Seq(Connection)
  /\ operator \in {"off", "accept", "recv", "done"} /\ i \in 0 .. N
  /\ cfd \in Connection \cup {None}
  /\ partials \in [Meter -> Sum \cup {None}] /\ ignored \in BOOLEAN

(* Where the operator is in its loop.                                      *)
LoopInv ==
  /\ operator = "recv" => cfd \in Connection /\ i < N
  /\ operator # "recv" => cfd = None
  /\ operator = "done" => i = N

(* A meter that has got all shares, or those up to its peer, has shares of *)
(* its own run.                                                            *)
Complete(p, F) ==
  at[p] \in {"connect", "report", "done"} \/ (p \in F /\ at[p] = "send")
SharesInv(F) ==
  ~ignored => \A p \in Meter :
    /\ Complete(p, F) => \A q \in Meter : received[p][q] = run
    /\ at[p] = "recv" =>
         \A q \in Meter : q < peer[p] \/ q = p => received[p][q] = run
    /\ at[p] = "send" => received[p][p] = run

(* What is reported is a sum of shares of one run.                         *)
OfRun(c) == \A q \in Meter : c.sum[q] = c.run
SumsInv ==
  ~ignored =>
    /\ \A x \in 1 .. Len(queue) : OfRun(queue[x])
    /\ cfd # None => OfRun(cfd)
    /\ \A p, q \in Meter : Heard(p) => partials[p][q] = partials[p][p]

MetersInv(F) == TypeInv /\ LoopInv /\ SharesInv(F) /\ SumsInv

(* In the first run no meter reports twice, so i counts the meters heard.  *)
Waiting(p) == at[p] \in {"off", "init", "send", "recv", "connect"}
Pending(p) ==
  \/ cfd # None /\ cfd.from = p
  \/ \E x \in 1 .. Len(queue) : queue[x].from = p
CountInv ==
  run = 1 /\ ~ignored =>
    /\ \A p \in Meter : Waiting(p) => ~Heard(p) /\ ~Pending(p)
    /\ \A p \in Meter : Pending(p) => ~Heard(p)
    /\ \A x \in 1 .. Len(queue) : cfd # None => cfd.from # queue[x].from
    /\ \A x, y \in 1 .. Len(queue) : queue[x].from = queue[y].from => x = y
    /\ i = Cardinality({p \in Meter : Heard(p)})

(* With a port for each meter the operator has heard those before i.       *)
InOrderInv == \A p \in Meter : p < i => Heard(p)

GridInv == MetersInv({}) /\ CountInv
TwoInv == MetersInv(Meter \ {0}) /\ InOrderInv

-----------------------------------------------------------------------------
(* The data.                                                               *)

LEMMA MeterFacts ==
  ASSUME BoundsOK
  PROVE  /\ 0 \in Meter /\ 1 \in Meter /\ Meter \in SUBSET Nat
         /\ \A n \in Nat : n < N => n \in Meter
         /\ \A n \in Meter : n < N
         /\ MaxRuns \in Nat /\ MaxRuns >= 1 /\ MaxFails \in Nat /\ N \in Nat
         /\ 1 \in Run /\ Run \in SUBSET Nat
BY DEF BoundsOK, Meter, Run

LEMMA SumFacts ==
  ASSUME BoundsOK
  PROVE  Garbage \in Sum /\ None \notin Sum
<1>1. Garbage \in Sum
  BY DEF Garbage, Sum
<1>2. ASSUME None \in Sum PROVE FALSE
  <2>1. DOMAIN None = Meter
    BY <1>2 DEF Sum
  <2>2. DOMAIN None = {}
    BY DEF None
  <2>3. QED
    BY <2>1, <2>2, MeterFacts
<1>3. QED
  BY <1>1, <1>2

LEMMA MeterFinite ==
  ASSUME BoundsOK
  PROVE  IsFiniteSet(Meter) /\ Cardinality(Meter) = N
<1>1. 0 \in Int /\ N - 1 \in Int /\ N \in Nat \ {0}
  BY DEF BoundsOK
<1>2. /\ IsFiniteSet(0 .. (N - 1))
      /\ Cardinality(0 .. (N - 1)) = IF 0 > N - 1 THEN 0 ELSE (N - 1) - 0 + 1
  BY <1>1, FS_Interval
<1>3. QED
  BY <1>1, <1>2 DEF Meter

(* What Deliver changes is the number of words.                            *)
LEMMA DeliverFacts ==
  ASSUME TypeInv, LoopInv, NEW p \in Meter, NEW k \in 0 .. 2, Deliver(p, k)
  PROVE  /\ queue' \in Seq(Connection) /\ Len(queue') = Len(queue)
         /\ \A x \in 1 .. Len(queue) :
              /\ queue'[x].from = queue[x].from /\ queue'[x].run = queue[x].run
              /\ queue'[x].sum = queue[x].sum
         /\ cfd' \in Connection \cup {None}
         /\ cfd \in Connection => cfd' \in Connection
         /\ cfd = None => cfd' = None
         /\ cfd' # None =>
              /\ cfd # None
              /\ cfd'.from = cfd.from /\ cfd'.run = cfd.run /\ cfd'.sum = cfd.sum
<1> DEFINE With(c) == IF Mine(p, c) THEN [c EXCEPT !.words = k] ELSE c
<1>1. \A c \in Connection :
        /\ With(c) \in Connection /\ With(c).from = c.from
        /\ With(c).run = c.run /\ With(c).sum = c.sum
  <2>1. SUFFICES ASSUME NEW c \in Connection
                 PROVE  /\ With(c) \in Connection /\ With(c).from = c.from
                        /\ With(c).run = c.run /\ With(c).sum = c.sum
    OBVIOUS
  <2>2. /\ [c EXCEPT !.words = k] \in Connection
        /\ [c EXCEPT !.words = k].from = c.from
        /\ [c EXCEPT !.words = k].run = c.run /\ [c EXCEPT !.words = k].sum = c.sum
    BY DEF Connection
  <2>3. QED
    BY <2>2
<1>2. With(None) = None
  BY DEF Mine
<1>3. queue \in Seq(Connection) /\ cfd \in Connection \cup {None}
  BY DEF TypeInv
<1>4. queue' = [x \in DOMAIN queue |-> With(queue[x])] /\ cfd' = With(cfd)
  BY DEF Deliver
<1> HIDE DEF With
<1>5. /\ queue' \in Seq(Connection) /\ Len(queue') = Len(queue)
      /\ \A x \in 1 .. Len(queue) : queue'[x] = With(queue[x]) /\ queue[x] \in Connection
  <2>1. /\ Len(queue) \in Nat /\ DOMAIN queue = 1 .. Len(queue)
        /\ \A x \in 1 .. Len(queue) : queue[x] \in Connection
    BY <1>3
  <2>2. queue' \in [1 .. Len(queue) -> Connection]
    BY <1>1, <1>4, <2>1
  <2>3. QED
    BY <1>4, <2>1, <2>2
<1>6. QED
  BY <1>1, <1>2, <1>3, <1>4, <1>5

LEMMA AdvanceFacts ==
  ASSUME BoundsOK, TypeInv, NEW p \in Meter, NEW then \in {"send", "recv", "connect"},
         Advance(p, then)
  PROVE  /\ peer' \in [Meter -> Meter]
         /\ at' \in [Meter -> {"off", "init", "send", "recv", "connect", "report",
                              "done", "dead"}]
         /\ \A q \in Meter : q # p => at'[q] = at[q] /\ peer'[q] = peer[q]
         /\ \/ /\ at'[p] = at[p] /\ peer'[p] = NextPeer(p)
            \/ /\ NextPeer(p) >= N /\ at'[p] = then /\ peer'[p] = FirstPeer(p)
<1>1. peer \in [Meter -> Meter] /\ peer[p] \in Nat /\ p \in Nat /\ N \in Nat
  BY MeterFacts DEF TypeInv
<1>2. NextPeer(p) \in Nat /\ FirstPeer(p) \in Meter
  BY <1>1, MeterFacts DEF NextPeer, FirstPeer
<1>3. CASE NextPeer(p) < N
  <2>1. NextPeer(p) \in Meter
    BY <1>2, <1>3, MeterFacts
  <2>2. QED
    BY <1>1, <1>3, <2>1 DEF Advance, TypeInv
<1>4. CASE ~(NextPeer(p) < N)
  <2>1. NextPeer(p) >= N
    BY <1>1, <1>2, <1>4
  <2>2. peer' = [peer EXCEPT ![p] = FirstPeer(p)] /\ at' = [at EXCEPT ![p] = then]
    BY <1>4 DEF Advance, Goto
  <2>3. QED
    BY <1>1, <1>2, <2>1, <2>2 DEF TypeInv
<1>5. QED
  BY <1>3, <1>4

-----------------------------------------------------------------------------
(* Each step keeps the invariant.                                          *)

LEMMA InitInv ==
  ASSUME BoundsOK, Init, NEW F
  PROVE  MetersInv(F) /\ CountInv /\ InOrderInv
<1>1. /\ faulty \in BOOLEAN /\ fails = 0 /\ run = 1
      /\ at = [p \in Meter |-> "off"] /\ peer = [p \in Meter |-> 0]
      /\ sent = {} /\ received = [p \in Meter |-> Garbage] /\ queue = <<>>
      /\ operator = "off" /\ i = 0 /\ cfd = None
      /\ partials = [p \in Meter |-> None] /\ ignored = FALSE
  BY DEF Init
<1>2. queue \in Seq(Connection) /\ Len(queue) = 0
  BY <1>1
<1>3. TypeInv
  <2>1. fails \in 0 .. MaxFails /\ i \in 0 .. N
    BY <1>1, MeterFacts
  <2>2. QED
    BY <1>1, <1>2, <2>1, MeterFacts, SumFacts DEF TypeInv
<1>4. LoopInv /\ SharesInv(F)
  BY <1>1 DEF LoopInv, SharesInv, Complete
<1>5. \A p \in Meter : ~Heard(p) /\ ~Pending(p)
  BY <1>1, <1>2 DEF Heard, Pending
<1>6. SumsInv
  BY <1>1, <1>2, <1>5 DEF SumsInv
<1>7. CountInv
  <2>1. {p \in Meter : Heard(p)} = {}
    BY <1>5
  <2>2. i = Cardinality({p \in Meter : Heard(p)})
    BY <1>1, <2>1, FS_EmptySet
  <2>3. cfd = None /\ \A x \in 1 .. Len(queue) : FALSE
    BY <1>1, <1>2
  <2>4. QED
    BY <1>5, <2>2, <2>3 DEF CountInv
<1>8. InOrderInv
  BY <1>1, MeterFacts DEF InOrderInv
<1>9. QED
  BY <1>3, <1>4, <1>6, <1>7, <1>8 DEF MetersInv

LEMMA StartInv ==
  ASSUME BoundsOK, NEW F, MetersInv(F), NEW p \in Meter, Start(p)
  PROVE  MetersInv(F)' /\ (CountInv => CountInv') /\ (InOrderInv => InOrderInv')
<1>0. TypeInv /\ LoopInv /\ SharesInv(F) /\ SumsInv
  BY DEF MetersInv
<1>1. /\ at[p] = "off" /\ at' = [at EXCEPT ![p] = "init"]
      /\ UNCHANGED <<faulty, fails, run, peer, sent, received, queue, operator,
                     i, cfd, partials, ignored>>
  BY DEF Start, fault, operators, meters, Goto
<1>2. TypeInv'
  BY <1>0, <1>1, MeterFacts DEF TypeInv
<1>3. LoopInv'
  BY <1>0, <1>1 DEF LoopInv
<1>4. SharesInv(F)'
  BY <1>0, <1>1 DEF SharesInv, Complete
<1>5. SumsInv'
  BY <1>0, <1>1 DEF SumsInv, OfRun, Heard
<1>6. CountInv => CountInv'
  BY <1>0, <1>1 DEF CountInv, Waiting, Heard, Pending
<1>7. InOrderInv => InOrderInv'
  BY <1>0, <1>1 DEF InOrderInv, Heard
<1>8. QED
  BY <1>2, <1>3, <1>4, <1>5, <1>6, <1>7 DEF MetersInv

LEMMA InitReturnsInv ==
  ASSUME BoundsOK, NEW F, MetersInv(F), NEW p \in Meter, NEW first, InitReturns(p, first),
         first = IF p \in F THEN "recv" ELSE "send"
  PROVE  MetersInv(F)' /\ (CountInv => CountInv') /\ (InOrderInv => InOrderInv')
<1>0. TypeInv /\ LoopInv /\ SharesInv(F) /\ SumsInv
  BY DEF MetersInv
<1>a. FirstPeer(p) \in Meter /\ p \in Nat /\ \A q \in Meter : q \in Nat /\ (q < FirstPeer(p) => q = p)
  BY MeterFacts DEF FirstPeer
<1>b. received \in [Meter -> Sum] /\ run \in Run \cup {0}
  BY <1>0 DEF TypeInv
<1>1. /\ at[p] = "init" /\ at' = [at EXCEPT ![p] = first]
      /\ peer' = [peer EXCEPT ![p] = FirstPeer(p)]
      /\ received' = [received EXCEPT ![p][p] = run]
      /\ UNCHANGED <<faulty, fails, run, sent, queue, operator, i, cfd,
                     partials, ignored>>
  BY DEF InitReturns, fault, operators, meters, Goto
<1>c. /\ received' \in [Meter -> Sum] /\ received'[p][p] = run
      /\ \A q \in Meter : q # p => received'[q] = received[q]
  BY <1>b, <1>1 DEF Sum
<1>2. TypeInv'
  BY <1>0, <1>1, <1>a, <1>c DEF TypeInv
<1>3. LoopInv'
  BY <1>0, <1>1 DEF LoopInv
<1>4. SharesInv(F)'
  BY <1>0, <1>1, <1>a, <1>c DEF SharesInv, Complete, TypeInv
<1>5. SumsInv'
  BY <1>0, <1>1 DEF SumsInv, OfRun, Heard
<1>6. CountInv => CountInv'
  BY <1>0, <1>1 DEF CountInv, Waiting, Heard, Pending
<1>7. InOrderInv => InOrderInv'
  BY <1>0, <1>1 DEF InOrderInv, Heard
<1>8. QED
  BY <1>2, <1>3, <1>4, <1>5, <1>6, <1>7 DEF MetersInv

LEMMA SendShareInv ==
  ASSUME BoundsOK, NEW F, MetersInv(F), NEW p \in Meter, NEW then, SendShare(p, then),
         then = IF p \in F THEN "connect" ELSE "recv"
  PROVE  MetersInv(F)' /\ (CountInv => CountInv') /\ (InOrderInv => InOrderInv')
<1>0. TypeInv /\ LoopInv /\ SharesInv(F) /\ SumsInv
  BY DEF MetersInv
<1>a. \A q \in Meter : q < FirstPeer(p) => q = p
  BY MeterFacts DEF FirstPeer
<1>1. /\ at[p] = "send" /\ Advance(p, then)
      /\ sent' \in {sent, sent \cup {<<p, peer[p]>>}}
      /\ UNCHANGED <<faulty, fails, run, received, queue, operator, i, cfd,
                     partials, ignored>>
  BY DEF SendShare, fault, operators, meters, Goto
<1>b. /\ peer' \in [Meter -> Meter]
      /\ at' \in [Meter -> {"off", "init", "send", "recv", "connect", "report",
                           "done", "dead"}]
      /\ \A q \in Meter : q # p => at'[q] = at[q] /\ peer'[q] = peer[q]
      /\ \/ /\ at'[p] = at[p] /\ peer'[p] = NextPeer(p)
         \/ /\ NextPeer(p) >= N /\ at'[p] = then /\ peer'[p] = FirstPeer(p)
  BY <1>0, <1>1, AdvanceFacts
<1>2. TypeInv'
  BY <1>0, <1>1, <1>b DEF TypeInv
<1>3. LoopInv'
  BY <1>0, <1>1 DEF LoopInv
<1>4. SharesInv(F)'
  BY <1>0, <1>1, <1>a, <1>b DEF SharesInv, Complete
<1>5. SumsInv'
  BY <1>0, <1>1 DEF SumsInv, OfRun, Heard
<1>6. CountInv => CountInv'
  BY <1>0, <1>1, <1>b DEF CountInv, Waiting, Heard, Pending
<1>7. InOrderInv => InOrderInv'
  BY <1>0, <1>1 DEF InOrderInv, Heard
<1>8. QED
  BY <1>2, <1>3, <1>4, <1>5, <1>6, <1>7 DEF MetersInv

LEMMA RecvShareInv ==
  ASSUME BoundsOK, NEW F, MetersInv(F), NEW p \in Meter, NEW then, RecvShare(p, then),
         then = IF p \in F THEN "send" ELSE "connect"
  PROVE  MetersInv(F)' /\ (CountInv => CountInv') /\ (InOrderInv => InOrderInv')
<1>0. TypeInv /\ LoopInv /\ SharesInv(F) /\ SumsInv
  BY DEF MetersInv
<1>a. \A q \in Meter : q < NextPeer(p) => q < peer[p] \/ q = peer[p] \/ q = p
  <2>1. peer[p] \in Nat /\ p \in Nat /\ Meter \in SUBSET Nat
    BY <1>0, MeterFacts DEF TypeInv
  <2>2. QED
    BY <2>1 DEF NextPeer
<1>1. /\ at[p] = "recv" /\ Advance(p, then)
      /\ sent' = sent \ {<<peer[p], p>>}
      /\ received' = [received EXCEPT ![p][peer[p]] = run]
      /\ UNCHANGED <<faulty, fails, run, queue, operator, i, cfd, partials,
                     ignored>>
  BY DEF RecvShare, fault, operators, meters, Goto
<1>b. /\ peer' \in [Meter -> Meter]
      /\ at' \in [Meter -> {"off", "init", "send", "recv", "connect", "report",
                           "done", "dead"}]
      /\ \A q \in Meter : q # p => at'[q] = at[q] /\ peer'[q] = peer[q]
      /\ \/ /\ at'[p] = at[p] /\ peer'[p] = NextPeer(p)
         \/ /\ NextPeer(p) >= N /\ at'[p] = then /\ peer'[p] = FirstPeer(p)
  BY <1>0, <1>1, AdvanceFacts
<1>c. /\ received' \in [Meter -> Sum] /\ received'[p][peer[p]] = run
      /\ \A q \in Meter : q # peer[p] => received'[p][q] = received[p][q]
      /\ \A q \in Meter : q # p => received'[q] = received[q]
  <2>1. received \in [Meter -> Sum] /\ run \in Run \cup {0} /\ peer[p] \in Meter
    BY <1>0 DEF TypeInv
  <2>2. QED
    BY <1>1, <2>1 DEF Sum
<1>d. \A q \in Meter : q < NextPeer(p) \/ q = p => (~ignored => received'[p][q] = run)
  BY <1>0, <1>1, <1>a, <1>c DEF SharesInv
<1>e. NextPeer(p) >= N => \A q \in Meter : q < NextPeer(p)
  <2>1. NextPeer(p) \in Nat /\ N \in Nat /\ \A q \in Meter : q \in Nat /\ q < N
    BY <1>0, MeterFacts DEF NextPeer, TypeInv
  <2>2. QED
    BY <2>1
<1>2. TypeInv'
  BY <1>0, <1>1, <1>b, <1>c DEF TypeInv
<1>3. LoopInv'
  BY <1>0, <1>1 DEF LoopInv
<1>4. SharesInv(F)'
  <2>1. SUFFICES ASSUME NEW q \in Meter, ~ignored
                 PROVE  /\ Complete(q, F)' => \A o \in Meter : received'[q][o] = run
                        /\ at'[q] = "recv" =>
                             \A o \in Meter : o < peer'[q] \/ o = q => received'[q][o] = run
                        /\ at'[q] = "send" => received'[q][q] = run
    BY <1>1 DEF SharesInv
  <2>2. CASE q # p
    BY <1>0, <1>b, <1>c, <2>1, <2>2 DEF SharesInv, Complete
  <2>3. CASE q = p /\ at'[p] = at[p] /\ peer'[p] = NextPeer(p)
    BY <1>1, <1>d, <2>1, <2>3 DEF Complete
  <2>4. CASE q = p /\ NextPeer(p) >= N /\ at'[p] = then
    BY <1>d, <1>e, <2>1, <2>4
  <2>5. QED
    BY <1>b, <2>2, <2>3, <2>4
<1>5. SumsInv'
  BY <1>0, <1>1 DEF SumsInv, OfRun, Heard
<1>6. CountInv => CountInv'
  BY <1>0, <1>1, <1>b DEF CountInv, Waiting, Heard, Pending
<1>7. InOrderInv => InOrderInv'
  BY <1>0, <1>1 DEF InOrderInv, Heard
<1>8. QED
  BY <1>2, <1>3, <1>4, <1>5, <1>6, <1>7 DEF MetersInv

LEMMA ConnectInv ==
  ASSUME BoundsOK, NEW F, MetersInv(F), NEW p \in Meter, NEW listening, Connect(p, listening)
  PROVE  MetersInv(F)' /\ (CountInv => CountInv') /\ (InOrderInv => InOrderInv')
<1>0. TypeInv /\ LoopInv /\ SharesInv(F) /\ SumsInv
  BY DEF MetersInv
<1> DEFINE new == [from |-> p, run |-> run, sum |-> received[p], words |-> 0]
<1>a. new \in Connection /\ new.from = p /\ new.run = run /\ new.sum = received[p]
  BY <1>0 DEF TypeInv, Connection
<1>1. /\ at[p] = "connect" /\ at' = [at EXCEPT ![p] = "report"]
      /\ queue' = Append(queue, new)
      /\ UNCHANGED <<faulty, fails, run, peer, sent, received, operator, i, cfd,
                     partials, ignored>>
  BY DEF Connect, fault, operators, meters, Goto
<1> HIDE DEF new
<1>b. /\ queue' \in Seq(Connection) /\ Len(queue') = Len(queue) + 1 /\ Len(queue) \in Nat
      /\ \A x \in 1 .. Len(queue) : queue'[x] = queue[x]
      /\ queue'[Len(queue) + 1] = new
  BY <1>0, <1>1, <1>a DEF TypeInv
<1>c. \A x \in 1 .. Len(queue') : x \in 1 .. Len(queue) \/ x = Len(queue) + 1
  BY <1>b
<1>2. TypeInv'
  BY <1>0, <1>1, <1>b DEF TypeInv
<1>3. LoopInv'
  BY <1>0, <1>1 DEF LoopInv
<1>4. SharesInv(F)'
  BY <1>0, <1>1 DEF SharesInv, Complete
<1>5. SumsInv'
  <2>1. ~ignored => OfRun(new)
    BY <1>0, <1>1, <1>a DEF SharesInv, Complete, OfRun
  <2>2. QED
    BY <1>0, <1>1, <1>b, <1>c, <2>1 DEF SumsInv, OfRun, Heard
<1>6. CountInv => CountInv'
  <2>1. SUFFICES ASSUME CountInv, run = 1, ~ignored PROVE CountInv'
    BY <1>1 DEF CountInv
  <2>2. ~Heard(p) /\ ~Pending(p)
    BY <1>1, <2>1 DEF CountInv, Waiting
  <2>3. \A q \in Meter : q # p /\ Pending(q)' => Pending(q)
    BY <1>1, <1>a, <1>b, <1>c DEF Pending
  <2>4. \A q \in Meter : Waiting(q)' => q # p /\ Waiting(q)
    BY <1>0, <1>1 DEF Waiting, TypeInv
  <2>5. \A q \in Meter : Heard(q)' = Heard(q)
    BY <1>1 DEF Heard
  <2>6. \A x \in 1 .. Len(queue) : queue[x].from # p
    BY <2>2 DEF Pending
  <2>7. cfd # None => cfd.from # p
    BY <2>2 DEF Pending
  <2>8. \A x \in 1 .. Len(queue') : cfd' # None => cfd'.from # queue'[x].from
    BY <1>1, <1>a, <1>b, <1>c, <2>1, <2>7 DEF CountInv
  <2>9. \A x, y \in 1 .. Len(queue') : queue'[x].from = queue'[y].from => x = y
    BY <1>a, <1>b, <1>c, <2>1, <2>6 DEF CountInv
  <2>10. {q \in Meter : Heard(q)'} = {q \in Meter : Heard(q)}
    BY <2>5
  <2>11. QED
    BY <1>1, <2>1, <2>2, <2>3, <2>4, <2>5, <2>8, <2>9, <2>10 DEF CountInv
<1>7. InOrderInv => InOrderInv'
  BY <1>0, <1>1 DEF InOrderInv, Heard
<1>8. QED
  BY <1>2, <1>3, <1>4, <1>5, <1>6, <1>7 DEF MetersInv

LEMMA ReportInv ==
  ASSUME BoundsOK, NEW F, MetersInv(F), NEW p \in Meter, Report(p)
  PROVE  MetersInv(F)' /\ (CountInv => CountInv') /\ (InOrderInv => InOrderInv')
<1>0. TypeInv /\ LoopInv /\ SharesInv(F) /\ SumsInv
  BY DEF MetersInv
<1>1. /\ at[p] = "report" /\ at' = [at EXCEPT ![p] = "done"] /\ Deliver(p, 2)
      /\ UNCHANGED <<faulty, fails, run, peer, sent, received, operator, i,
                     partials, ignored>>
  BY DEF Report, fault, operators, meters, Goto
<1>b. /\ queue' \in Seq(Connection) /\ Len(queue') = Len(queue)
      /\ \A x \in 1 .. Len(queue) :
           /\ queue'[x].from = queue[x].from /\ queue'[x].run = queue[x].run
           /\ queue'[x].sum = queue[x].sum
      /\ cfd' \in Connection \cup {None}
      /\ cfd \in Connection => cfd' \in Connection
      /\ cfd = None => cfd' = None
      /\ cfd' # None =>
           /\ cfd # None
           /\ cfd'.from = cfd.from /\ cfd'.run = cfd.run /\ cfd'.sum = cfd.sum
  BY <1>0, <1>1, DeliverFacts
<1>2. TypeInv'
  BY <1>0, <1>1, <1>b DEF TypeInv
<1>3. LoopInv'
  BY <1>0, <1>1, <1>b DEF LoopInv
<1>4. SharesInv(F)'
  BY <1>0, <1>1 DEF SharesInv, Complete
<1>5. SumsInv'
  BY <1>0, <1>1, <1>b DEF SumsInv, OfRun, Heard
<1>6. CountInv => CountInv'
  <2>1. SUFFICES ASSUME CountInv, run = 1, ~ignored PROVE CountInv'
    BY <1>1 DEF CountInv
  <2>2. \A q \in Meter : Pending(q)' => Pending(q)
    BY <1>b DEF Pending
  <2>3. \A q \in Meter : Waiting(q)' => Waiting(q)
    BY <1>0, <1>1 DEF Waiting, TypeInv
  <2>4. \A q \in Meter : Heard(q)' = Heard(q)
    BY <1>1 DEF Heard
  <2>5. {q \in Meter : Heard(q)'} = {q \in Meter : Heard(q)}
    BY <2>4
  <2>6. \A x \in 1 .. Len(queue) : cfd' # None => cfd'.from # queue'[x].from
    BY <1>b, <2>1 DEF CountInv
  <2>7. \A x, y \in 1 .. Len(queue) : queue'[x].from = queue'[y].from => x = y
    BY <1>b, <2>1 DEF CountInv
  <2>8. QED
    BY <1>1, <1>b, <2>1, <2>2, <2>3, <2>4, <2>5, <2>6, <2>7 DEF CountInv
<1>7. InOrderInv => InOrderInv'
  BY <1>0, <1>1 DEF InOrderInv, Heard
<1>8. QED
  BY <1>2, <1>3, <1>4, <1>5, <1>6, <1>7 DEF MetersInv

LEMMA CrashInv ==
  ASSUME BoundsOK, NEW F, MetersInv(F), NEW p \in Meter, Crash(p)
  PROVE  MetersInv(F)' /\ (CountInv => CountInv') /\ (InOrderInv => InOrderInv')
<1>0. TypeInv /\ LoopInv /\ SharesInv(F) /\ SumsInv
  BY DEF MetersInv
<1>1. /\ at[p] \notin {"off", "done", "dead"} /\ at' = [at EXCEPT ![p] = "dead"]
      /\ (\E k \in {0, 1} : Deliver(p, k)) \/ UNCHANGED <<queue, cfd>>
      /\ sent' \in SUBSET sent /\ fails < MaxFails /\ fails' = fails + 1
      /\ UNCHANGED <<faulty, run, peer, received, operator, i, partials,
                     ignored>>
  BY DEF Crash, fault, operators, meters, Goto, Fails
<1>b. /\ queue' \in Seq(Connection) /\ Len(queue') = Len(queue)
      /\ \A x \in 1 .. Len(queue) :
           /\ queue'[x].from = queue[x].from /\ queue'[x].run = queue[x].run
           /\ queue'[x].sum = queue[x].sum
      /\ cfd' \in Connection \cup {None}
      /\ cfd \in Connection => cfd' \in Connection
      /\ cfd = None => cfd' = None
      /\ cfd' # None =>
           /\ cfd # None
           /\ cfd'.from = cfd.from /\ cfd'.run = cfd.run /\ cfd'.sum = cfd.sum
  <2>1. CASE UNCHANGED <<queue, cfd>>
    BY <1>0, <2>1 DEF TypeInv
  <2>2. CASE \E k \in {0, 1} : Deliver(p, k)
    <3>1. PICK k \in 0 .. 2 : Deliver(p, k)
      BY <2>2
    <3>2. QED
      BY <1>0, <3>1, DeliverFacts
  <2>3. QED
    BY <1>1, <2>1, <2>2
<1>2. TypeInv'
  BY <1>0, <1>1, <1>b, MeterFacts DEF TypeInv
<1>3. LoopInv'
  BY <1>0, <1>1, <1>b DEF LoopInv
<1>4. SharesInv(F)'
  BY <1>0, <1>1 DEF SharesInv, Complete
<1>5. SumsInv'
  BY <1>0, <1>1, <1>b DEF SumsInv, OfRun, Heard
<1>6. CountInv => CountInv'
  <2>1. SUFFICES ASSUME CountInv, run = 1, ~ignored PROVE CountInv'
    BY <1>1 DEF CountInv
  <2>2. \A q \in Meter : Pending(q)' => Pending(q)
    BY <1>b DEF Pending
  <2>3. \A q \in Meter : Waiting(q)' => Waiting(q)
    BY <1>0, <1>1 DEF Waiting, TypeInv
  <2>4. \A q \in Meter : Heard(q)' = Heard(q)
    BY <1>1 DEF Heard
  <2>5. {q \in Meter : Heard(q)'} = {q \in Meter : Heard(q)}
    BY <2>4
  <2>6. \A x \in 1 .. Len(queue) : cfd' # None => cfd'.from # queue'[x].from
    BY <1>b, <2>1 DEF CountInv
  <2>7. \A x, y \in 1 .. Len(queue) : queue'[x].from = queue'[y].from => x = y
    BY <1>b, <2>1 DEF CountInv
  <2>8. QED
    BY <1>1, <1>b, <2>1, <2>2, <2>3, <2>4, <2>5, <2>6, <2>7 DEF CountInv
<1>7. InOrderInv => InOrderInv'
  BY <1>0, <1>1 DEF InOrderInv, Heard
<1>8. QED
  BY <1>2, <1>3, <1>4, <1>5, <1>6, <1>7 DEF MetersInv

LEMMA RecvFailsInv ==
  ASSUME BoundsOK, NEW F, MetersInv(F), NEW p \in Meter, NEW then, RecvFails(p, then),
         then = IF p \in F THEN "send" ELSE "connect"
  PROVE  MetersInv(F)' /\ (CountInv => CountInv') /\ (InOrderInv => InOrderInv')
<1>0. TypeInv /\ LoopInv /\ SharesInv(F) /\ SumsInv
  BY DEF MetersInv
<1>1. /\ at[p] = "recv" /\ Advance(p, then)
      /\ (fails < MaxFails /\ fails' = fails + 1) \/ UNCHANGED fails
      /\ sent' = sent \ {<<peer[p], p>>} /\ ignored' = TRUE
      /\ UNCHANGED <<faulty, run, received, queue, operator, i, cfd, partials>>
  BY DEF RecvFails, fault, operators, meters, Goto, Fails
<1>b. /\ peer' \in [Meter -> Meter]
      /\ at' \in [Meter -> {"off", "init", "send", "recv", "connect", "report",
                           "done", "dead"}]
      /\ \A q \in Meter : q # p => at'[q] = at[q] /\ peer'[q] = peer[q]
      /\ \/ /\ at'[p] = at[p] /\ peer'[p] = NextPeer(p)
         \/ /\ NextPeer(p) >= N /\ at'[p] = then /\ peer'[p] = FirstPeer(p)
  BY <1>0, <1>1, AdvanceFacts
<1>2. TypeInv'
  BY <1>0, <1>1, <1>b, MeterFacts DEF TypeInv
<1>3. LoopInv'
  BY <1>0, <1>1 DEF LoopInv
<1>4. SharesInv(F)'
  BY <1>0, <1>1 DEF SharesInv
<1>5. SumsInv'
  BY <1>0, <1>1 DEF SumsInv
<1>6. CountInv => CountInv'
  BY <1>0, <1>1 DEF CountInv
<1>7. InOrderInv => InOrderInv'
  BY <1>0, <1>1 DEF InOrderInv, Heard
<1>8. QED
  BY <1>2, <1>3, <1>4, <1>5, <1>6, <1>7 DEF MetersInv

LEMMA RestartInv ==
  ASSUME BoundsOK, NEW F, MetersInv(F), Restart
  PROVE  MetersInv(F)' /\ (CountInv => CountInv') /\ (InOrderInv => InOrderInv')
<1>0. TypeInv /\ LoopInv /\ SharesInv(F) /\ SumsInv
  BY DEF MetersInv
<1>1. /\ run < MaxRuns /\ run' = run + 1 /\ at' = [p \in Meter |-> "off"]
      /\ peer' = [p \in Meter |-> 0] /\ sent' = {}
      /\ received' = [p \in Meter |-> Garbage]
      /\ UNCHANGED <<faulty, fails, queue, operator, i, cfd, partials, ignored>>
  BY DEF Restart, fault, operators, meters, Goto
<1>2. TypeInv'
  BY <1>0, <1>1, MeterFacts, SumFacts DEF TypeInv, Run
<1>3. LoopInv'
  BY <1>0, <1>1 DEF LoopInv
<1>4. SharesInv(F)'
  BY <1>0, <1>1 DEF SharesInv, Complete
<1>5. SumsInv'
  BY <1>0, <1>1 DEF SumsInv, OfRun, Heard
<1>6. CountInv => CountInv'
  <2>1. run' # 1
    BY <1>0, <1>1, MeterFacts DEF TypeInv, Run
  <2>2. QED
    BY <2>1 DEF CountInv
<1>7. InOrderInv => InOrderInv'
  BY <1>0, <1>1 DEF InOrderInv, Heard
<1>8. QED
  BY <1>2, <1>3, <1>4, <1>5, <1>6, <1>7 DEF MetersInv

LEMMA ListenInv ==
  ASSUME BoundsOK, NEW F, MetersInv(F), Listen
  PROVE  MetersInv(F)' /\ (CountInv => CountInv') /\ (InOrderInv => InOrderInv')
<1>0. TypeInv /\ LoopInv /\ SharesInv(F) /\ SumsInv
  BY DEF MetersInv
<1>1. /\ operator = "off" /\ operator' = "accept"
      /\ UNCHANGED <<faulty, fails, run, at, peer, sent, received, queue, i, cfd,
                     partials, ignored>>
  BY DEF Listen, fault, operators, meters, Goto
<1>2. TypeInv'
  BY <1>0, <1>1, MeterFacts DEF TypeInv
<1>3. LoopInv'
  BY <1>0, <1>1 DEF LoopInv
<1>4. SharesInv(F)'
  BY <1>0, <1>1 DEF SharesInv, Complete
<1>5. SumsInv'
  BY <1>0, <1>1 DEF SumsInv, OfRun, Heard
<1>6. CountInv => CountInv'
  BY <1>0, <1>1 DEF CountInv, Waiting, Heard, Pending
<1>7. InOrderInv => InOrderInv'
  BY <1>0, <1>1 DEF InOrderInv, Heard
<1>8. QED
  BY <1>2, <1>3, <1>4, <1>5, <1>6, <1>7 DEF MetersInv

LEMMA AcceptInv ==
  ASSUME BoundsOK, NEW F, MetersInv(F), Accept
  PROVE  MetersInv(F)' /\ (CountInv => CountInv') /\ (InOrderInv => InOrderInv')
<1>0. TypeInv /\ LoopInv /\ SharesInv(F) /\ SumsInv
  BY DEF MetersInv
<1>1. /\ operator = "accept" /\ operator' = "recv" /\ i < N /\ queue # <<>>
      /\ cfd' = Head(queue) /\ queue' = Tail(queue)
      /\ UNCHANGED <<faulty, fails, run, at, peer, sent, received, i, partials,
                     ignored>>
  BY DEF Accept, fault, operators, meters, Goto
<1>b. /\ queue' \in Seq(Connection) /\ Len(queue) \in Nat /\ Len(queue') = Len(queue) - 1
      /\ cfd' = queue[1] /\ cfd' \in Connection /\ 1 \in 1 .. Len(queue)
      /\ \A x \in 1 .. Len(queue') : queue'[x] = queue[x + 1] /\ x + 1 \in 1 .. Len(queue)
  BY <1>0, <1>1 DEF TypeInv
<1>2. TypeInv'
  BY <1>0, <1>1, <1>b DEF TypeInv
<1>3. LoopInv'
  BY <1>0, <1>1, <1>b DEF LoopInv
<1>4. SharesInv(F)'
  BY <1>0, <1>1 DEF SharesInv, Complete
<1>5. SumsInv'
  BY <1>0, <1>1, <1>b DEF SumsInv, OfRun, Heard
<1>6. CountInv => CountInv'
  <2>1. SUFFICES ASSUME CountInv, run = 1, ~ignored PROVE CountInv'
    BY <1>1 DEF CountInv
  <2>2. \A q \in Meter : Pending(q)' => Pending(q)
    BY <1>b DEF Pending
  <2>3. \A x \in 1 .. Len(queue') : cfd'.from # queue'[x].from
    <3>1. \A x \in 1 .. Len(queue') : 1 # x + 1
      OBVIOUS
    <3>2. QED
      BY <1>b, <2>1, <3>1 DEF CountInv
  <2>4. \A x, y \in 1 .. Len(queue') : queue'[x].from = queue'[y].from => x = y
    <3>1. \A x, y \in 1 .. Len(queue') : x + 1 = y + 1 => x = y
      OBVIOUS
    <3>2. QED
      BY <1>b, <2>1, <3>1 DEF CountInv
  <2>5. {q \in Meter : Heard(q)'} = {q \in Meter : Heard(q)}
    BY <1>1 DEF Heard
  <2>6. QED
    BY <1>1, <2>1, <2>2, <2>3, <2>4, <2>5 DEF CountInv, Waiting, Heard
<1>7. InOrderInv => InOrderInv'
  BY <1>0, <1>1 DEF InOrderInv, Heard
<1>8. QED
  BY <1>2, <1>3, <1>4, <1>5, <1>6, <1>7 DEF MetersInv

LEMMA TakeReportInv ==
  ASSUME BoundsOK, NEW F, MetersInv(F), TakeReport
  PROVE  MetersInv(F)' /\ (CountInv => CountInv')
<1>0. TypeInv /\ LoopInv /\ SharesInv(F) /\ SumsInv
  BY DEF MetersInv
<1>1. /\ operator = "recv" /\ Take(cfd.from, cfd.sum) /\ operator' = "accept"
      /\ cfd' = None
      /\ UNCHANGED <<faulty, fails, run, at, peer, sent, received, queue,
                     ignored>>
  BY DEF TakeReport, fault, operators, meters, Goto, Take
<1>b. /\ cfd \in Connection /\ i < N /\ cfd.from \in Meter /\ cfd.sum \in Sum
      /\ cfd # None
  <2>1. cfd \in Connection /\ i < N
    BY <1>0, <1>1 DEF LoopInv
  <2>2. DOMAIN cfd # DOMAIN None
    BY <2>1 DEF Connection, None
  <2>3. QED
    BY <2>1, <2>2 DEF Connection
<1>c. /\ partials' = [partials EXCEPT ![cfd.from] = cfd.sum] /\ i' = i + 1
  BY <1>1, <1>b DEF Take
<1>d. /\ i' \in 0 .. N
  BY <1>0, <1>b, <1>c, MeterFacts DEF TypeInv
<1>2. TypeInv'
  BY <1>0, <1>1, <1>b, <1>c, <1>d DEF TypeInv
<1>3. LoopInv'
  BY <1>0, <1>1, <1>c DEF LoopInv
<1>4. SharesInv(F)'
  BY <1>0, <1>1 DEF SharesInv, Complete
<1>5. SumsInv'
  <2>1. \A q \in Meter : q # cfd.from => partials'[q] = partials[q]
    BY <1>0, <1>b, <1>c DEF TypeInv
  <2>2. partials'[cfd.from] = cfd.sum
    BY <1>0, <1>b, <1>c DEF TypeInv
  <2>3. ~ignored => OfRun(cfd)
    BY <1>0, <1>b DEF SumsInv
  <2>4. QED
    BY <1>0, <1>1, <1>b, <2>1, <2>2, <2>3 DEF SumsInv, OfRun, Heard
<1>6. CountInv => CountInv'
  <2>1. SUFFICES ASSUME CountInv, run = 1, ~ignored PROVE CountInv'
    BY <1>1 DEF CountInv
  <2>2. Pending(cfd.from) /\ ~Heard(cfd.from)
    BY <1>b, <2>1 DEF Pending, CountInv
  <2>3. \A q \in Meter : Heard(q)' <=> Heard(q) \/ q = cfd.from
    BY <1>0, <1>b, <1>c, SumFacts DEF Heard, TypeInv
  <2>4. \A q \in Meter : Pending(q)' => Pending(q) /\ q # cfd.from
    BY <1>1, <1>b, <2>1 DEF Pending, CountInv
  <2>5. i + 1 = Cardinality({q \in Meter : Heard(q)'})
    <3> DEFINE H == {q \in Meter : Heard(q)}
    <3>1. {q \in Meter : Heard(q)'} = H \cup {cfd.from} /\ cfd.from \notin H
      BY <1>b, <2>2, <2>3
    <3>2. IsFiniteSet(H)
      BY MeterFinite, FS_Subset
    <3>3. i = Cardinality(H)
      BY <2>1 DEF CountInv
    <3> HIDE DEF H
    <3>4. QED
      BY <3>1, <3>2, <3>3, FS_AddElement
  <2>6. \A q \in Meter : Waiting(q)' => ~Heard(q)' /\ ~Pending(q)'
    <3>1. \A q \in Meter : Waiting(q)' => Waiting(q)
      BY <1>1 DEF Waiting
    <3>2. QED
      BY <2>1, <2>2, <2>3, <2>4, <3>1 DEF CountInv
  <2>7. QED
    BY <1>1, <1>c, <2>1, <2>3, <2>4, <2>5, <2>6 DEF CountInv
<1>7. QED
  BY <1>2, <1>3, <1>4, <1>5, <1>6 DEF MetersInv

LEMMA TakeGarbageInv ==
  ASSUME BoundsOK, NEW F, MetersInv(F), TakeGarbage
  PROVE  MetersInv(F)' /\ (CountInv => CountInv')
<1>0. TypeInv /\ LoopInv /\ SharesInv(F) /\ SumsInv
  BY DEF MetersInv
<1>a. PICK id : Take(id, Garbage) /\ ignored' = (ignored \/ id \in Meter)
  BY DEF TakeGarbage
<1>1. /\ operator = "recv" /\ operator' = "accept" /\ cfd' = None
      /\ ignored' = (ignored \/ id \in Meter)
      /\ \/ id \in Meter /\ partials' = [partials EXCEPT ![id] = Garbage] /\ i' = i + 1
         \/ id \notin Meter /\ UNCHANGED <<partials, i>>
      /\ UNCHANGED <<faulty, fails, run, at, peer, sent, received, queue>>
  BY <1>a DEF TakeGarbage, fault, operators, meters, Goto, Take
<1>b. i < N /\ i \in 0 .. N
  BY <1>0, <1>1 DEF LoopInv, TypeInv
<1>c. /\ partials' \in [Meter -> Sum \cup {None}] /\ i' \in 0 .. N /\ ignored' \in BOOLEAN
      /\ ~ignored' => ~ignored /\ UNCHANGED <<partials, i>>
  <2>1. partials \in [Meter -> Sum \cup {None}] /\ ignored \in BOOLEAN
    BY <1>0 DEF TypeInv
  <2>2. partials' \in [Meter -> Sum \cup {None}]
    BY <1>1, <2>1, SumFacts
  <2>3. i' \in 0 .. N
    BY <1>1, <1>b, MeterFacts
  <2>4. ignored' \in BOOLEAN
    BY <1>1, <2>1
  <2>5. QED
    BY <1>1, <2>2, <2>3, <2>4
<1>2. TypeInv'
  BY <1>0, <1>1, <1>c DEF TypeInv
<1>3. LoopInv'
  BY <1>0, <1>1 DEF LoopInv
<1>4. SharesInv(F)'
  BY <1>0, <1>1, <1>c DEF SharesInv, Complete
<1>5. SumsInv'
  BY <1>0, <1>1, <1>c DEF SumsInv, OfRun, Heard
<1>6. CountInv => CountInv'
  BY <1>0, <1>1, <1>c DEF CountInv, Waiting, Heard, Pending
<1>7. QED
  BY <1>2, <1>3, <1>4, <1>5, <1>6 DEF MetersInv

LEMMA FinishInv ==
  ASSUME BoundsOK, NEW F, MetersInv(F), Finish
  PROVE  MetersInv(F)' /\ (CountInv => CountInv') /\ (InOrderInv => InOrderInv')
<1>0. TypeInv /\ LoopInv /\ SharesInv(F) /\ SumsInv
  BY DEF MetersInv
<1>1. /\ operator = "accept" /\ i = N /\ operator' = "done" /\ queue' = <<>>
      /\ UNCHANGED <<faulty, fails, run, at, peer, sent, received, i, cfd,
                     partials, ignored>>
  BY DEF Finish, fault, operators, meters, Goto
<1>b. queue' \in Seq(Connection) /\ Len(queue') = 0
  BY <1>1
<1>2. TypeInv'
  BY <1>0, <1>1, <1>b DEF TypeInv
<1>3. LoopInv'
  BY <1>0, <1>1 DEF LoopInv
<1>4. SharesInv(F)'
  BY <1>0, <1>1 DEF SharesInv, Complete
<1>5. SumsInv'
  BY <1>0, <1>1, <1>b DEF SumsInv, OfRun, Heard
<1>6. CountInv => CountInv'
  <2>1. \A q \in Meter : Pending(q)' => Pending(q)
    BY <1>1, <1>b DEF Pending
  <2>2. {q \in Meter : Heard(q)'} = {q \in Meter : Heard(q)}
    BY <1>1 DEF Heard
  <2>3. QED
    BY <1>1, <1>b, <2>1, <2>2 DEF CountInv, Waiting, Heard
<1>7. InOrderInv => InOrderInv'
  BY <1>0, <1>1 DEF InOrderInv, Heard
<1>8. QED
  BY <1>2, <1>3, <1>4, <1>5, <1>6, <1>7 DEF MetersInv

LEMMA AcceptPartialInv ==
  ASSUME BoundsOK, NEW F, MetersInv(F), AcceptPartial
  PROVE  MetersInv(F)' /\ (InOrderInv => InOrderInv')
<1>0. TypeInv /\ LoopInv /\ SharesInv(F) /\ SumsInv
  BY DEF MetersInv
<1>1. /\ operator = "accept" /\ operator' = "recv" /\ i < N /\ queue # <<>>
      /\ cfd' = Head(queue) /\ queue' = <<>>
      /\ UNCHANGED <<faulty, fails, run, at, peer, sent, received, i, partials,
                     ignored>>
  BY DEF AcceptPartial, fault, operators, meters, Goto
<1>b. /\ queue' \in Seq(Connection) /\ Len(queue') = 0
      /\ cfd' = queue[1] /\ cfd' \in Connection /\ 1 \in 1 .. Len(queue)
  BY <1>0, <1>1 DEF TypeInv
<1>2. TypeInv'
  BY <1>0, <1>1, <1>b DEF TypeInv
<1>3. LoopInv'
  BY <1>0, <1>1, <1>b DEF LoopInv
<1>4. SharesInv(F)'
  BY <1>0, <1>1 DEF SharesInv, Complete
<1>5. SumsInv'
  BY <1>0, <1>1, <1>b DEF SumsInv, OfRun, Heard
<1>6. InOrderInv => InOrderInv'
  BY <1>0, <1>1 DEF InOrderInv, Heard
<1>7. QED
  BY <1>2, <1>3, <1>4, <1>5, <1>6 DEF MetersInv

LEMMA PartialReceivedInv ==
  ASSUME BoundsOK, NEW F, MetersInv(F), PartialReceived
  PROVE  MetersInv(F)' /\ (InOrderInv => InOrderInv')
<1>0. TypeInv /\ LoopInv /\ SharesInv(F) /\ SumsInv
  BY DEF MetersInv
<1>1. /\ operator = "recv" /\ Take(i, cfd.sum) /\ operator' = "accept"
      /\ cfd' = None
      /\ UNCHANGED <<faulty, fails, run, at, peer, sent, received, queue,
                     ignored>>
  BY DEF PartialReceived, fault, operators, meters, Goto, Take
<1>b. i < N /\ i \in 0 .. N /\ i \in Meter /\ cfd \in Connection /\ cfd.sum \in Sum
  BY <1>0, <1>1, MeterFacts DEF LoopInv, TypeInv, Connection
<1>c. partials' = [partials EXCEPT ![i] = cfd.sum] /\ i' = i + 1
  BY <1>1, <1>b DEF Take
<1>d. /\ partials' \in [Meter -> Sum \cup {None}] /\ i' \in 0 .. N
      /\ partials'[i] = cfd.sum /\ \A q \in Meter : q # i => partials'[q] = partials[q]
  BY <1>0, <1>b, <1>c, MeterFacts, SumFacts DEF TypeInv
<1>2. TypeInv'
  BY <1>0, <1>1, <1>d DEF TypeInv
<1>3. LoopInv'
  BY <1>0, <1>1 DEF LoopInv
<1>4. SharesInv(F)'
  BY <1>0, <1>1 DEF SharesInv, Complete
<1>5. SumsInv'
  <2>1. ~ignored => OfRun(cfd)
    <3>1. DOMAIN cfd # DOMAIN None
      BY <1>b DEF Connection, None
    <3>2. QED
      BY <1>0, <3>1 DEF SumsInv
  <2>2. QED
    BY <1>0, <1>1, <1>b, <1>d, <2>1 DEF SumsInv, OfRun, Heard
<1>6. InOrderInv => InOrderInv'
  <2>1. \A q \in Meter : q < i + 1 => q < i \/ q = i
    BY <1>b, MeterFacts
  <2>2. QED
    BY <1>b, <1>c, <1>d, <2>1, SumFacts DEF InOrderInv, Heard
<1>7. QED
  BY <1>2, <1>3, <1>4, <1>5, <1>6 DEF MetersInv

LEMMA PartialCutOffInv ==
  ASSUME BoundsOK, NEW F, MetersInv(F), PartialCutOff
  PROVE  MetersInv(F)' /\ (InOrderInv => InOrderInv')
<1>0. TypeInv /\ LoopInv /\ SharesInv(F) /\ SumsInv
  BY DEF MetersInv
<1>1. /\ operator = "recv" /\ Take(i, Garbage) /\ operator' = "accept"
      /\ cfd' = None /\ ignored' = TRUE
      /\ UNCHANGED <<faulty, fails, run, at, peer, sent, received, queue>>
  BY DEF PartialCutOff, fault, operators, meters, Goto, Take
<1>b. i < N /\ i \in 0 .. N /\ i \in Meter /\ cfd \in Connection /\ cfd.sum \in Sum
  BY <1>0, <1>1, MeterFacts DEF LoopInv, TypeInv, Connection
<1>c. partials' = [partials EXCEPT ![i] = Garbage] /\ i' = i + 1
  BY <1>1, <1>b DEF Take
<1>d. /\ partials' \in [Meter -> Sum \cup {None}] /\ i' \in 0 .. N
      /\ partials'[i] = Garbage /\ \A q \in Meter : q # i => partials'[q] = partials[q]
  BY <1>0, <1>b, <1>c, MeterFacts, SumFacts DEF TypeInv
<1>2. TypeInv'
  BY <1>0, <1>1, <1>d DEF TypeInv
<1>3. LoopInv'
  BY <1>0, <1>1 DEF LoopInv
<1>4. SharesInv(F)'
  BY <1>0, <1>1 DEF SharesInv
<1>5. SumsInv'
  BY <1>0, <1>1 DEF SumsInv
<1>6. InOrderInv => InOrderInv'
  <2>1. \A q \in Meter : q < i + 1 => q < i \/ q = i
    BY <1>b, MeterFacts
  <2>2. QED
    BY <1>b, <1>c, <1>d, <2>1, SumFacts DEF InOrderInv, Heard
<1>7. QED
  BY <1>2, <1>3, <1>4, <1>5, <1>6 DEF MetersInv

-----------------------------------------------------------------------------
(* The steps of the two programs together.                                 *)

LEMMA StutterInv ==
  ASSUME NEW F, MetersInv(F), UNCHANGED vars
  PROVE  /\ MetersInv(F)'
         /\ CountInv => CountInv'
         /\ InOrderInv => InOrderInv'
<1>1. UNCHANGED <<faulty, fails, run, at, peer, sent, received, queue, operator,
                  i, cfd, partials, ignored>>
  BY DEF vars
<1>2. TypeInv => TypeInv'
  BY <1>1 DEF TypeInv
<1>3. (LoopInv => LoopInv') /\ (SumsInv => SumsInv')
  BY <1>1 DEF LoopInv, SumsInv, OfRun, Heard
<1>4. SharesInv(F) => SharesInv(F)'
  BY <1>1 DEF SharesInv, Complete
<1>5. CountInv => CountInv'
  BY <1>1 DEF CountInv, Waiting, Heard, Pending
<1>6. InOrderInv => InOrderInv'
  BY <1>1 DEF InOrderInv, Heard
<1>7. QED
  BY <1>2, <1>3, <1>4, <1>5, <1>6 DEF MetersInv

LEMMA GridNextInv ==
  ASSUME BoundsOK, GridInv, Next \/ UNCHANGED vars
  PROVE  GridInv'
<1>0. MetersInv({}) /\ CountInv
  BY DEF GridInv
<1>1. ASSUME NEW p \in Meter, MeterStep(p) PROVE GridInv'
  <2>1. CASE InitReturns(p, "send")
    <3>1. "send" = IF p \in {} THEN "recv" ELSE "send"
      OBVIOUS
    <3>2. QED
      BY <1>0, <2>1, <3>1, InitReturnsInv DEF GridInv
  <2>2. CASE SendShare(p, "recv")
    <3>1. "recv" = IF p \in {} THEN "connect" ELSE "recv"
      OBVIOUS
    <3>2. QED
      BY <1>0, <2>2, <3>1, SendShareInv DEF GridInv
  <2>3. CASE RecvShare(p, "connect")
    <3>1. "connect" = IF p \in {} THEN "send" ELSE "connect"
      OBVIOUS
    <3>2. QED
      BY <1>0, <2>3, <3>1, RecvShareInv DEF GridInv
  <2>4. QED
    BY <1>0, <1>1, <2>1, <2>2, <2>3, StartInv, ConnectInv, ReportInv
       DEF MeterStep, GridInv
<1>2. CASE OperatorStep
  BY <1>0, <1>2, ListenInv, AcceptInv, TakeReportInv, FinishInv
     DEF OperatorStep, GridInv
<1>3. CASE Failure
  <2>1. ASSUME NEW p \in Meter, RecvFails(p, "connect") PROVE GridInv'
    <3>1. "connect" = IF p \in {} THEN "send" ELSE "connect"
      OBVIOUS
    <3>2. QED
      BY <1>0, <2>1, <3>1, RecvFailsInv DEF GridInv
  <2>2. ASSUME NEW p \in Meter, Crash(p) PROVE GridInv'
    BY <1>0, <2>2, CrashInv DEF GridInv
  <2>3. QED
    BY <1>0, <1>3, <2>1, <2>2, TakeGarbageInv, RestartInv DEF Failure, GridInv
<1>4. CASE UNCHANGED vars
  BY <1>0, <1>4, StutterInv DEF GridInv
<1>5. QED
  BY <1>1, <1>2, <1>3, <1>4 DEF Next

LEMMA TwoNextInv ==
  ASSUME BoundsOK, TwoInv, TwoNext \/ UNCHANGED vars
  PROVE  TwoInv'
<1> DEFINE F == Meter \ {0}
<1>0. MetersInv(F) /\ InOrderInv
  BY DEF TwoInv
<1>a. \A p \in Meter : p \in F <=> p # 0
  OBVIOUS
<1>b. MetersInv(F)' /\ InOrderInv' => TwoInv'
  BY DEF TwoInv
<1> HIDE DEF F
<1>1. ASSUME NEW p \in Meter, TwoMeterStep(p) PROVE TwoInv'
  <2>1. CASE InitReturns(p, IF p = 0 THEN "send" ELSE "recv")
    <3>1. (IF p = 0 THEN "send" ELSE "recv") = IF p \in F THEN "recv" ELSE "send"
      BY <1>a
    <3>2. QED
      BY <1>0, <1>b, <2>1, <3>1, InitReturnsInv
  <2>2. CASE SendShare(p, AfterSend(p))
    <3>1. AfterSend(p) = IF p \in F THEN "connect" ELSE "recv"
      BY <1>a DEF AfterSend
    <3>2. QED
      BY <1>0, <1>b, <2>2, <3>1, SendShareInv
  <2>3. CASE RecvShare(p, AfterRecv(p))
    <3>1. AfterRecv(p) = IF p \in F THEN "send" ELSE "connect"
      BY <1>a DEF AfterRecv
    <3>2. QED
      BY <1>0, <1>b, <2>3, <3>1, RecvShareInv
  <2>4. QED
    BY <1>0, <1>b, <1>1, <2>1, <2>2, <2>3, StartInv, ConnectInv, ReportInv
       DEF TwoMeterStep
<1>2. CASE TwoOperatorStep
  BY <1>0, <1>b, <1>2, ListenInv, AcceptPartialInv, PartialReceivedInv, FinishInv
     DEF TwoOperatorStep
<1>3. CASE TwoFailure
  <2>1. ASSUME NEW p \in Meter, RecvFails(p, AfterRecv(p)) PROVE TwoInv'
    <3>1. AfterRecv(p) = IF p \in F THEN "send" ELSE "connect"
      BY <1>a DEF AfterRecv
    <3>2. QED
      BY <1>0, <1>b, <2>1, <3>1, RecvFailsInv
  <2>2. ASSUME NEW p \in Meter, Crash(p) PROVE TwoInv'
    BY <1>0, <1>b, <2>2, CrashInv
  <2>3. QED
    BY <1>0, <1>b, <1>3, <2>1, <2>2, PartialCutOffInv, RestartInv DEF TwoFailure
<1>4. CASE UNCHANGED vars
  BY <1>0, <1>b, <1>4, StutterInv
<1>5. QED
  BY <1>1, <1>2, <1>3, <1>4 DEF TwoNext

-----------------------------------------------------------------------------
(* What follows from the invariant when the operator is done.              *)

LEMMA TypeConsequence ==
  ASSUME BoundsOK, NEW F, MetersInv(F)
  PROVE  TypeOK
<1>1. TypeInv
  BY DEF MetersInv
<1>2. peer \in [Meter -> 0 .. N]
  <2>1. \A q \in Meter : q \in 0 .. N
    BY MeterFacts DEF Meter
  <2>2. QED
    BY <1>1, <2>1 DEF TypeInv
<1>3. QED
  BY <1>1, <1>2 DEF TypeInv, TypeOK

LEMMA SumConsequence ==
  ASSUME BoundsOK, NEW F, MetersInv(F), ~ignored
  PROVE  Printed /\ OfOneRun => RightSum
<1>1. SUFFICES ASSUME Printed, OfOneRun, NEW p \in Meter, NEW q \in Meter
               PROVE  partials[p][q] = partials[0][0]
  BY DEF RightSum
<1>2. Heard(p) /\ 0 \in Meter
  BY <1>1, MeterFacts DEF Printed
<1>3. partials[p][q] = partials[p][p]
  BY <1>2 DEF MetersInv, SumsInv
<1>4. partials[p][p] = partials[0][0]
  BY <1>1, <1>2 DEF OfOneRun
<1>5. QED
  BY <1>3, <1>4

(* Of as many reports as meters, each from a meter of its own, none is     *)
(* missing.                                                                *)
LEMMA GridConsequences ==
  ASSUME BoundsOK, GridInv
  PROVE  TypeOK /\ WrongOnlyIfIgnored
<1>1. MetersInv({}) /\ CountInv /\ LoopInv /\ TypeInv
  BY DEF GridInv, MetersInv
<1>2. ASSUME operator = "done", ~ignored, ~(run > 1) PROVE Printed
  <2>1. run = 1
    BY <1>1, <1>2, MeterFacts DEF TypeInv, Run
  <2>2. i = N /\ i = Cardinality({p \in Meter : Heard(p)})
    BY <1>1, <1>2, <2>1 DEF LoopInv, CountInv
  <2> DEFINE H == {p \in Meter : Heard(p)}
  <2>3. H \in SUBSET Meter /\ Cardinality(H) = N
    BY <2>2
  <2>4. H = Meter
    <3> HIDE DEF H
    <3>1. QED
      BY <2>3, MeterFinite, FS_Subset
  <2>5. QED
    BY <1>2, <2>4 DEF Printed
<1>3. TypeOK
  BY <1>1, TypeConsequence
<1>4. QED
  BY <1>1, <1>2, <1>3, SumConsequence DEF WrongOnlyIfIgnored

LEMMA TwoConsequences ==
  ASSUME BoundsOK, TwoInv
  PROVE  TypeOK /\ WrongOnlyIfIgnored
<1>1. MetersInv(Meter \ {0}) /\ InOrderInv /\ LoopInv
  BY DEF TwoInv, MetersInv
<1>2. operator = "done" => Printed
  BY <1>1, MeterFacts DEF LoopInv, InOrderInv, Printed
<1>3. TypeOK
  BY <1>1, TypeConsequence
<1>4. QED
  BY <1>1, <1>2, <1>3, SumConsequence DEF WrongOnlyIfIgnored
=============================================================================
