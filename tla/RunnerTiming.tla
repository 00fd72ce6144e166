---------------------------- MODULE RunnerTiming ----------------------------
(***************************************************************************)
(* How the protocol of MpcRunner ends: with MPC_OK in every party when     *)
(* nothing fails, and somehow in every party when anything fails.          *)
(*                                                                         *)
(* MPC_RECV_TIMEOUT decides both.  It has to be finite for the second, and *)
(* longer for the first than a correct party may wait: a party in turn     *)
(* waits for peers that are still busy with the peers before it.  So       *)
(* without faults the protocol runs against a clock.  A message takes up   *)
(* to Latency, parties leave comm_init within Skew of each other, and      *)
(* what a party does between two waits takes no time.                      *)
(***************************************************************************)
EXTENDS MpcRunner

CONSTANTS
  Latency,      \* the longest way of a message
  Skew,         \* between the first and the last return of comm_init
  RecvTimeout   \* MPC_RECV_TIMEOUT

VARIABLES
  mode,     \* "calm": no faults; "clock": no faults, in time; "crash": one
            \* party dies, in time; "faults": any, and time is not counted
  clock,    \* the time since the first comm_init returned, up to Skew
  age,      \* how long the message of a connection is on its way
  waited    \* how long the poll() of a party's comm_recv has been waiting

time == <<clock, age, waited>>
timedVars == <<vars, mode, time>>

Longer(a, b) == IF a > b THEN a ELSE b

(* The longest wait of all: for the last return of comm_init and then for  *)
(* twice the other parties, one after the other.                           *)
ASSUME TimingAssumption ==
  /\ Latency \in Nat /\ Skew \in Nat
  /\ RecvTimeout > (2 * N - 3) * Latency + Longer(Skew, Latency)

-----------------------------------------------------------------------------
TimedInit ==
  /\ Init
  /\ mode \in {"calm", "clock", "crash", "faults"}
  /\ clock = 0
  /\ age = [p \in Party |-> [q \in Party |-> 0]]
  /\ waited = [p \in Party |-> 0]

(* Every comm_recv waits anew.                                             *)
CallEnds(p) == waited' = [waited EXCEPT ![p] = 0]

TimedStep(p) ==
  /\ Step(p)
  /\ CallEnds(p)
  /\ age' = [i \in Party |-> [j \in Party |->
               IF <<>> \in {chan[i][j], chan'[i][j]} THEN 0 ELSE age[i][j]]]
  /\ UNCHANGED <<mode, clock>>

(* Mutant: half the timeout, which is MPC_RECV_TIMEOUT in mpc_c_lib.       *)
HalfTimeout(p) ==
  /\ RecvTurn(p) /\ 2 * waited[p] >= RecvTimeout
  /\ Timeout(p)
  /\ CallEnds(p)
  /\ UNCHANGED <<mode, clock, age>>

(* poll() returns 0: a message still on its way has not been seen.         *)
TimesOut(p) ==
  /\ RecvTurn(p) /\ waited[p] = RecvTimeout
  /\ \/ Timeout(p)
     \/ chan[peer[p]][p] # <<>> /\ age[peer[p]][p] < Latency /\ RecvFails(p)
  /\ CallEnds(p)
  /\ UNCHANGED <<mode, clock, age>>

(* The peer gave up and closed: recv() returns 0.                          *)
PeerClosed(p) ==
  /\ RecvTurn(p) /\ chan[peer[p]][p] = <<>>
  /\ status[peer[p]] \in {"MPC_ERR_SEND", "MPC_ERR_RECV"}
NoticesClose(p) ==
  /\ PeerClosed(p) /\ RecvFails(p)
  /\ CallEnds(p)
  /\ UNCHANGED <<mode, clock, age>>

(* A party loses power: nobody hears of it.                                *)
PowerCut(p) ==
  /\ mode = "crash" /\ \A q \in Party : Running(q)
  /\ Crash(p)
  /\ UNCHANGED <<mode, time>>

(* What cannot wait any longer.                                            *)
Urgent(p) ==
  \/ SendTurn(p)
  \/ Running(p) /\ round[p] \in {1, 2} /\ peer[p] = N
  \/ Running(p) /\ round[p] = 0 /\ clock = Skew
  \/ RecvTurn(p) /\ chan[peer[p]][p] # <<>> /\ age[peer[p]][p] = Latency
  \/ RecvTurn(p) /\ waited[p] = RecvTimeout
  \/ PeerClosed(p)

Tick ==
  /\ mode \in {"clock", "crash"} /\ ~Terminated
  /\ \A p \in Party : ~Urgent(p)
  /\ clock' = IF clock < Skew THEN clock + 1 ELSE clock
  /\ age' = [p \in Party |-> [q \in Party |->
               IF chan[p][q] # <<>> /\ age[p][q] < Latency
               THEN age[p][q] + 1 ELSE age[p][q]]]
  /\ waited' = [p \in Party |-> IF RecvTurn(p) THEN waited[p] + 1 ELSE 0]
  /\ UNCHANGED <<vars, mode>>

Untimed(A) == A /\ UNCHANGED <<mode, time>>

(* What the scheduler has a party do: its next step, or the end of a       *)
(* receive that has waited for long enough.                                *)
Proceed(p) ==
  \/ mode = "calm" /\ Untimed(Step(p))
  \/ /\ mode \in {"clock", "crash"}
     /\ TimedStep(p) \/ TimesOut(p) \/ NoticesClose(p)
  \/ mode = "faults" /\ Untimed(Step(p) \/ Timeout(p))

TimedNext ==
  \/ \E p \in Party : \/ Proceed(p) \/ PowerCut(p)
                      \/ mode = "faults" /\ Untimed(Fault(p))
  \/ Tick
  \/ Untimed(Done)
TimedSpec ==
  /\ TimedInit /\ [][TimedNext]_timedVars
  /\ WF_timedVars(Tick) /\ \A p \in Party : WF_timedVars(Proceed(p))

-----------------------------------------------------------------------------
(* Without faults no receive of any party times out (mpc_runner.c:280,     *)
(* mpc_comm.h:37), although the time that a peer spends on others counts.  *)
NoFalseTimeout == mode = "clock" => \A p \in Party : status[p] # "MPC_ERR_RECV"

(* Without faults every party returns MPC_OK: the order of the exchanges   *)
(* cannot make the parties wait for each other in a circle                 *)
(* (mpc_runner.c:267-307).                                                 *)
AllSucceed ==
  mode \in {"calm", "clock"} => <>(\A p \in Party : status[p] = "MPC_OK")

(* Under faults every party returns or is killed: no failure of another    *)
(* party leaves one waiting (mpc_comm.h:80-81 "a protocol hang (dropped    *)
(* party) will be caught here").                                           *)
AllTerminate == <>Terminated
=============================================================================
