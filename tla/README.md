# Verification of the smart-grid MPC programs

TLA+ modules, TLC configurations and TLAPS proofs for the C programs and shell
scripts under `src/code/`. The repository computes the total consumption of a
set of meters without any party learning the value of another one. It does so in
two ways: an **all-party protocol** (additive secret sharing over TCP, every
party learns the sum) and a **central aggregation** (pairwise masks that cancel
in the sum, one server learns the sum). All paths below are relative to
`src/code/mpc-smartgrid/` unless they start with `mpc_c_lib`.

## 1. Inventory

| Part | Source | State | Operations | What makes it correct |
|---|---|---|---|---|
| field arithmetic | `src/mpc_field.c` | none | add, sub, mul, inv, rand | residues mod p although 32-bit sums come within one bit of wrapping; uniform rejection sampling |
| sharing | `src/mpc_share.c` | none | split, reconstruct | reconstruct undoes split |
| all-party protocol | `src/mpc_runner.c` | shares, received, partial, aggregate, loop index | two rounds of blocking exchanges | nobody returns a wrong sum, whatever fails; untagged messages are read in the round they belong to; no circular wait; everybody ends |
| TCP start-up | `src/mpc_comm_tcp.c` `comm_init`, `acceptor_thread` | `_peer_fd[]`, listening socket, acceptor's loop count | connect with retry, handshake, accept, poll | any start order works; the descriptor for q leads to q; no writer left when the protocol reads the table |
| TCP messages | `src/mpc_comm_tcp.c` `comm_send`, `comm_recv`, `comm_close` | socket buffers | send, receive with 10 s timeout | a failed peer is noticed, a slow one is not taken for it |
| configuration | `src/mpc_runner.c` `load_cluster_config` | none | parse | ids are exactly 0..N-1; all parties agree on N |
| meter program, status and exit codes | `include/mpc_status.h`, `apps/meter_node.c`, `test/bench_mpc.c` | none | run once per round | a failure can be told from its code; rounds do not mix |
| performance log | `src/mpc_runner.c` `append_perf_log` | CSV file | append | |
| aggregation meter | `apps/secure_agg_meter.c` | none | mask, connect with retry, send | masks cancel over all meters; what it reports as sent is not lost |
| aggregation server | `apps/secure_agg_server.c` | `seen[]`, counters, aggregate, deadline | poll, accept, receive, count | each meter counted once; PASS only for all; ends at its deadline |
| aggregation harness | `scripts/run_secure_agg_suite_pc5.sh`, `secure_agg_launch_range.sh` and callers | placement, trial logs | run_trial | a trial's verdict is about that trial |
| all-party harness | `scripts/run_scale_suite_pc5.sh`, `run_extreme_scale_pc5.sh`, `bench_worker.sh` and others | case logs, remote processes | launch, wait, collect, analyse | the same |
| operator variant | `mpc_c_lib/test/test_operator.c`, `test_uc1.c` and the `withop` copy | partials, received flags | accept, receive, add | the sum of exactly one partial of each meter |
| tests, results, inputs, reports | `test/`, `benchmark_results/`, `inputs/`, `src/docs` | | | |

How they interact. `meter_node` calls `mpc_run_from_config`, which loads the
configuration, calls `comm_init` (one TCP connection per pair of parties, made by
the higher id, filed in `_peer_fd[]` by the main thread on one side and by the
acceptor thread on the other), runs the two rounds over `comm_send` and
`comm_recv`, logs and closes. A secure-aggregation meter makes one connection to
the server and sends one packet. In the operator variant the meters exchange shares over
the same TCP layer and then connect to the operator. The scripts start all of these over
ssh and take their verdicts from the logs.

Hard behaviours, each listed with its line in `PROJECT.json` under "hazards":
N processes that block on each other in two loops; messages without a round tag;
processes that fail in the middle of a round; SIGPIPE; restarts, failed accepts
and foreign connections during start-up; two threads and one table; programs run
again and again over ports and descriptors of the last time; timeouts that must be
longer than what a correct peer may take; duplicate, stale and cut-off submissions; a
deadline that does not cover every wait; results of receives that are dropped; logs and
processes that an earlier trial has left.

## 2. Modules

| Module | Models |
|---|---|
| `MpcField` | the arithmetic with its integer widths, `share_split`, `share_reconstruct` |
| `SecureSum` | abstract: what the all-party protocol promises |
| `MpcRunner` | `mpc_run_from_config` after `comm_init`, N processes with failures; refines `SecureSum` |
| `RunnerTiming` | the same with `MPC_RECV_TIMEOUT` and message delays: how it ends |
| `CommInit` | `comm_init` and `acceptor_thread`, N processes of two threads each |
| `MeterRun` | whole runs of `meter_node`, again and again: `CommInit` and the two rounds over the descriptors it leaves; refines `MpcRunner` |
| `Tally` | abstract: what the aggregation server promises |
| `SecureAgg` | meters, server and foreign processes of the central aggregation; refines `Tally` |
| `SecureAggSuite` | the script that runs trials of it on two hosts, and the processes it starts |
| `CaseHarness` | the scripts that run cases of the all-party protocol on two hosts |
| `MC_Harness` | the last two for one run, a behaviour of either |
| `GridOperator` | the operator and N meters of `mpc_c_lib` |
| `TwoMeterOperator` | what the copy in `mpc_c_lib_withop` does differently |
| `MC_Operators` | the last two for one run, a behaviour of either |
| `ClusterConfig` | the configuration loader |
| `FieldInv` | the inversion in the field |
| `MC_Algorithms` | puts the last two, which share nothing, side by side for one run |
| `MpcField_proofs` | theorems about `MpcField` |
| `MpcRunner_proofs` | theorems about `MpcRunner` and `RunnerTiming` |
| `MeterRun_proofs` | theorems about `CommInit` and `MeterRun` |
| `SecureAgg_proofs` | theorems about `SecureAgg`, with the cancellation of the masks |
| `Harness_proofs` | theorems about `SecureAggSuite` and `CaseHarness` |
| `GridOperator_proofs` | lemmas about both operators, for any number of meters |
| `Operators_proofs` | theorems about them, by instances of these lemmas |
| `Algorithms_proofs` | theorems about `FieldInv` and `ClusterConfig` |

### MpcField

`P` is `MPC_PRIME` and `Word` is 2^32. Every 32-bit expression is reduced modulo
`Word` before it is used. The only assumption is 2P < Word, which is what the
comment of `field_rand` computes for the build (4294967294 < 4294967296): with it
`a + b` does not wrap and `two_p` is not 0. That P is prime is not assumed
here, because nothing in this module divides; `FieldInv` assumes it. `RandResults` is what one call of
`field_rand` can return; `RandomDraws` proves it to be exactly the field, so
the protocol draws its shares from `Field`.

### MpcRunner

One step per call that can block or fail. `round` is 0 before `share_split` and
then says which of the two exchange loops a party is in, `peer` is the loop's
`j` with the party's own id skipped, `half` says which of the two calls of an
iteration comes next. The party with the lower id sends in the first half. A
connection is a pair of FIFO sequences; the four bytes of a message are one
element, because `comm_send` and `comm_recv` loop until all are through or the
call fails. The copy of the last received share into `received[j]`, or its
addition to `final_aggregate`, is part of the receive.

Failures: any send or receive may return an error, which closes all sockets and
returns (`SendFails`, `RecvFails`); a receive with nothing to read may time out
(`Timeout`); the process may be killed, by SIGPIPE on a send to a closed peer or
from outside (`Crash`); and what a failed process had in flight may be lost
(`LoseTail`). `RecvFails` may also happen with a message waiting, because a reset
discards what was received. A process that returns MPC_OK has read everything
that was sent to it, so its close resets nothing.

### RunnerTiming

The protocol of `MpcRunner` in one of four modes: without faults and without a clock;
without faults against a clock; against a clock with one party that loses power; and with
any faults. In the timed modes a message takes up to `Latency`, parties leave `comm_init`
within `Skew` of each other, `waited` counts how long the `poll` of a party's `comm_recv`
has been waiting, and `Tick` waits for everything that is due (`Urgent`): a send, a message
that has taken `Latency`, a timeout that has run out, a peer's closed connection.
`TimingAssumption` is what `MPC_RECV_TIMEOUT` has to be longer than:
(2N - 3) messages and the longer of one message and the spread of the starts. A receive
that waits for exactly that long exists (with `RecvTimeout` two less than in the run,
`NoFalseTimeout` is violated), so no shorter timeout would do for this order of exchanges.

### CommInit

Per party two threads: `main` goes through steps 1 to 4 of `comm_init`, `next`
is its `j`; `acceptor` is between `accept` and the end of the handshake, with
`slots` iterations left. A connection is identified by who made it, in which
incarnation, and to whom, and carries the id it will send. `live` are the
connections that neither end has closed, `hello` those with an unread id.
`connect` succeeds as soon as the kernel has room in the backlog, before the
acceptor takes the connection, so a party can be past step 3 with a connection
that is never accepted. `Exit` is every way a process ends, in `comm_init` or
later. `AcceptorEnds` resets what is left in the backlog.

Foreign connections stand for everything that is not a party of this run: they
may say nothing, send an id out of range, or an id the acceptor does not expect
(0). Every party has an `n` of its own, which its configuration gives it: `ClusterConfig`
shows that a file cut off inside its last entry loads as one of a smaller cluster.
`CommAssumption` excludes one that sends the id of a party still to come: the
handshake has no way to tell it from that party, and no property could hold.

### MeterRun

`CommInit` with what follows it in a process of `meter_node`: `SplitShares`, `Send`, `Recv`
and `ComputePartial` over the descriptors in `fd`, and `EndProcess`, after which the process
can be started again. A message is on a connection, not between two parties: bytes sent on
a connection that the other end has closed are lost, and a restarted party has none of
those of its predecessor. A share is abstracted to who split it in which incarnation, a
partial sum to the incarnations whose shares are in it, so that `OneRun` can say that a
returned sum is of one input of every party. `Disturbance` stands for every error return,
timeout and kill.

`RoundsSpec` is the use that `run_meter_pi5_rounds.sh` and `run_meter_pi2_rounds.sh` make of
the program: every process that ends is started again, with the next input, and one party
may be a round ahead. `ListenersClosed` is what their `sleep 1` is taken for, see the
findings. The first of these rounds is shown to be a behaviour of `MpcRunner`, so that what
is proved there starts from what `comm_init` really leaves.

### SecureAgg

One action per outcome of an iteration of the server's loop. Masks are arbitrary
field elements, one per pair, so the properties hold for every mask key. A
connection is its packet, the process it is by and what has become of the 20 bytes: with
the sender (`part`), in its kernel or the network (`sent`), in the server's kernel (`full`),
lost on the way (`lost`), or replaced by the end of the connection (`cut`). `send` returns
when the local kernel has the bytes, so STATUS=PASS goes with `part` to `sent` (`Sends`), not
with their arrival (`Arrives`); between the two a power cut, a lost link or an accept queue
that overflows may lose them (`Loses`), which the server may notice (`Breaks`), never hear of, or
answer by dropping the connection from its queue (`Vanishes`). `passed` are the processes that have
printed STATUS=PASS, `lost` those of them whose packet did not get through. The queue holds
at most `Backlog` connections; while it is full a connect is tried again. A meter may be
launched more than once; the server's deadline (`expired`) may pass at any moment but is
only looked at where the code looks, before `poll` and in it; it need not pass, which is a
server without `--timeout-ms`. Under the mapping `counted <- seen`, with the
verdict that `Passes` gives, the server is a `Tally`: it counts each member at most once and
says PASS exactly when it has stopped with all of them counted.

### SecureAggSuite

`step` is where `run_trial` is; the rest of the state are the processes on the two
hosts and the files they leave. The server is abstracted to what `SecureAgg` shows of
it: it counts an id once, from packets of its own test id, and says PASS only when it has
counted all. A meter is a record of the trial and host it was launched in and its id, and
stays in `meters` until it has submitted or ended; `Cleanup` kills the server by its port
and removes any subset of the meters, because `pkill -x` compares names of at most 15
characters. Placement is either proportional, with any share of the second host, or one
of the given `--pi2-meters`, which may exceed N: ids are then negative on the second host
and those meters refuse to start. The resource limits of a meter, `timeout` and failures
of ssh are actions that end a process at any moment. The report that `Record` reads is this
trial's; or, since the script ignores an rsync that fails and `--out` may name the directory of
an earlier run, one that that run has left there (`EarlierReports`), which may say PASS.
The script cannot tell, so `PassRowComplete` is about the rows that are of their own report
(`own`). Without any report the extract fails (`ExtractFails`). Test ids differ from trial to
trial of a run; that separate runs, which draw theirs from the clock, do not get the same one
is not modelled.

### CaseHarness

`at` is where `run_case` is. A session is a tmux session, with the shell in it about to open
the log or the node running; a log has its old content until then, and whether an earlier
run of the script has left one is chosen at the start. `remote_cleanup` reaches any subset of
the hosts, since a failed ssh is ignored there; an ssh that launches ends the script when it
fails; in `wait_for_case` a failed one only makes the wait longer, because `set -e` does not
reach into a condition. A node prints only when all nodes of its case have been started,
which is `StartupBarrier`, and then the right aggregate, which is `AggregateCorrect`. The
one assumption about time is that a shell has opened its log before the limit of the
case (`TIMEOUT_SEC` + 15 s) has passed. `collect_logs` fetches any of the logs that there
are; where one does not come, `analyze_case` may find the copy that an earlier run has left in
a reused `--out`, with an aggregate in it. `stale` records for which cases and nodes it did:
a PASS is of this case for all other nodes (`PassRowOfCase`), and a session that goes on
while the next case runs belongs to one of these (`CasesApart`), since the script takes that
case for ended.

### GridOperator and TwoMeterOperator

One action per call of the meters and of the operator. A share is abstracted to the run of
the meters it was split in, a partial sum to the runs of the shares in it, and a word that
was never received to 0. `RecvFails`, `TakeGarbage` and `PartialCutOff` are the receives
whose result the programs do not look at; `ignored` records that one was. `Restart` starts
all meters again under an operator that still waits. Failed accepts and foreign connections
are left out: `CommInit` has them for the newer copy of the same start-up. `TwoMeterOperator` replaces the order
of the exchange, the port per meter and the connection accepted on it.

### ClusterConfig and FieldInv

The loader takes one entry per step. A file is the sequence of the ids of its closed
entries (`Malformed` for an entry whose fields do not parse) and what is wrong with it as
a whole; a file cut off inside an entry is one whose loop leaves there. `FieldInv` does
one iteration of the Euclidean loop per step, on signed numbers, with the cast back to
32 bits at the end.

## 3. Runs

| Run | Bounds | Checks | Shows |
|---|---|---|---|
| `runner_faults` | N=3, P=2, Word=5 | `TypeOK`, `AggregateCorrect`, `RoundsNeverMix`, `OneMessageInFlight`, `SuccessNeedsAll`, `ImplementsSecureSum` | with all inputs and randomness and any failure anywhere, a party that succeeds has the right sum |
| `runner_time` | N=4, P=1, Latency=1, Skew=2, RecvTimeout=8 | `NoFalseTimeout`, `AllSucceed`, `AllTerminate` | without faults nobody times out and everybody succeeds; with faults everybody ends |
| `runner_exit_code` | N=2 | `TimeoutExitCode` (violated) | finding 1 |
| `meter_faults` | N=3, configurations of 2 and 3 parties, two upsets | `MeterTypeOK`, `StartupBarrier`, `NoWriterLeft`, `FdIdentity`, `EndsAgree`, `OneRun` | what `comm_init` leaves after deaths, restarts, failed accepts and foreign connections, and that a sum over it is one of all parties |
| `meter_rounds` | N=3, three rounds | `RoundsAligned`, `AllRounds`, `ImplementsRunner` | any order of starts and any lead of one party ends with all rounds of all parties right |
| `agg_counting` | N=2, P=2, two launches each, one foreign connection, a backlog of one | `TypeOK`, `AggregateOfSeen`, `SubmissionsNotLost`, `ImplementsTally` | duplicates, stale, foreign, lost and cut-off packets do not disturb the count; what a meter reports as sent is counted unless it is lost on its way |
| `agg_masks` | N=3, P=3, values from {1, 2}, one launch each, a backlog of one | `AllCountedPasses`, `ServerEnds` | masks cancel; the server ends if what its clients send arrives or is found lost |
| `agg_silent` | N=2, P=1 | `ServerEnds` (violated) | finding 2 |
| `harness_trials` | aggregation: N=2, two trials, 0 to 3 meters on the second host; cases: 3 nodes, two cases | `TypeOK`, `PassRowComplete`, `LeftoversExplained`, `SuiteEnds`, `PassRowOfCase`, `CasesApart` | a row is about its own trial or case, although processes or logs of earlier ones are left; the aggregation script ends |
| `suite_rows` | N=1, one trial | `RowPerTrial` (violated) | finding 3 |
| `operators` | three and two meters, started up to twice, one failure | `TypeOK`, `WrongOnlyIfIgnored`, `AggregatePrinted` | an operator's sum is wrong only through a dropped error or a second start of the meters; without faults it is printed |
| `algorithms` | at most 3 entries, ids 0 to 3; P=13 | `LoaderExact`, `EuclidInvariant`, `InverseCorrect`, `InverseFound` | exactly the files that number the parties 0..N-1 load; every element is inverted within the stated bounds |

Bounds. Three parties are the smallest number with a party in the middle, which
receives first from one peer and sends first to another, and in which two parties
can be a round ahead of the third; with four, `runner_time` has disjoint and chained
exchanges. A field of two elements tells every sum apart from the sum with any one
term missing; the runs about waiting need no data and use a field of one element. In
`SecureAgg` three elements are needed for `AllCountedPasses`, since adding and
subtracting are the same in F_2. `Values` bounds what the meters may have as `--value`:
the whole field in `agg_counting`, 1 and 2 in `agg_masks`, where the masks still take
every value of the field; the theorems hold for every subset of the field. `MaxUpsets` bounds restarts, failed accepts and
foreign connections together: two in `meter_faults`, so that any pair of them
interacts, and six in `meter_rounds`, where it only leaves room for the second and third
start of three parties. Three rounds let a party be one round ahead twice. `MaxLaunches`
and `MaxForeign` bound the connections that the server sees. A `Backlog` of one
lets a connection wait, change or vanish while the server has another one in its hands, and
makes further ones try again; in which order several are taken is then the order in which
they get in, which is any. `MpcRunner` has no bound
beyond N. Word is the smallest value that `FieldAssumption` allows, so that a sum that
wraps in the code would wrap in the model. In `runner_time` the spread of the starts is
longer than a message, and the timeout is the shortest that `TimingAssumption` allows. Two
trials or cases are what a leftover of one needs to meet the next; three nodes are two on
one host and one on the other. With `MaxFails` = 1 one failure is enough to make an
operator's sum wrong, and two starts to mix two runs. Three entries and a limit of three
parties give every kind of refusal (duplicate, gap, too large, malformed) in every
position; in F_13 the loop takes up to five iterations and ends with either sign.

Deadlock is checked in the runs of `MpcRunner` and `RunnerTiming`, whose only state
without another step is the one where all parties have ended (`Done`). It is not checked
in `MeterRun` (after the last round nothing is started any more, and a spent accept slot
really leaves a party waiting, see below), nor in `SecureAgg`, the scripts, the operator
programs and `MC_Algorithms`, which end, or wait for meters that are dead.

Fairness. `TimedSpec` of `RunnerTiming`: every process that can go on does, which is the
operating system's scheduling, and time passes; a receive with nothing to read ends,
which is `MPC_RECV_TIMEOUT` in `comm_recv`. `RoundsSpec` of `MeterRun`: the two threads of
every party run, a connect that can succeed does, because it is retried every half second
for ever, and the scripts start the next round. `FairServerSpec` of `SecureAgg` runs the
server and lets time pass; `FairSpec` adds that what is on a connection finally goes on:
a client sends or is cut, what was sent arrives or is lost, what was lost is noticed. Nothing
in the code guarantees this: it is the assumption that the server's deadline turns out to
need. `SuiteFairness` of `SecureAggSuite` runs the script and the server, which `timeout`
ends at the latest, and ends every meter, which `timeout 300s` does. `MC_Operators` runs
every meter and the operator. `EuclidSpec` is a loop that runs.

### Findings

1. `include/mpc_status.h:7-8` promises a specific exit code "instead of a bare 1", and
   :17 one for "recv timed out waiting for a peer". `comm_recv` returns -1 for a timeout
   as for an error, every caller turns it into `MPC_ERR_RECV`, and
   `apps/meter_node.c:113-116` returns 1 for every failure (as does
   `test/bench_mpc.c:78-81`).
2. `apps/secure_agg_server.c:184-185`: "A dropped client can no longer hang the
   server forever." A client that connects and loses power before it sends leaves the
   server in `recv_full`, which has no timeout.
3. `scripts/run_secure_agg_suite_pc5.sh:7-9` announces "captured exit codes, and per-run
   failure reasons". When the server ends without its report (killed by `timeout`, no
   port) or the report cannot be fetched and no earlier run has left one, the `grep` in `extract` fails and, under
   `set -euo pipefail`, ends the script before the row is written; line 227 has a reason
   for exactly this case that is never used.

Seen and not made into runs: the comment at `src/mpc_comm_tcp.c:12` says that only
the acceptor writes `_peer_fd[]` and that the main thread reads it only after
`comm_init` returns; the main thread does both inside `comm_init`, under the mutex.
The comment at line 6 says that connections come from lower ids; they come from
higher ones. A restarted party, a failed `accept` or a foreign connection spends one
of the acceptor's iterations, after which step 4 waits for ever for the party that
found the listener closed: `AllRounds` needs a start-up without such events. It also
needs `ListenersClosed`: the acceptor closes its listener after the last handshake in a
thread of its own, so that a process of the next round that is started at once can connect
to a listener that is about to close, which resets it; the scripts sleep a second between
rounds, the programs do nothing about it. `MPC_RECV_TIMEOUT` is 10 s (5 s in `mpc_c_lib`): by
`TimingAssumption`, with `RUNNER_MAX_PARTIES` = 256 and links of 20 ms a correct party may
have to wait for longer, and its timeout then names a peer that lives.
`include/mpc_comm.h:78` says that `comm_recv` blocks until `timeout_ms` elapses; every short
read starts the timeout anew. `mpc_c_lib/test/test_operator.c` adds partial sums of two runs
of the meters when they are started again under it, and both operator variants add
uninitialised words for receives that failed: `WrongOnlyIfIgnored` says that nothing else
makes them print a wrong sum. Both harnesses ignore an rsync that fails and accept an `--out`
that exists, so that a row can be made of what an earlier run has left there
(`scripts/run_secure_agg_suite_pc5.sh:67, 206`, `scripts/run_scale_suite_pc5.sh:23, 165-166`): no
document says that such a directory is not to be used, and the properties about rows except
exactly these.
`load_cluster_config` accepts a file that is cut off inside an entry, as one with fewer
parties. `pkill -x secure_agg_meter` (16 characters) can match no process, whose name the
kernel cuts after 15: what the clean-up misses is told apart by the test id.

## 4. Proofs

Every theorem is for all values of the constants that satisfy the assumptions of its
modules: N > 0 parties, meters or nodes (two meters at least with an operator), a modulus
P > 0 whose double is less than Word, any number of restarts, launches, foreign
connections, trials and entries of a file, any placement. Four assumptions are more than
that: `CommAssumption` excludes foreign connections that send the id of a party still to
come, `PrimeAssumption` of `FieldInv` says that P is a prime, `TimingAssumption` of
`RunnerTiming` that the timeout is longer than (2N-3) Latency + max(Skew, Latency), and
`RoundsAlignedCorrect` and `RunnerImplemented` are about parties that have loaded the same
number of parties (`OneConfiguration`), as the round scripts have them do: they give every
host the same cluster file. With configurations of different size a round may read a share
of another one.

| Module | Theorems |
|---|---|
| `MpcField_proofs` | `FieldArithmetic`, `RandomDraws`, `SharesReconstruct` |
| `MpcRunner_proofs` | `TypeCorrect`, `InvCorrect`, `AggregateSafe`, `RoundsSafe`, `ChannelSafe`, `SuccessSafe`, `Refinement` (of `SecureSum`); of `RunnerTiming`: `TimeoutsTrue` |
| `MeterRun_proofs` | of `CommInit`: `InvCorrect`, `TypeCorrect`, `BarrierCorrect`, `NoWriterLeftCorrect`, `FdIdentityCorrect`, `EndsAgreeCorrect`; of `MeterRun`: `StartUpRefined`, `StartUpCorrect`, `MeterTypeCorrect`, `OneRunCorrect`, `RoundsAreRuns`, `RoundsAlignedCorrect`, `RunnerImplemented` (of `MpcRunner`) |
| `SecureAgg_proofs` | `InvCorrect`, `TypeCorrect`, `NotLostCorrect`, `AggregateCorrect`, `MasksCorrect`, `Refinement` (of `Tally`) |
| `Harness_proofs` | `HarnessAlways`, `SuiteTypeCorrect`, `PassRowsComplete`, `LeftoversInRows`, `PassRowsOfCase`, `CasesNeverOverlap` |
| `Operators_proofs` | `OperatorTypeCorrect`, `OperatorCorrect`, on the lemmas of `GridOperator_proofs` |
| `Algorithms_proofs` | `EuclidCorrect`, `InversionCorrect`, `LoadingCorrect` |

`MpcField_proofs`: `FieldArithmetic` (`field_add`, `field_sub` and `field_mul` compute residues
mod P: `AddValue`, `SubValue` and `MulValue` show that nothing wraps), `RandomDraws` (the
rejection loop reaches exactly the field), then that addition is commutative and
associative with unit 0. A C loop is a recursive function on Nat; `SetInduction`
derives, from the well-foundedness of Nat for sets of numbers, the induction by
which `FoldNext`, `FoldType`, `FoldCong` (only the entries below n matter),
`FoldShift` (the start value can be added at the end), `SumAdd`, `SumPoint` (changing
one summand) and `SumSquare` (a square of numbers adds up the same by rows and by
columns) are proved. `SharesReconstruct`: splitting and reconstructing gives back the
secret.

`MpcRunner_proofs`: `TypeCorrect`, and the inductive invariant `IInv` of `MpcRunner`:

- `LoopInv`: the loop index is never the own id, a half-done iteration is inside the loop;
- `ChannelInv`: nobody has received from q more than q has sent, and a connection is
  empty or holds exactly the one message sent and not received, with its content;
- `SharesInv`, `ReceivedInv`, `PartialInv`, `AggregateInv`: the shares of an input add
  up to it, what was received in round 1 is what was split, a partial sum is the sum of
  a column of shares, and the running aggregate is the sum of the partials received.

None of the safety properties is inductive alone. `RoundsNeverMix` needs to know which
message a connection holds, which needs the counts of `ChannelInv`; the counts stay
correct because in an exchange of p < q, q sends only after it has received, and p
receives only after it has sent. `AggregateCorrect` needs all of it: an aggregate with
all partials in it is the sum of all columns, which by `SumSquare` is the sum of all
rows, which by `SharesInv` is the sum of the inputs. Each part has a lemma for its
preservation, with a step per action. From `InvCorrect` follow `AggregateSafe`,
`RoundsSafe`, `ChannelSafe`, `SuccessSafe`, and `Refinement`: every step is a `Join`
(`SplitShares`), a `Contribute` (`ComputePartial`, when all have split their input,
since a share of each has arrived), a `Deliver` (`Finish`), an `Abort` (a failure)
or a stutter.

`TimeoutsTrue` is about time, so its invariant has to say how late anybody may be. The
reference is a schedule in which every message takes one unit: the lower id p of an
exchange sends to q at 2q-2, q has the message at 2q-1 and p the answer at 2q, and round 2
starts at 2N-2. `Depth` of a party is the time of its next call there, `Arrival` that of a
message. Nobody waits for anyone of no smaller depth (`WaitsForEarlier`), so that of those
who are as late as anybody may be, the ones of least depth could act at once, and time does
not pass before they do. Hence `InTime(c)`, that nobody is later than in that schedule with
units of `Latency`, begun c from now: a step keeps it, and the passing of a unit of time
turns it into `InTime(c - 1)` (`TickInTime`). `WaitInv` gives every waiting party such a c with
waited + c + Way(Depth) <= (2N-3) Latency + max(Skew, Latency), the left side of which no
tick changes; when a wait begins, how far the others can be behind the one that
waits follows from what it has received (`WaitBegins`, `RoundTwoDepth`). As somebody waits
only while not later than allowed, `waited` stays below the timeout.

`MeterRun_proofs`, start-up. The acceptor counts iterations, not parties: that it has
filed all higher ids when step 4 lets `comm_init` return is not visible in any one state
of either thread. `SlotInv` counts: the higher ids filed and the iterations left are
together at most n - p - 1, and less once an iteration has filed anything else. When the
main thread has found n - p - 1 entries in the table, no iteration is left
(`NoWriterLeft`), and none was spent on a foreign connection that filed a lower id, so
what is in the table at a lower id is the party's own connection (`FdIdentity`).
`ConnectionInv`, `LiveInv` and `TableInv` say who made the connections in the backlog, in
the acceptor's hands, open, and in the table, and in which incarnation; a party has one
open connection to another one in an incarnation, hence `EndsAgree`. `StartUpRefined`:
a step of `MeterRun` is one of `CommInit` for the variables of the start-up, or leaves
them alone, so all this holds in every round of a process that is started again and
again (`StartUpCorrect`).

`MeterRun_proofs`, a whole run. Nothing in a message says of which incarnation it is, so
`OneRun` rests on who can have sent what to whom, in terms of a few derived quantities:
`Sent` and `Received` count the calls of a party towards another one, `Inbox(p, q)` is what q
has sent to p and p has not read, `Got(p, q)` the incarnations of q whose share p has or
will read. `RunInv` is the invariant of the start-up and these parts:

- `LoopInv`, `InboxInv`, `OrderInv`, `ContentInv`: where the loops are, over which
  connection an unread message comes, that there is one per round and in order, and what it
  is the sum of;
- `ShareInv`, `SentInv`: a party gets shares of one incarnation of each other one, that of
  the connection in its table, and the present one as long as this connection is open; what
  was sent on an open connection has been read or is unread;
- `HeldInv`, `ReplyInv`, `GivenInv`: whoever holds a connection in its backlog or its table
  has not given the connecting party a share of an earlier incarnation than its own, so
  that the incarnations others have of a party never go back along the order of calls;
- `LinkedInv`, `PairInv`, `SumInv`, `AgreeInv`: two parties that are the ends of one
  connection have shares of the same incarnation of every higher id; hence a partial sum
  that arrives adds up the shares that its reader has, for each of the six orders of the
  reader p, the sender q and the party z whose share is compared;
- `SizeInv`: what a share from z shows about configurations (`Met`): z counts its reader,
  all below z count somebody above them, and those that z served before, the lower ids, count
  z. If p finishes and a party q that it counts has a larger n, then party n[p] exists and
  the last party that p counts has heard from it; but n[p] served p before, so that p would
  count it. If q has a smaller n, the same argument applies to party n[q] (`SameSize`).

A restart can break a run at any call; that it can never be joined again by the new
incarnation is `HeldInv` and `LinkCloses`: a connection that one end has closed never
becomes open again, and the new incarnation's connection reaches only a process that has
not returned from `comm_init`, which therefore has no share of the old one.

`MeterRun_proofs`, rounds without faults. Such rounds are whole runs (`RoundsAreRuns`), so
`RunInv` holds in them. What keeps a party that is rounds ahead from mixing with the others
is in `RoundInv`: nobody ends more rounds than another one has been started, and when it has
ended as many, the other one has made all its calls towards it (`FinishInv`), so nobody is
ahead of a party that still waits for it; shares read or unread are of the reader's own
round (`AlignInv`), from which `RoundsAligned` follows; a party that is behind has closed its
listener (`ListenInv`, by the scripts' pause, `ListenersClosed`), so that an open connection
joins two parties of the same round (`SameRoundInv`).

The refinement of `MpcRunner` (`RunnerImplemented`) needs besides that no send of the first
round goes to a connection that is closed, since `MpcRunner` delivers every message to a
party that runs. `ServedInv` says why: what an acceptor has in its backlog, in hand and
in its table is one connection of each higher id of this round (`PresentInv`), it has as
many slots left as higher ids are still to come (`FullInv`), so it closes its listener with an
empty backlog (`NothingQueued`), no handshake fails (`InHand`), and a connection stays open until
one of its parties ends (`OpenInv`). Then `SplitShares`, `Send`, `Recv`, `ComputePartial` and
`Finish` of a party in its first round are the actions of those names (`SplitStep`, `SendStep`
and so on), and everything else, the start-up and the rounds after the first, is a
stutter. The messages on their way in the first round (`FirstWire`) are a set here and a
sequence there: that every message adds one and every receive takes one (`OrderInv`,
`AlignInv`) is counted with the cardinality of the set. The values are those of a field of one
element; what the protocol computes is the matter of `MpcRunner_proofs`.

`SecureAgg_proofs`. The invariant adds to the properties what is in the queue and in the
server's hands (`QueueInv`) and that `received` counts `seen` (`CountInv`). `NotLostCorrect`: a
process whose bytes its kernel has taken has them on exactly the connections that say so;
whatever the network and the server do with a connection, it goes on saying so until the
server counts the meter or its duplicate, or `lost` records it (`LostNext`). The 64-bit sums
do not wrap, hence the server's arithmetic is that of the field. `MasksCorrect`: the mask of
a pair is added by one of the two and subtracted by the other. The square of these terms is
split into what is above and what is below its diagonal: the latter is the former, negated
and transposed, and a square adds up the same by rows and by columns (`SumSquare`), so that
the masks cancel for every choice of them, in every field. `AggregateCorrect`, `MasksCorrect` and
`Refinement` hold under `OnlyThisRun`: the server compares the test id of a submission,
as the suite has it do, or nobody but the meters of this run connects. Without it a
foreign packet with the right id is added like any other. `Refinement`: accepting a
submission is a `Count` of `Tally`, the end of the loop its verdict, everything else
stutters.

`Harness_proofs`. `SuiteInv` says where the meters of a trial may still be at each step of
`run_trial` (`MeterInv`), that what the server has counted is of the trial that started it
(`ReportInv`), with each id once (`CountedOnce`: N submissions are all meters), and what
the rows of their own report hold (`RowInv`). `CaseInv` says of every node that is launched
that its log is of this case or that its session is about to open it (`LogInv`), and that the
latter is over when the logs are fetched, so that a log fetched with an aggregate is of this
case; and of every session that is left that its node has not printed or belongs to an
earlier case and had its log replaced by an earlier run's copy (`SessionInv`), which is
why, with no such copies, the next case starts alone. `HarnessAlways` holds for both in every behaviour of either.

`GridOperator_proofs` states the invariant once for both variants, for any set of meters
that receive before they send: unless a receive has been ignored, what a meter has
received, reported, or the operator holds is of one run of the meters (`SharesInv`,
`SumsInv`). The operator of N meters counts connections instead of meters: `CountInv` says
that in the first run no meter is in two of the places `at`, queue, `cfd` and heard, so its
count is the number of meters heard. The other one has a port for each meter
(`InOrderInv`). `Operators_proofs` instantiates this for N and for two meters.

`Algorithms_proofs`. `EuclidInv` keeps, with x and y the absolute values of `t` and `newt`
and opposite signs, x newr + y r = P and x <= y. This bounds both by P, which is what the
source claims ("all values stay within [-p, p]"), and makes the congruences an invariant. At
the end newr = 0, so that y r = P; P is a prime and r < P, hence r = 1 and the result is
the inverse (`InversionCorrect`). The loader counts ids and compares with the largest: its
ids are distinct (`GatheredInv`), and as many numbers as there are from 0 to the largest
are all of them; a file with a duplicate numbers nothing (`Pigeonhole`).

Left to TLC: liveness (`AllSucceed`, `AllTerminate`, `AllRounds`, `ServerEnds`, `SuiteEnds`,
`AggregatePrinted`, `InverseFound`), which is out of the prover's reach. Every invariant and
every refinement that a passing run checks is a theorem as well.

## 5. Not modelled

Not modelled of the scripts: those that call the aggregation suite, and the other
all-party ones, which run a single case of the shape of `CaseHarness` or sweep over its
parameters. `test_repeated_meter_rounds_pc5.sh` and `run_long_stability_pc5.sh` share the
unguarded `grep` of finding 3 (their `field`, lines 40 and 48): a round of which a node has
left no aggregate, or whose log is fetched before the node on the first host has ended,
ends the script instead of giving a row that says FAIL.

New modules share runs where they can, as `MC_Algorithms` does, so that each run asks a
question of its own.

Not planned: secrecy of the shares as a probability statement, file output, formatting,
argument parsing, Makefiles, recorded results and generated inputs.
