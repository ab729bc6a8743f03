# A TLA+ model of the sharded bank: Paxos inside a shard, two-phase commit across shards

This directory specifies, model-checks and proves properties of the program in
`src/src`: a key-value bank whose accounts are split over clusters of servers.
Transfers inside one shard go through a Paxos-like protocol of the cluster;
transfers between two shards are coordinated by the client program with
two-phase commit over one such round in each cluster.

    tlc -workers 2 -config MCReplication.cfg MCReplication    # one run
    tlapm TpcSystemProofs.tla                                 # the proofs of one module

## 1. Inventory of the system

| Part | Source | State | Operations | Modelled in |
|---|---|---|---|---|
| Shard mapping | `utils.cc`, `constants.h` | sizes, fixed at start | cluster of a server / a client, servers of a cluster | `Sharding` |
| RPC vocabulary | `tpc.proto`, `types.h` | calls in flight | TpcPrepare, TpcCommit, TpcAbort, Transfer, Prepare, Accept, Commit, Sync, Disconnect | `Rpc`, `ServerImpl` |
| Paxos proposer | `server.cc` `runPaxos`, `handle*Reply` | `paxos_tid`, `await_*`, tallies | start, propose, choose, the three ways to fail; replies | `ServerImpl` |
| Paxos acceptor | `server.cc` `process*Call` | `ballot_num`, `promised*`, `accept*`, `in_sync` | Prepare, Accept, Commit, Sync | `ServerImpl` |
| 2PC participant | `server.cc` `processTpcPrepare`, `processTpcDecision` | `locks`, prepared transactions | vote, commit, abort | `ServerImpl` |
| Log and balances | `server.cc` | `log`, `balances`, `last_inserted*` | prepare, commit, abort, insert by Sync | `ServerImpl` |
| Write-ahead log | `wal.cc` | the file, `transferIndex` | prepare, commit, abort, insert, read back | `Wal` |
| Event loop | `HandleRPCs`, `in_call.cc`, `out_call.cc` | call objects, completion queues, alarms, deadlines | listen, process, retry, finish, delete; one handler at a time | `InCall` (objects), `ServerImpl`, `TpcSystem` (handlers, deadlines) |
| Coordinator | `client.cc` | `processing` | send a set, count votes, decide | `Client` |
| CSV reader | `csv_reader.cc` | position in the file, two sets under construction | `readNextSet` | `CsvReader` |
| Driver | `driver.cc` | | `processNextSet` | `CsvReader`, `Client`, `TpcSystem` |
| Commands parser, printing, process start/kill, leveldb copy | `utils/`, `client.cc`, `driver.cc` | | | not modelled, see section 9 |

How the parts interact. The driver's main thread reads a set, tells every
server with a synchronous Disconnect call who is cut off, and sends each
transfer to the leaders the set names. Calls to the leaders are asynchronous
and have no deadline; their replies are consumed by a second thread, which
counts the votes and sends TpcCommit or TpcAbort to all servers of the two
clusters. A server handles one event at a time. `runPaxos` is not a loop: it is
called once for the call and again every 10 ms by an alarm, and each time does
the one thing its flags allow. Servers talk to the peers of their own cluster
with calls that have a deadline of 10 ms. "Disconnected" is a flag: the
server still receives everything and answers no.

What is hard here, and what must hold:

- *concurrent rounds*: two leaders, two transfers, calls in flight of a round
  that is over. All replicas log the same order (`ReplicasAgreeOnOrder`,
  `AgreeUnlessRepeated`).
- *lost and late calls*: a deadline ends a call for the caller, not for the
  peer; missed entries should come back by Sync exactly once (`AppliedOnce`), an old
  answer should not undo a newer promise (`BallotsGrowUnlessRepeated`), and what was
  acknowledged should stay (`AckedSurvives`, `DurableUnlessRepeated`).
- *waiting*: the leader only moves when a tally reaches MAJORITY, and one transaction
  or Sync holds up all others (`WaitersGetAnAnswer`, `NoOrphanRound`,
  `EveryCallAnswered`).
- *check, then act*: conditions are tested at one event, the transfer is
  applied at another (`NoOverdraft`, `ProposerHoldsLocks`).
- *two-phase commit*: votes, decisions and Paxos messages of one transaction
  race, the client dies in the middle or loses an entry of its map
  (`AtomicOutcome`, `ImplementsAtomicCommit`, `CommitNeedsBothShards`,
  `DecidedWhenQuiet`, `ReplicasEqualWhenQuiet`, `UnlockedWhenQuiet`).
- *reading back*: a decision names a tid, and the transaction comes from a line of
  a file at a remembered position (`IndexPointsHome`, `IndexIsUnresolved`).
- *objects and their events*: an object is the tag of its own events and deletes
  itself (`NoDanglingTag`, `OneListener`, `LeaksOnlyTheAbandoned`, `RoundsEnd`).
- *look-ahead*: the reader recognises the end of a set by the first row of the
  next (`SetsAsWritten`, `EachOnceInOrder`, `LostOnlyAboveMalformed`).

The complete list, line by line, is under `hazards` in `PROJECT.json`.

## 2. The modules

    Sharding <- Rpc <- ServerImpl --+
                   ^-- Client ------+-> TpcSystem <- TpcRefinement <- StableLeader <- MCReplication
                                                       |  INSTANCE       (MCTwoPhase extends TpcRefinement)
                                                       +--> AtomicCommit, Ledger

    TpcSystem <- TpcSystemProofs <- TpcRefinementProofs <- AnswerProofs <- StableLeaderProofs <- QuorumProofs

    Wal <- MCWal        CsvReader <- MCCsvReader        InCall <- MCInCall
    Wal <- WalProofs    CsvReader <- CsvReaderProofs    InCall <- InCallProofs

- **Sharding**: ids, clusters, `stubs`, `Shard`. `ceil` on doubles is `CeilDiv`
  on positive integers. Names `S1`, `S2`, ... are their numbers.
- **Rpc**: what client and servers share. A transfer request is its `tid`;
  `Txn[tid]` is what it carries. `inCalls` holds the Transfer and TpcPrepare
  calls a server has not finished, `replies` the finished ones, `decisions` the
  TpcCommit and TpcAbort calls in flight. Wall-clock tids are distinct numbers.
- **ServerImpl**: the server. Variables keep the names of `server.h`, grouped in
  the records `acceptor` and `round`; `prepared` is `WAL::transferIndex` together
  with the line each position points to; `chan[s][t]` holds the calls of `s`
  to `t`, each a request, a reply on its way back, or a request whose caller has
  given up (`expired`). Every handler is one action, because the loop runs it to
  the end. `runPaxos` is the disjunction of its branches that change something:
  `startRound`, `rejectTransaction`, `proposeTransaction`, `prepareFailed`,
  `chooseTransaction`, `acceptFailed`; a call that returns false unchanged is a
  stutter.
- **Client**: the two threads of the client program. Each turn of the loop in
  `processTransactions` is a step, so replies to the first transfers of a set are
  counted while the others are still to be sent. `outcome` and `acked` are
  history variables; `forgotten` holds the tids whose entry of `processing` the data
  race lost.
- **TpcSystem**: composition, fairness, the properties, and the inductive
  invariants `AtomicityInv` and `PollInv`.
- **AtomicCommit**, **Ledger**: what the system promises, without servers, calls
  or rounds; **TpcRefinement**: the mappings under which it keeps the promise
  (section 5).
- **StableLeader**: no code of its own; the conditions under which one cluster is a
  replicated log, how long it is one, and the invariants that say why (section 7).
- **Wal**: the file as a sequence of lines, `transferIndex` as positions, with the
  log the server builds from the returned entries. `ServerImpl` does not use the
  file: its variable `prepared` is the set `Unresolved` of this module, and
  `IndexIsUnresolved` is the reason why it may be. A line that is read where none
  starts leaves variables unset; the model then returns any value (`Garbage`).
- **CsvReader**: `readNextSet` over all small files, with rows that do not parse.
  What it returns is the constant `Sets` of `Client`; `EachOnceInOrder` gives the
  assumption there that no transaction is in two sets.
- **InCall**: the objects behind the calls a server receives and the request
  completion queue. Of the handlers it keeps the one thing that matters to it:
  whether `runPaxos` returns false, because it serves one transaction at a time and
  none during a Sync.
- **MC...**: the instances (transfers, sets, files, calls).
- **TpcSystemProofs**, **TpcRefinementProofs**, **AnswerProofs**,
  **StableLeaderProofs**, **QuorumProofs**, **WalProofs**, **CsvReaderProofs**,
  **InCallProofs**: theorems and proofs (section 7).

Details kept because properties depend on them: the receiver is locked on the
leader even if its account is elsewhere; the ballot proposed is `promised_num`,
not the leader's own; Accept and Commit compare only the number of a ballot;
only a missed deadline counts as failure, no other error status; followers
release locks at the Paxos Commit; entries of a decision do not move
`last_inserted`, but a later Commit does; a vote of a failed call is counted
under tid 0.

## 3. The environment: losses, order, timing, crashes

| Constant | Meaning |
|---|---|
| `Ordered` | calls of one server to another arrive in the order sent (one HTTP/2 connection). FALSE lets any call overtake any other |
| `MayExpire` | types of calls that may miss the deadline. The request is lost, or its reply is, or the peer processes it later (for a Commit, whose end nobody looks at, "later" is simply a request still in flight). `DISCONNECT` stands for a Disconnect call that is lost |
| `ClientFaults` | `crash`: the client may die at any moment, for good. `race`: when the main thread inserts into `processing` while the consumer is about to look an entry up, the new entry may be lost (one outcome of the undefined behaviour; the other, a crash, is the fault before) |
| `MaxDeaths` | bound: how many processes die |
| `MayCrash` | servers whose process may die, at any moment and for good: the program restarts nothing, and a restarted server would begin with empty state |
| `Timely` | timing assumptions, see below |
| `Quiesce` | the operator asks for the next set only when nothing is in flight |
| `MaxBallot` | bound: no round starts above this ballot number |

`Timely` restricts scheduling in ways the code does *not* enforce, to separate
what breaks without them from what holds with them: `sync` (a Sync is answered
before the next Prepare arrives), `decision` (a decision, two network hops
behind, does not overtake Accept and Commit calls on a follower), `round` (the
decisions sent to a cluster are handled there before the next alarm). The run
`decision_overtakes` and weakness 2 below show what happens without them. The passing runs
that use them are `replication` (`sync`) and `two_phase_timely` (`decision`, `round`); no
theorem does.

`Wal` has `Faults`: `open`, the file cannot be opened at some access, and `write`, a
line is lost although the file is open. `InCall` has `Hasty`, the calls whose caller
may be gone before the answer. `CsvReader` has no faults but its input: `Init` is any
file, with rows that do not parse and numbers that jump or repeat.

## 4. The runs

All runs turn deadlock checking off: when the operator gives no more commands
and nothing is in flight, the system rightly does nothing.

Passing:

| Run | Instance | What it shows |
|---|---|---|
| `replication` | 3 servers, 1 leader, 2 conflicting transfers; every Prepare, Accept and Commit may expire, server 3 may die; `Ordered`, `sync` | the cluster implements one ledger: one order on all replicas, each transfer applied once and paid for, acknowledged transfers stay. Acceptances are counted that stand, also when they come late; every peer is counted, dead, or still to answer, so the leader is not left waiting as long as all live; no round or `in_sync` outlives its call. `ImplementsLedger` implies `NoOverdraft` |
| `catch_up` | server 3 misses the first of 3 transfers and catches up during the others, 1 leader, no timing assumption; server 3 or the client may die; fairness | two Syncs at once and Sync replies older than a promise: until a replica logs an entry twice the replicas agree and acknowledged transfers stay, and only a step that repeats an entry sets `ballot_num` back; every call is answered, or at least finished when no one waits for it |
| `failover` | 3 sets, 3 leaders, two of them cut off earlier; Sync and Disconnect may be lost | still one ledger: Sync repairs exactly what was missed |
| `two_phase_crash` | 2 clusters of 2, 2 conflicting cross-shard transfers, any order of calls, the data race, the second leader may die | atomic commitment is implemented, commit only with a majority prepared in both clusters, leaders keep their locks until the outcome and say yes only to what is in their own log |
| `two_phase_timely` | the same without faults, two transfers that the sender cannot both pay, `decision` and `round`; fairness | every transfer is decided, replicas end equal and unlocked, nothing overdrawn, every call answered; also checks the inductive invariant that is proved |
| `wal` | 2 cross-shard and 1 other transaction, 2 ballots, a line of an earlier process, opens that fail, Sync replies of 2 entries, errors of the peer included | a decision reads the latest PREPARE line of its own transaction; the file tells the log |
| `csv_reader` | all files of up to 5 rows with numbers 1 to 3, none, or not parsable | well-formed files come out as written; otherwise no row twice, out of order, with another set's servers, or lost without an exception |
| `call_objects` | 2 transfers and 1 Accept, 2 types, callers that give up; fairness | one listener per type, no event for freed memory, one answer per call; only an abandoned call leaks its object; every waiting caller is answered and every round ends |

Violations, each a statement of the repository's documents that the code does
not keep (quotes in `PROJECT.json`, `findings`):

| Run | Property | What happens |
|---|---|---|
| `two_leaders` | `ReplicasAgreeOnOrder` | a leader that promised to another one proposes its own transfer under the other's ballot: two values, one ballot number |
| `leader_cut_off` | `AckedSurvives` | a new leader ignores the accepted value its promise names and overwrites an acknowledged transfer |
| `decision_overtakes` | `ReplicasEqualWhenQuiet` | TpcCommit before Commit on a follower: it counts one entry more than its leader, which then syncs and applies the transfer again |
| `leader_crash` | `DecidedWhenQuiet` | the vote of a failed call is counted under tid 0; the transfer never gets an outcome |

More weaknesses are known and have no run of their own:

1. A leader whose `promised_num` was overwritten counts no more replies and waits
   for ever. `WaitersGetAnAnswer` leaves this case out by its third premise; without
   the premise it fails in the instance of `two_leaders`.
2. A second Prepare during a Sync starts another Sync for the same entries
   (server.cc:353), and the second reply applies them again: `AppliedOnce` fails in the
   instance of `catch_up`. That reply, older than a promise, may also set `ballot_num` back
   (server.cc:593), and the server may promise a ballot that it has promised before.
3. `MAJORITY` is 2 for every cluster size: `AckedSurvives` fails in a cluster of five,
   and in one of two a yes and a no decide nothing (server.h:88). The theorems name
   what is needed: `QuorumMajority` and `EnoughAlive`.
4. Followers release the locks of a prepared cross-shard transfer at the Paxos
   Commit, although README.md:45-50 of the repository keeps them to the outcome. Only
   the proposer holds them that long (`ProposerHoldsLocks`).
5. With a dead follower and a single missed deadline the leader counts one success
   and one failure and waits for ever. `replication` reaches this; the premise `EnoughAlive` of
   `WaitersGetAnAnswer` is false then, since two live servers need not agree.
6. A follower that misses the Commit of an intra-shard transfer keeps its locks
   (`UnlockedWhenQuiet` fails with `MayExpire = {"COMMIT"}`).
7. When the client dies between the votes and the decision the leaders keep their
   locks for ever: two-phase commit blocks, and nothing here recovers a
   coordinator (`UnlockedWhenQuiet` fails with `ClientFaults = {"crash"}`).
8. A WAL line that is lost leaves `transferIndex` pointing to where the next
   transaction will be written (`IndexPointsHome` fails with `Faults = {"write"}`).
9. After a row that does not parse, or without a row numbered 1, a set may be
   returned with no servers, that is with all servers disconnected, and with no
   leaders or those of an older set.
10. A Prepare that overtakes the Commit before it starts a Sync of the entry that the
    Commit then brings as well (`AppliedOnce` fails in `replication` with
    `Ordered = FALSE`).

Bounds. Three servers are the cluster the program is written for (majority 2
with one spare); two per cluster suffice for two-phase commit, where a majority
is then both, and keep a leader and a follower per shard. Two accounts per
instance are the sender and the receiver. Two transfers make every conflict of
locks, balance and `paxos_tid`; the third in `failover` is needed for the third
leader, and in `catch_up` for the second Prepare that finds server 3 behind. Initial balance 2 lets the first
transfer empty the account. `MaxBallot` never stops a
leader in `replication`, `catch_up` and the two-phase runs: with one leader per cluster
each call takes one round, so two transfers need ballots 1 and 2, and the three of
`catch_up` need 3. It
does cut `failover`, where a leader whose Sync is lost starts again with a higher
ballot as often as it likes; 4 leaves room for such retries, and no liveness is
checked there. `MaxDeaths = 1` is the fault model of the program, one
faulty server per cluster; in `catch_up` the one that dies may also be the client.

In `wal`, `MaxEntries = 3` stops a log of three entries (four after a Sync): a
transaction prepared, prepared again or synced, and decided, with another one in
between. In `csv_reader` five rows hold two complete sets and a third one begun, with
a bad row anywhere, and five calls read any of these files to the end. In
`call_objects` two calls of one type need the second listener and compete for
`runPaxos`; five objects are one per call and one listener per type, the most that
are ever in use. `MaxSyncs = 1` lets the server fall behind once, at any moment; a
server that always falls behind again would starve its callers.

## 5. What the system implements

`AtomicCommit` fixes one outcome per transaction, commit exactly when all shards it
touches voted yes, and lets a replica record only that outcome. The mapping: a vote
is cast when a leader finishes a TpcPrepare call with `ack` set (the reply may be in
flight, or counted); the outcome is the coordinator's `outcome`; what a replica has
recorded is read off its log. Several outcomes may be recorded at once, by a Sync.
`ImplementsAtomicCommit` is checked with a crash and the data race in `two_phase_crash`.
A dead client is, for this property, a client that takes no more steps, which
every behaviour there may do at any point.

`Ledger` is a list of transfers that only grows, each paid for when it enters, that
every replica applies in order. The mapping: the ledger is the longest log of the
cluster, a replica has applied as much as its own log holds, and a client was told
what is in `acked`. That the mapping works at all says that the logs are prefixes
of one another; that `Enter` is payable says that the balance, tested a round
earlier, still pays. `ImplementsLedger` is checked with losses in `replication` and
with changing leaders in `failover`.

## 6. Fairness

`Fairness` is weak fairness of each server's event loop (it polls for ever, and
the alarm repeats `runPaxos` until it returns true), of the failure of a client's
call to a dead process, and of each of the two client threads. Nothing is
assumed of the operator, of deadlines or of crashes. `EveryCallAnswered` is
checked under it.

`InCall` assumes weak fairness of the handling of each object's event (the loop
never ends and a completion queue passes over no event for ever), of gRPC (alarms
fire, answers are sent, a call reaches a listener that is there), and that a round
is decided: that peers answer or a deadline passes is what `EveryCallAnswered` shows
of `TpcSystem`. Nothing is assumed of callers.

## 7. What is proved

All theorems hold for every value of the constants that the `ASSUME`s of the
modules allow: any number of clusters, servers, accounts, transfers, sets, calls
and rows, and every choice of the environment constants (losses, order, crashes,
timing), unless a theorem names a hypothesis of its own. The assumptions say only
what the program takes for granted: sizes are positive, transfers name existing
accounts and have distinct tids, the leaders of a set are servers of their clusters,
no transfer is in two sets.

### Atomicity (`TpcSystemProofs`)

- `AtomicityInvariance`: `Spec => []AtomicityInv`
- `TypeCorrectness`: `Spec => []TypeOK`
- `Atomicity`: `Spec => []AtomicOutcome`, no two servers of any clusters log
  COMMITTED and ABORTED for one transaction.

`AtomicOutcome` is not inductive: a log entry may come from a
decision, from a Paxos Commit or from another server's log through a Sync reply,
and a decision comes from votes. `AtomicityInv` follows the chain:

- `VotesConserved`: every TpcPrepare call is in exactly one place (call, reply,
  counted), at most two per transfer, and a decided transfer has nothing left
  outstanding; so a transfer is decided at most once;
- `DecisionsFollowOutcome`: a decision in flight is the coordinator's;
- `log \in [Server -> Seq(SoundEntry)]` and `SoundCall`: every entry in a log
  *and in a Sync reply in flight* agrees with `outcome`; an entry committed by a
  Paxos Commit is of an intra-shard transfer, for which no decision exists;
- `RoundsStarted`: a Commit call can only match an `accept_num` that was set, so
  `accept_val` is a transfer and not the empty message.

The proof splits the invariant into the client's half and the servers' half
(`TwoHalves`); `ClientFrame`, `CallEnds` and `ServerFrame` show which half a step can
disturb, and there is one lemma per action.

### Refinement (`TpcRefinementProofs`)

- `AtomicCommitRefinement`: `Spec => ImplementsAtomicCommit`
- `VotesInvariance`: `Spec => [](AtomicityInv /\ VoteInv)`

The step `Decide` of `AtomicCommit` needs that the outcome is commit exactly
when all touched shards voted yes, but the coordinator counts only numbers. `VoteInv`
says what the numbers stand for: only the two clusters of a transfer vote, each by
one server (`OneVoterPerCluster`); a yes that was counted is not outstanding as
well (`CountedOnce`); a counted success is a yes of some server, and a counted
failure a cluster that will never say yes (`CountersTell`). Two successes are then
two different clusters. A dead leader or a failed call turns a vote that could have
been yes into none. Each action of `Next` is mapped to a step of `AtomicCommit` or to a
stutter; `Learn` also covers a Sync that brings several outcomes at once.

### What an answer stands for (`AnswerProofs`)

- `AnswersAlwaysLogged`: `Spec => []AnswersAreLogged`
- `CommitsArePrepared`: the outcome commit means that in each of the two clusters
  some server has the transfer PREPARED in its own log.
- `AnswersInvariance`: the inductive invariant of both.

A leader answers many steps after it logged, from flags that all of its unfinished
calls share. `RoundsLogged` ties them together: a round that awaits votes has a
transaction, and one that awaits acceptance of a cross-shard transfer has it
PREPARED. `CommitsArePrepared` is the part of `CommitNeedsBothShards` that holds in
general; that the *majority* of the cluster has it too is checked by TLC only, see
below.

### One leader per cluster (`StableLeaderProofs`)

Under the hypotheses `StableLeaders` (all sets name the same leader for a cluster) and
`IntraShard` (no transfer crosses shards):

- `ReplicationInvariance`: `Spec => []ReplicationInv`
- `ReplicasAlwaysAgree`: `Spec => []AgreeUnlessRepeated`
- `BallotsNeverRegress`: `Spec => BallotsGrowUnlessRepeated`

The two hypotheses are about the constants, and both are needed: without the first
`two_leaders` happens, without the second `decision_overtakes`, where the leader itself
falls behind. Nothing is assumed of the order, the timing or the loss of calls, of
deaths, of who is cut off, or of `Majority`.

Agreement does not hold for ever under them. Two Syncs under way at once, or a Commit
and a Sync, bring a replica an entry it has (weaknesses 2 and 10), and
then the lengths of logs, which is all that Prepare compares, no longer tell who is behind.
So the properties have a premise on the state, `LoggedOnce`: no replica has logged an
entry twice. They say that this is the *only* way out: up to that moment, whatever
overtakes whatever, the logs are prefixes of one another, no acknowledged transfer is
lost and no ballot goes back. `BallotsGrowUnlessRepeated` looks at the state after the
step: a Sync reply that would lower `ballot_num` is one that brings what is already there.

Agreement alone is far from inductive. A follower's log grows in two ways, by a Commit
that names only a ballot number and by a Sync reply that was put together earlier, and
nothing it checks on arrival says that the entry is the right one. `ReplicationInv`
says why it is, pair by pair of a leader and a follower (`Link`):

- `Roles`: only leaders run rounds, and they never sync; Sync calls go from followers
  to leaders, all others the other way;
- `LeaderRound`, `LeaderLog`: the leader's ballots only grow, and its log has one entry
  per ballot, in their order;
- `FollowerLog`: a follower's log is a prefix of the leader's, and what is missing
  is not older than the ballots it has seen;
- `FollowerBallots`: what it accepted is what the leader proposed in that ballot
  (`IsProposal`);
- `CallSound`, `InOrder`: what a call says of the leader is still true when it arrives,
  however late; a Prepare tells how many entries there are below its ballot (`HasBelow`);
- `SyncSound`: a Sync asks from a place in the follower's log on, and its reply is that
  stretch of the leader's. If the place is not the end of the log any more, applying
  the reply repeats an entry; if it is, the reply is what comes next.

Each action either touches one pair (`PairChanges`) or the leader alone
(`LeaderChanges`); `PairStep` and `LeaderStep` reduce the invariant to the parts of that
pair or that leader, and there is one lemma per handler. `RepeatsStay` closes the
induction: logs only grow, so once `LoggedOnce` is false it stays false.

### Quorums and polls (`QuorumProofs`)

Under `StableLeaders` and `IntraShard`:

- `QuorumInvariance`: `Spec => []QuorumInv`
- `AckedAlwaysSurvives`: with `QuorumMajority` also `Spec => []DurableUnlessRepeated`

Without any hypothesis:

- `PollInvariance`: `Spec => []PollInv`
- `WaitersAlwaysGetAnAnswer`: `Spec => []WaitersGetAnAnswer`
- `NoOrphanRounds`: `Spec => []NoOrphanRound`

The leader counts answers, not servers. `QuorumInv` gives the counts their meaning: the
successes of a round are at most the replicas that accepted in its ballot and whose
answer is no longer outstanding (`Voters`), so no answer is counted twice, or for another
round; an acceptance on its way back still stands when it arrives (`Standing`); and every
entry of the leader is held by `Majority` replicas (`EntryHolders`), in the log or as
accepted value, although followers forget the value at the Commit and promise later
ballots. Like `ReplicationInv` it holds until a replica logs an entry twice.
`QuorumMajority` (more than half) is needed for `DurableUnlessRepeated` only, and is true
of the program's three servers and MAJORITY 2.

`PollInv` is the other direction: every peer has been counted, is dead, or has yet to
answer a call of the very ballot the tally is for (`Silent`). It holds with several
leaders, cross-shard transfers, reordering and deaths, as long as the server has promised
no other one. `WaitersGetAnAnswer` follows where the votes of the live servers must
add up to a decision (`EnoughAlive`); the two premises are exactly the cases in which the
code does wait for ever (weaknesses 1, 3 and 5). `NoOrphanRound` is about the flags that
make a server refuse to start anything else: `paxos_tid` belongs to a call
whose alarm still runs, `in_sync` to a Sync under way.

### Call objects (`InCallProofs`)

- `CallTypeCorrectness`, `NoDanglingTags`, `AnsweredAtMostOnce`, `AlwaysOneListener`,
  `OnlyTheAbandonedLeak`: the five invariants of `InCall`, from
  `CallObjectsInvariance`.

The inductive invariant `CallInv`: what gRPC does for an object follows from the
object's status (`OpFitsStatus`), there is one operation per object and one object per
call, a call being worked on is not answered. A new listener needs free memory,
which gRPC's caller would get from the heap; `InCallAssumption` gives the
model `|Type| + |Call|` objects, and a pigeonhole argument shows that this is always
enough: each object in use is a listener or serves a call of its own.

### Write-ahead log (`WalProofs`)

- `WalTypeCorrectness`, `IndexIsAlwaysUnresolved`, `FileAlwaysTellsLog`: for all
  faults;
- `IndexAlwaysPointsHome`: if `"write" \notin Faults`, as in the run. With lost writes
  it is false (weakness 8), so this hypothesis is needed.

`WalInv` is stated of any file, index and log (`Sound`), because a Sync reply applies
several entries in one action and the states between them are no states of the
module. While the disk works it counts: as many new lines as entries, each line
decoding to its entry, and the index holding exactly the positions of the open
entries. The proof uncovered that `SyncedCommand` was written with overlapping
`CASE` guards, whose value TLA+ leaves open; it is now an `IF` with the order of
the code's `if`s.

### CSV reader (`CsvReaderProofs`)

- `RowsIssuedOnce`, `NoRowLostSilently`, `OwnRowGoverns`, `FileReturnedAsWritten`: the
  four invariants of `CsvReader`, for files of any length with any positive numbers
  and any number of calls.

One call of `readNextSet` reads many rows; the model finds where it stops with `Min`
and `Max`, so there is no induction over rows: lemmas say what the stop row is. The
invariant adds that what is kept for the next call is the last row read
(`LastRowKept`) and that everything returned lies above it (`ReturnedAbove`). For
well-formed files `WrittenSoFar` says where the reader stands (`AtStart`,
`AtNumberedRow`, `AtEnd`); the number of sets at the end is a count of the numbered rows.

The strengthenings `VoteInv`, `LastRowKept`, `ReturnedAbove` and `WrittenSoFar` were
checked with TLC on the instances of `two_phase_crash` and `csv_reader` before they
were proved; `AtomicityInv` is checked by the run `two_phase_timely`, `ReplicationInv` by
`catch_up`, `QuorumInv` and `PollInv` by `replication`. `ReplicationInv` and
`QuorumInv` were also checked with `Ordered = FALSE` in the instance of `catch_up`.

### Only model-checked

- `AppliedOnce`, `NoOverdraft`, `ImplementsLedger`: balances are sums over a log, and
  what such a sum is needs induction over the log, which the prover cannot do. The
  order of the entries, on which they rest, is proved for one leader. They need more
  than the theorems: without `Ordered` or `sync` they fail (weaknesses 2 and 10).
- `ReplicasAgreeOnOrder` and `AckedSurvives` in `failover`, where the leader changes
  between sets: the theorems need one leader per cluster. A hypothesis between that
  and the failing `two_leaders` and `leader_cut_off` has not been worked out.
- `CommitNeedsBothShards` (its majority) and `ProposerHoldsLocks`: about cross-shard
  transfers, where a leader may sync. `handleSyncReply` may then lower `ballot_num` (as
  it does for a follower in `catch_up`), a number is used again, and a late Accept reply of the old round would be counted for
  the new one; and a PREPARED entry that returns by Sync, with its proposer's ballot,
  takes no locks.
- `DecidedWhenQuiet`, `ReplicasEqualWhenQuiet`, `UnlockedWhenQuiet`: under the timing
  assumptions of their run only.
- `EveryCallAnswered`, `WaitersAnswered`, `RoundsEnd`: liveness under fairness is
  outside what the prover can do.

## 8. Plan

1. Done: all modules above, the runs, the two refinements model-checked; proved:
   atomicity, the refinement of `AtomicCommit`, what answers stand for, the agreement
   and durability of a cluster with one leader up to the first repeated entry, that
   leaders get their answers, and all invariants of `InCall`, `Wal` and `CsvReader`.
2. Possible next: leaders that change only between sets that have come to rest, with
   what a Sync must have brought to the new leader; and the majority behind
   `CommitNeedsBothShards` when decisions do not overtake.

## 9. Not modelled

- The commands parser and the prompt: text only; the operator's one command that
  changes anything is `processNextSet`.
- Balance, Logs and the print commands: they only read.
- leveldb: a copy of the balances that is written and never read.
- The characters of a CSV row and of a WAL line: a row is what the parser returns
  for it, a line its words. All numbers are written in decimal and read back by the
  same stream operators.
- Start and termination of the server processes: operating system calls before the
  first and after the last step of the model. (`killAllServers` erases from the map
  it iterates over, and `main` lets its consumer thread go out of scope unjoined;
  both are about the end of the process, where no state is left to protect.)
- Restarting a server: the program never does, and a server reads neither its WAL
  nor its leveldb at start-up, so a restarted one would be a new server with the
  old name.
- A data race on `processing` that damages the tree in other ways than by losing the
  entry that is being inserted.
- A Disconnect call that is handled after the client gave up on it.
- Widths of integers: a ballot number grows by one per round and a balance is at
  most the money in the bank, both far below 2^31.
