----------------------------- MODULE ServerImpl -----------------------------
(***************************************************************************)
(* The server process (server.cc, wal.cc, in_call.cc, out_call.cc): one    *)
(* replica of a shard.  Every server runs HandleRPCs, a single-threaded    *)
(* loop that runs one handler to completion at a time, so every handler is *)
(* one action, and the interleavings are those of the calls in flight.     *)
(*                                                                         *)
(* Left out because nothing reads it: the map disconnected (only           *)
(* i_am_disconnected is tested), commit_successes / commit_failures, and   *)
(* the accept_num and accept_val that a promise carries (handlePrepareReply*)
(* never looks at them).  leveldb holds a copy of balances that only       *)
(* updateBalance writes.                                                   *)
(***************************************************************************)
EXTENDS Rpc, SequencesExt

CONSTANTS
    Majority,       \* ServerImpl::MAJORITY
    InitialBalance, \* the balance ServerImpl::run gives every account
    MaxBallot,      \* bound: no round is started at this ballot number
    Ordered,        \* the calls of one server to another arrive in order
    Timely,         \* the timing assumptions of a run, a subset of Timing
    MayExpire,      \* the types of calls that may miss their 10 ms deadline
    MayCrash        \* the servers whose process may die

CallType == {"PREPARE", "ACCEPT", "COMMIT", "SYNC"}

\* The code orders none of these; a call on a loaded machine can break each.
\*   sync      a Sync is answered before the next Prepare arrives
\*   decision  a TpcCommit or TpcAbort, two hops behind the Accept and Commit
\*             calls of the same transaction, does not overtake them
\*   round     the decisions sent to a cluster are handled by all its servers
\*             before the next alarm there calls runPaxos
Timing == {"sync", "decision", "round"}

ASSUME ServerAssumption ==
    /\ Majority \in Nat /\ InitialBalance \in Nat /\ MaxBallot \in Nat
    /\ Ordered \in BOOLEAN /\ Timely \subseteq Timing
    /\ MayExpire \subseteq CallType \cup {"DISCONNECT"}
    /\ MayCrash \subseteq Server

VARIABLES
    acceptor,               \* ballot_num, promised.., accepted, accept_..
    round,                  \* paxos_tid and the tallies of runPaxos
    log,                    \* log, the in-memory copy of the WAL
    prepared,               \* WAL::transferIndex and the lines it points to
    balances,               \* balances
    locks,                  \* locks
    last_inserted,          \* last_inserted, an index of the C++ vector log
    last_inserted_ballot,   \* last_inserted_ballot
    in_sync,                \* in_sync
    i_am_disconnected,      \* i_am_disconnected
    crashed,                \* the process is gone; there is no restart
    chan                    \* chan[s][t]: the OutCalls of s to t, oldest first

storeVars  == <<log, prepared, balances, last_inserted, last_inserted_ballot>>
serverVars == <<acceptor, round, storeVars, locks, in_sync,
                i_am_disconnected, crashed, chan>>

-----------------------------------------------------------------------------
(* Data *)

\* An index of the C++ vector log, or -1 when there is none.
Index == Nat \cup {-1}

Ballot   == [num : Nat, server_id : Server \cup {0}]
NoBallot == [num |-> 0, server_id |-> 0]

Status    == {"PREPARED", "COMMITTED", "ABORTED"}
WALEntry  == [tid : Tid, ballot : Ballot, status : Status]
Entry(tid, ballot, status) == [tid |-> tid, ballot |-> ballot, status |-> status]

\* paxos_tid when is_paxos_running is false; the two are always set together.
NotRunning == -1

\* One shape for all requests and one for all replies; a field a message of
\* tpc.proto does not have, or left unset, has its default here.  Replies
\* repeat the ballot of their request, so it is not kept twice.
Request  == [ballot : Ballot, last_inserted : Index, r : Tid \cup {NoTid}]
Response == [ack : BOOLEAN, latest_ballot_num : Nat, last_inserted : Index,
             logs : Seq(WALEntry), last_inserted_ballot : Ballot]

NoLatest == 0       \* latest_ballot_num is not set
NoInserted == -1    \* last_inserted is not set

Nack == [ack |-> FALSE, latest_ballot_num |-> NoLatest,
         last_inserted |-> NoInserted, logs |-> <<>>,
         last_inserted_ballot |-> NoBallot]
Ack  == [Nack EXCEPT !.ack = TRUE]

\* request: on its way to the peer.  reply: on its way back.  expired: the
\* caller has given up, the peer may still process it.
OutCall == [type : CallType, stage : {"request", "reply", "expired"},
            req : Request, res : Response]

NewCall(type, ballot, lastInserted, tid) ==
    [type |-> type, stage |-> "request", res |-> Nack,
     req |-> [ballot |-> ballot, last_inserted |-> lastInserted, r |-> tid]]

prepareCall(ballot, lastInserted) == NewCall("PREPARE", ballot, lastInserted, NoTid)
acceptCall(ballot, tid)  == NewCall("ACCEPT", ballot, NoInserted, tid)
commitCall(ballot)       == NewCall("COMMIT", ballot, NoInserted, NoTid)
syncCall(lastInserted)   == NewCall("SYNC", NoBallot, lastInserted, NoTid)

Accounts(tid) == {Txn[tid].sender, Txn[tid].receiver}

\* Mutant: the receiver is forgotten.
HeldAccounts_SenderOnly(s, tid) == {c \in {Txn[tid].sender} : InClusterOf(s, c)}

\* The accounts of a transaction that server s keeps.
HeldAccounts(s, tid) == {c \in Accounts(tid) : InClusterOf(s, c)}

\* Mutant: one account is enough.
BothHeld_Either(s, tid) == HeldAccounts(s, tid) # {}

\* The condition under which a follower commits an accepted transaction
\* without the coordinator.
BothHeld(s, tid) == HeldAccounts(s, tid) = Accounts(tid)

\* What a committed transaction adds to the balance of client c.
Effect(tid, c) ==
    (IF c = Txn[tid].receiver THEN Txn[tid].amount ELSE 0)
      - (IF c = Txn[tid].sender THEN Txn[tid].amount ELSE 0)

\* Mutant: handleSyncReply does not update the balances.
CommittedEffect_Forgotten(entries, c) == 0

\* The sum of the committed effects of a sequence of log entries.
CommittedEffect(entries, c) ==
    MapThenSumSet(LAMBDA i : IF entries[i].status = "COMMITTED"
                             THEN Effect(entries[i].tid, c) ELSE 0,
                  DOMAIN entries)

Acceptor == [ballot_num : Nat, promised : BOOLEAN, promised_num : Ballot,
             accepted : BOOLEAN, accept_num : Ballot,
             accept_val : Tid \cup {NoTid}]

Round == [paxos_tid : Tid \cup {NotRunning},
          await_prepare_decision : BOOLEAN, await_accept_decision : BOOLEAN,
          prepare_successes : Nat, prepare_failures : Nat,
          accept_successes : Nat, accept_failures : Nat]

ServerTypeOK ==
    /\ acceptor \in [Server -> Acceptor]
    /\ round \in [Server -> Round]
    /\ log \in [Server -> Seq(WALEntry)]
    /\ prepared \in [Server -> SUBSET WALEntry]
    /\ DOMAIN balances = Server
    /\ \A s \in Server : DOMAIN balances[s] = Shard(s)
    /\ locks \in [Server -> SUBSET ClientId]
    /\ last_inserted \in [Server -> Index]
    /\ last_inserted_ballot \in [Server -> Ballot]
    /\ in_sync \in [Server -> BOOLEAN]
    /\ i_am_disconnected \in [Server -> BOOLEAN]
    /\ crashed \in [Server -> BOOLEAN]
    /\ chan \in [Server -> [Server -> Seq(OutCall)]]

\* ServerImpl::ServerImpl and the balances written by ServerImpl::run.
ServerInit ==
    /\ acceptor = [s \in Server |->
          [ballot_num |-> 0, promised |-> FALSE, promised_num |-> NoBallot,
           accepted |-> FALSE, accept_num |-> NoBallot, accept_val |-> NoTid]]
    /\ round = [s \in Server |->
          [paxos_tid |-> NotRunning, await_prepare_decision |-> FALSE,
           await_accept_decision |-> FALSE,
           prepare_successes |-> 0, prepare_failures |-> 0,
           accept_successes |-> 0, accept_failures |-> 0]]
    /\ log = [s \in Server |-> <<>>]
    /\ prepared = [s \in Server |-> {}]
    /\ balances = [s \in Server |-> [c \in Shard(s) |-> InitialBalance]]
    /\ locks = [s \in Server |-> {}]
    /\ last_inserted = [s \in Server |-> -1]
    /\ last_inserted_ballot = [s \in Server |-> NoBallot]
    /\ in_sync = [s \in Server |-> FALSE]
    /\ i_am_disconnected = [s \in Server |-> FALSE]
    /\ crashed = [s \in Server |-> FALSE]
    /\ chan = [s \in Server |-> [t \in Server |-> <<>>]]

-----------------------------------------------------------------------------
(* The log and the balances *)

\* ServerImpl::prepareTransaction with WAL::prepareTransaction: the WAL line
\* written last is the one transferIndex[tid] points to.
prepareTransaction(s, tid, ballot) ==
    /\ log' = [log EXCEPT ![s] = Append(@, Entry(tid, ballot, "PREPARED"))]
    /\ prepared' = [prepared EXCEPT ![s] =
                      {e \in @ : e.tid # tid} \cup {Entry(tid, ballot, "PREPARED")}]
    /\ last_inserted' = [last_inserted EXCEPT ![s] = Len(log[s])]
    /\ last_inserted_ballot' = [last_inserted_ballot EXCEPT ![s] = ballot]
    /\ UNCHANGED balances

\* ServerImpl::commitTransaction with WAL::commitTransaction(TransferReq).
commitTransaction(s, tid, ballot) ==
    /\ log' = [log EXCEPT ![s] = Append(@, Entry(tid, ballot, "COMMITTED"))]
    /\ balances' = [balances EXCEPT ![s] =
                      [c \in Shard(s) |-> @[c] + Effect(tid, c)]]
    /\ last_inserted' = [last_inserted EXCEPT ![s] = Len(log[s])]
    /\ last_inserted_ballot' = [last_inserted_ballot EXCEPT ![s] = ballot]
    /\ UNCHANGED prepared

-----------------------------------------------------------------------------
(* Paxos, the proposer: runPaxos, called for a Transfer (processTransferCall) *)
(* or a TpcPrepare (processTpcPrepare) and again by the InCall's alarm until  *)
(* it returns true.  A call that returns false without a change is no step.   *)

\* The stubs of ServerImpl::run: the same call to every peer.
SendAll(s, call) ==
    chan' = [chan EXCEPT ![s] = [t \in Server |->
                IF t \in stubs(s) THEN Append(@[t], call) ELSE @[t]]]

\* Mutant: another transaction's round is taken for one's own.
MayRun_AnyRound(s, tid) ==
    /\ <<s, tid>> \in inCalls
    /\ ~crashed[s]
    /\ ~in_sync[s]
    /\ "round" \in Timely => \A d \in decisions : d.to \notin stubs(s) \cup {s}

\* runPaxos goes past its two early returns.
MayRun(s, tid) ==
    /\ <<s, tid>> \in inCalls
    /\ ~crashed[s]
    /\ ~in_sync[s]
    /\ round[s].paxos_tid \in {NotRunning, tid}
    /\ "round" \in Timely => \A d \in decisions : d.to \notin stubs(s) \cup {s}

\* Mutants: paxos_tid keeps its value, or becomes the tid of an unset message.
EndRound_KeepsTid(s) ==
    round' = [round EXCEPT ![s].await_prepare_decision = FALSE,
                           ![s].await_accept_decision = FALSE]

EndRound_TidZero(s) ==
    round' = [round EXCEPT ![s].await_prepare_decision = FALSE,
                           ![s].await_accept_decision = FALSE,
                           ![s].paxos_tid = NoTid]

EndRound(s) ==
    round' = [round EXCEPT ![s].await_prepare_decision = FALSE,
                           ![s].await_accept_decision = FALSE,
                           ![s].paxos_tid = NotRunning]

startRound(s, tid) ==
    LET b == [num |-> acceptor[s].ballot_num + 1, server_id |-> s] IN
    /\ MayRun(s, tid)
    /\ ~round[s].await_prepare_decision /\ ~round[s].await_accept_decision
    /\ b.num =< MaxBallot
    /\ acceptor' = [acceptor EXCEPT ![s].ballot_num = b.num,
                                    ![s].promised = TRUE,
                                    ![s].promised_num = b]
    /\ round' = [round EXCEPT ![s].paxos_tid = tid,
                              ![s].await_prepare_decision = TRUE,
                              ![s].prepare_successes = 1,
                              ![s].prepare_failures = 0]
    /\ SendAll(s, prepareCall(b, last_inserted[s]))
    /\ UNCHANGED <<rpcVars, storeVars, locks, in_sync, i_am_disconnected, crashed>>

\* Mutant: more than a majority is waited for.
PrepareDecided_ByAll(s, tid) ==
    /\ MayRun(s, tid)
    /\ round[s].await_prepare_decision
    /\ round[s].prepare_successes > Majority

PrepareDecided(s, tid) ==
    /\ MayRun(s, tid)
    /\ round[s].await_prepare_decision
    /\ round[s].prepare_successes >= Majority

\* Mutants: the locks, or the balance, are not looked at.
ConditionsMet_IgnoringLocks(s, tid) ==
    InClusterOf(s, Txn[tid].sender) =>
        balances[s][Txn[tid].sender] >= Txn[tid].amount

ConditionsMet_IgnoringBalance(s, tid) == HeldAccounts(s, tid) \cap locks[s] = {}

ConditionsMet(s, tid) ==
    /\ HeldAccounts(s, tid) \cap locks[s] = {}
    /\ InClusterOf(s, Txn[tid].sender) =>
          balances[s][Txn[tid].sender] >= Txn[tid].amount

rejectTransaction(s, tid) ==
    /\ PrepareDecided(s, tid)
    /\ ~ConditionsMet(s, tid)
    /\ EndRound(s)
    /\ Finish(s, tid, FALSE)
    /\ UNCHANGED <<acceptor, storeVars, locks, in_sync, i_am_disconnected,
                   crashed, chan>>

\* The receiver is locked whether or not its account is in this cluster, and
\* the ballot proposed is promised_num, which processPrepareCall may have set.
proposeTransaction(s, tid) ==
    LET b == acceptor[s].promised_num IN
    /\ PrepareDecided(s, tid)
    /\ ConditionsMet(s, tid)
    /\ locks' = [locks EXCEPT ![s] =
                    @ \cup HeldAccounts(s, tid) \cup {Txn[tid].receiver}]
    /\ acceptor' = [acceptor EXCEPT ![s].accepted = TRUE,
                                    ![s].accept_num = b,
                                    ![s].accept_val = tid]
    /\ round' = [round EXCEPT ![s].await_prepare_decision = FALSE,
                              ![s].await_accept_decision = TRUE,
                              ![s].accept_successes = 1,
                              ![s].accept_failures = 0]
    /\ \/ cross_shard(tid) /\ prepareTransaction(s, tid, b)
       \/ ~cross_shard(tid) /\ UNCHANGED storeVars
    /\ SendAll(s, acceptCall(b, tid))
    /\ UNCHANGED <<rpcVars, in_sync, i_am_disconnected, crashed>>

prepareFailed(s, tid) ==
    /\ MayRun(s, tid)
    /\ round[s].await_prepare_decision
    /\ round[s].prepare_successes < Majority
    /\ round[s].prepare_failures >= Majority
    /\ EndRound(s)
    /\ Finish(s, tid, FALSE)
    /\ UNCHANGED <<acceptor, storeVars, locks, in_sync, i_am_disconnected,
                   crashed, chan>>

\* Mutant: the leader's own acceptance is enough.
AcceptDecided_Alone(s, tid) ==
    /\ MayRun(s, tid)
    /\ ~round[s].await_prepare_decision
    /\ round[s].await_accept_decision
    /\ round[s].accept_successes >= 1

AcceptDecided(s, tid) ==
    /\ MayRun(s, tid)
    /\ ~round[s].await_prepare_decision
    /\ round[s].await_accept_decision
    /\ round[s].accept_successes >= Majority

chooseTransaction(s, tid) ==
    LET b == acceptor[s].accept_num IN
    /\ AcceptDecided(s, tid)
    /\ SendAll(s, commitCall(b))
    /\ \/ /\ cross_shard(tid)
          /\ UNCHANGED <<storeVars, locks>>
       \/ /\ ~cross_shard(tid)
          /\ locks' = [locks EXCEPT ![s] = @ \ Accounts(tid)]
          /\ commitTransaction(s, tid, b)
    /\ acceptor' = [acceptor EXCEPT ![s].promised = FALSE, ![s].accepted = FALSE]
    /\ EndRound(s)
    /\ Finish(s, tid, TRUE)
    /\ UNCHANGED <<in_sync, i_am_disconnected, crashed>>

\* The locks of a cross-shard transaction stay until the coordinator decides.
acceptFailed(s, tid) ==
    /\ MayRun(s, tid)
    /\ ~round[s].await_prepare_decision
    /\ round[s].await_accept_decision
    /\ round[s].accept_successes < Majority
    /\ round[s].accept_failures >= Majority
    /\ locks' = [locks EXCEPT ![s] = IF cross_shard(tid) THEN @ ELSE @ \ Accounts(tid)]
    /\ EndRound(s)
    /\ Finish(s, tid, FALSE)
    /\ UNCHANGED <<acceptor, storeVars, in_sync, i_am_disconnected, crashed, chan>>

runPaxos(s, tid) ==
    \/ startRound(s, tid)
    \/ rejectTransaction(s, tid)
    \/ proposeTransaction(s, tid)
    \/ prepareFailed(s, tid)
    \/ chooseTransaction(s, tid)
    \/ acceptFailed(s, tid)

-----------------------------------------------------------------------------
(* Paxos, the peer t that receives the i-th call of s *)

Arrives(s, t, i, type) ==
    /\ ~crashed[t]
    /\ i \in DOMAIN chan[s][t]
    /\ chan[s][t][i].type = type
    /\ chan[s][t][i].stage # "reply"
    /\ Ordered => \A j \in 1 .. (i - 1) : chan[s][t][j].stage = "reply"

\* Finish(res, Status::OK): no one waits for the reply of an expired call.
Answered(s, t, i, res) ==
    IF chan[s][t][i].stage = "expired"
    THEN RemoveAt(chan[s][t], i)
    ELSE [chan[s][t] EXCEPT ![i].stage = "reply", ![i].res = res]

IsNewer(t, req) == ~i_am_disconnected[t] /\ req.ballot.num > acceptor[t].ballot_num

\* Mutant: a peer that is behind promises too.
Promises_Behind(t, req) == IsNewer(t, req)

Promises(t, req) == IsNewer(t, req) /\ req.last_inserted = last_inserted[t]

processPrepareCall(s, t, i) ==
    LET req   == chan[s][t][i].req
        ack   == Promises(t, req)
        sync  == IsNewer(t, req) /\ req.last_inserted > last_inserted[t]
        num   == IF ack THEN req.ballot.num ELSE acceptor[t].ballot_num
        res   == [Nack EXCEPT
                    !.ack = ack,
                    !.latest_ballot_num =
                        IF ~ack /\ ~i_am_disconnected[t] /\ req.ballot.num =< num
                        THEN num ELSE NoLatest,
                    !.last_inserted =
                        IF ~ack /\ ~i_am_disconnected[t]
                             /\ req.last_inserted < last_inserted[t]
                        THEN last_inserted[t] ELSE NoInserted]
    IN
    /\ Arrives(s, t, i, "PREPARE")
    /\ "sync" \in Timely => ~in_sync[t]
    /\ acceptor' = [acceptor EXCEPT
                      ![t].promised = @ \/ ack,
                      ![t].promised_num = IF ack THEN req.ballot ELSE @,
                      ![t].ballot_num = num]
    /\ in_sync' = [in_sync EXCEPT ![t] = @ \/ sync]
    /\ chan' = [chan EXCEPT
                  ![s][t] = Answered(s, t, i, res),
                  ![t][s] = IF sync THEN Append(@, syncCall(last_inserted[t])) ELSE @]
    /\ UNCHANGED <<rpcVars, round, storeVars, locks, i_am_disconnected, crashed>>

processAcceptCall(s, t, i) ==
    LET req == chan[s][t][i].req
        ack == /\ ~i_am_disconnected[t]
               /\ acceptor[t].promised
               /\ acceptor[t].promised_num.num = req.ballot.num
    IN
    /\ Arrives(s, t, i, "ACCEPT")
    /\ \/ /\ ack
          /\ acceptor' = [acceptor EXCEPT ![t].accepted = TRUE,
                                          ![t].accept_num = req.ballot,
                                          ![t].accept_val = req.r]
          /\ locks' = [locks EXCEPT ![t] = @ \cup HeldAccounts(t, req.r)]
          /\ \/ ~BothHeld(t, req.r) /\ prepareTransaction(t, req.r, req.ballot)
             \/ BothHeld(t, req.r) /\ UNCHANGED storeVars
          /\ chan' = [chan EXCEPT ![s][t] = Answered(s, t, i, Ack)]
       \/ /\ ~ack
          /\ chan' = [chan EXCEPT ![s][t] = Answered(s, t, i, Nack)]
          /\ UNCHANGED <<acceptor, locks, storeVars>>
    /\ UNCHANGED <<rpcVars, round, in_sync, i_am_disconnected, crashed>>

\* The reply is Empty and OutCall::HandleRPCResponse ignores it.  Locks are
\* released here for cross-shard transactions too.
processCommitCall(s, t, i) ==
    LET num     == chan[s][t][i].req.ballot.num
        tid     == acceptor[t].accept_val
        ballot  == acceptor[t].accept_num
        matches == /\ ~i_am_disconnected[t]
                   /\ acceptor[t].promised_num.num = num
                   /\ acceptor[t].accept_num.num = num
    IN
    /\ Arrives(s, t, i, "COMMIT")
    /\ chan' = [chan EXCEPT ![s][t] = RemoveAt(@, i)]
    /\ \/ /\ matches
          /\ locks' = [locks EXCEPT ![t] = @ \ HeldAccounts(t, tid)]
          /\ \/ BothHeld(t, tid) /\ commitTransaction(t, tid, ballot)
             \/ /\ ~BothHeld(t, tid)
                /\ last_inserted' = [last_inserted EXCEPT ![t] = Len(log[t]) - 1]
                /\ last_inserted_ballot' = [last_inserted_ballot EXCEPT ![t] = ballot]
                /\ UNCHANGED <<log, prepared, balances>>
          /\ acceptor' = [acceptor EXCEPT ![t].promised = FALSE, ![t].accepted = FALSE]
       \/ /\ ~matches
          /\ UNCHANGED <<acceptor, locks, storeVars>>
    /\ UNCHANGED <<rpcVars, round, in_sync, i_am_disconnected, crashed>>

\* Answered even when disconnected.  log is a C++ vector, indexed from 0.
processSyncCall(s, t, i) ==
    LET from == chan[s][t][i].req.last_inserted
        res  == IF last_inserted[t] > from
                THEN [Ack EXCEPT
                        !.logs = SubSeq(log[t], from + 2, Len(log[t])),
                        !.last_inserted_ballot = last_inserted_ballot[t]]
                ELSE Nack
    IN
    /\ Arrives(s, t, i, "SYNC")
    /\ chan' = [chan EXCEPT ![s][t] = Answered(s, t, i, res)]
    /\ UNCHANGED <<rpcVars, acceptor, round, storeVars, locks, in_sync,
                   i_am_disconnected, crashed>>

-----------------------------------------------------------------------------
(* The caller s when its i-th call to t ends with a gRPC status.  rest is what *)
(* is left of chan[s][t].                                                      *)

\* Mutant: a missed deadline is not counted.
Refused_RepliesOnly(c, status) == status = "OK" /\ ~c.res.ack

\* A reply without ack and a missed deadline are failures; no other status is.
Refused(c, status) ==
    status = "DEADLINE_EXCEEDED" \/ (status = "OK" /\ ~c.res.ack)

handlePrepareReply(s, t, c, status, rest) ==
    LET counted == /\ round[s].await_prepare_decision
                   /\ c.req.ballot.num = acceptor[s].promised_num.num
                   /\ c.req.ballot.server_id = s
        replied == counted /\ status = "OK"
        newer   == replied /\ c.res.latest_ballot_num # NoLatest
        behind  == /\ replied
                   /\ c.res.last_inserted # NoInserted
                   /\ c.res.last_inserted > last_inserted[s]
        failed  == counted /\ Refused(c, status)
    IN
    /\ round' = [round EXCEPT
                   ![s].prepare_successes = IF replied /\ c.res.ack THEN @ + 1 ELSE @,
                   ![s].prepare_failures = IF failed THEN @ + 1 ELSE @,
                   ![s].await_prepare_decision = @ /\ ~newer /\ ~behind]
    /\ acceptor' = [acceptor EXCEPT ![s].ballot_num =
                      IF newer THEN c.res.latest_ballot_num ELSE @]
    /\ in_sync' = [in_sync EXCEPT ![s] = @ \/ behind]
    /\ chan' = [chan EXCEPT ![s][t] =
                  IF behind THEN Append(rest, syncCall(last_inserted[s])) ELSE rest]
    /\ UNCHANGED <<storeVars>>

handleAcceptReply(s, t, c, status, rest) ==
    LET counted == /\ round[s].await_accept_decision
                   /\ c.req.ballot.num = acceptor[s].accept_num.num
                   /\ c.req.ballot.server_id = s
        replied == counted /\ status = "OK"
        failed  == counted /\ Refused(c, status)
    IN
    /\ round' = [round EXCEPT
                   ![s].accept_successes = IF replied /\ c.res.ack THEN @ + 1 ELSE @,
                   ![s].accept_failures = IF failed THEN @ + 1 ELSE @]
    /\ chan' = [chan EXCEPT ![s][t] = rest]
    /\ UNCHANGED <<acceptor, storeVars, in_sync>>

\* The tids whose last entry in a sequence of entries is PREPARED, and the
\* PREPARED entry WAL::insertEntry leaves in transferIndex for them.
StillPrepared(entries) ==
    {entries[i] : i \in {j \in DOMAIN entries :
        /\ entries[j].status = "PREPARED"
        /\ \A k \in (j + 1) .. Len(entries) : entries[k].tid # entries[j].tid}}

handleSyncReply(s, t, c, status, rest) ==
    LET applies == status = "OK" /\ c.res.ack
        logs    == c.res.logs
        synced  == {logs[i].tid : i \in DOMAIN logs}
    IN
    /\ \/ /\ applies
          /\ log' = [log EXCEPT ![s] = @ \o logs]
          /\ prepared' = [prepared EXCEPT ![s] =
                            {e \in @ : e.tid \notin synced} \cup StillPrepared(logs)]
          /\ balances' = [balances EXCEPT ![s] =
                            [a \in Shard(s) |-> @[a] + CommittedEffect(logs, a)]]
          /\ acceptor' = [acceptor EXCEPT ![s].ballot_num =
                            c.res.last_inserted_ballot.num]
          /\ last_inserted' = [last_inserted EXCEPT ![s] = @ + Len(logs)]
          /\ last_inserted_ballot' = [last_inserted_ballot EXCEPT ![s] =
                                        c.res.last_inserted_ballot]
       \/ ~applies /\ UNCHANGED <<acceptor, storeVars>>
    /\ in_sync' = [in_sync EXCEPT ![s] = FALSE]
    /\ chan' = [chan EXCEPT ![s][t] = rest]
    /\ UNCHANGED round

HandleRPCResponse(s, t, i, status, rest) ==
    LET c == chan[s][t][i] IN
    /\ ~crashed[s]
    /\ \/ c.type = "PREPARE" /\ handlePrepareReply(s, t, c, status, rest)
       \/ c.type = "ACCEPT" /\ handleAcceptReply(s, t, c, status, rest)
       \/ c.type = "SYNC" /\ handleSyncReply(s, t, c, status, rest)
       \/ /\ c.type = "COMMIT"
          /\ chan' = [chan EXCEPT ![s][t] = rest]
          /\ UNCHANGED <<acceptor, round, storeVars, in_sync>>
    /\ UNCHANGED <<rpcVars, locks, i_am_disconnected, crashed>>

ReplyArrives(s, t, i) ==
    /\ i \in DOMAIN chan[s][t]
    /\ chan[s][t][i].stage = "reply"
    /\ HandleRPCResponse(s, t, i, "OK", RemoveAt(chan[s][t], i))

\* The deadline of OutCall::send* passes.  The request is lost, or its reply
\* is, or the peer has yet to process it.
Expire(s, t, i) ==
    /\ i \in DOMAIN chan[s][t]
    /\ chan[s][t][i].type \in MayExpire
    /\ chan[s][t][i].stage # "expired"
    /\ \/ HandleRPCResponse(s, t, i, "DEADLINE_EXCEEDED", RemoveAt(chan[s][t], i))
       \/ /\ chan[s][t][i].stage = "request"
          /\ chan[s][t][i].type # "COMMIT"
          /\ HandleRPCResponse(s, t, i, "DEADLINE_EXCEEDED",
                               [chan[s][t] EXCEPT ![i].stage = "expired"])

\* The channel to a dead process fails its calls at once.
Unavailable(s, t, i) ==
    /\ crashed[t]
    /\ i \in DOMAIN chan[s][t]
    /\ chan[s][t][i].stage = "request"
    /\ HandleRPCResponse(s, t, i, "UNAVAILABLE", RemoveAt(chan[s][t], i))

-----------------------------------------------------------------------------
(* Calls of the client program *)

\* updateBalance for a TpcCommit.
DecidedBalances(d) ==
    IF d.is_commit
    THEN [balances EXCEPT ![d.to] = [c \in Shard(d.to) |-> @[c] + Effect(d.tid, c)]]
    ELSE balances

\* WAL::commitTransaction(TpcTid) and WAL::abortTransaction read the PREPARED
\* line back.  last_inserted is not moved to the entry appended here.
processTpcDecision(d) ==
    LET s     == d.to
        found == {e \in prepared[s] : e.tid = d.tid /\ ~i_am_disconnected[s]}
    IN
    /\ d \in decisions
    /\ ~crashed[s]
    /\ "decision" \in Timely =>
          \A t \in stubs(s) : \A i \in DOMAIN chan[t][s] :
              chan[t][s][i].type \in {"ACCEPT", "COMMIT"} => chan[t][s][i].stage = "reply"
    /\ decisions' = decisions \ {d}
    /\ \/ \E e \in found :
          /\ log' = [log EXCEPT ![s] = Append(@,
                        [e EXCEPT !.status = IF d.is_commit THEN "COMMITTED" ELSE "ABORTED"])]
          /\ prepared' = [prepared EXCEPT ![s] = @ \ {e}]
          /\ locks' = [locks EXCEPT ![s] = @ \ HeldAccounts(s, d.tid)]
          /\ balances' = DecidedBalances(d)
       \/ found = {} /\ UNCHANGED <<log, prepared, locks, balances>>
    /\ UNCHANGED <<inCalls, replies, acceptor, round, last_inserted,
                   last_inserted_ballot, in_sync, i_am_disconnected, crashed, chan>>

\* resetDisconnectedState, then the names in the request.
processDisconnectCall(s, servers) ==
    i_am_disconnected' = [i_am_disconnected EXCEPT ![s] = s \in servers]

-----------------------------------------------------------------------------
(* The death of a server process *)

Crash(s) ==
    /\ s \in MayCrash
    /\ ~crashed[s]
    /\ crashed' = [crashed EXCEPT ![s] = TRUE]
    /\ UNCHANGED <<rpcVars, acceptor, round, storeVars, locks, in_sync,
                   i_am_disconnected, chan>>

\* The client's Transfer or TpcPrepare call ends with a status that is not ok.
CallFails(s, tid) ==
    /\ crashed[s]
    /\ <<s, tid>> \in inCalls
    /\ inCalls' = inCalls \ {<<s, tid>>}
    /\ replies' = replies \cup
                    {[from |-> s, tid |-> tid, ok |-> FALSE, ack |-> FALSE]}
    /\ UNCHANGED <<decisions, serverVars>>

=============================================================================
