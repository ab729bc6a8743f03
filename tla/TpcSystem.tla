----------------------------- MODULE TpcSystem ------------------------------
(***************************************************************************)
(* The whole system: the servers of all clusters and the client program.   *)
(***************************************************************************)
EXTENDS ServerImpl, Client

CONSTANTS
    Quiesce,    \* the operator asks for a set when the last one is done
    MaxDeaths   \* bound: at most this many processes die

ASSUME SystemAssumption == Quiesce \in BOOLEAN /\ MaxDeaths \in Nat

vars == <<rpcVars, serverVars, clientVars>>

\* Nothing is in flight anywhere.
Quiet ==
    /\ inCalls = {}
    /\ client_up => replies = {}
    /\ \A d \in decisions : crashed[d.to]
    /\ \A s, t \in Server : chan[s][t] = <<>> \/ crashed[s] \/ crashed[t]

Init == RpcInit /\ ServerInit /\ ClientInit

NextSet ==
    /\ Quiesce => Quiet
    /\ processNextSet
    /\ UNCHANGED serverVars

\* A Disconnect call is handled, or the client gives up on it.
DisconnectCall(s) ==
    /\ updateDisconnected(s)
    /\ \/ ~crashed[s] /\ processDisconnectCall(s, Sets[set_no].disconnected)
       \/ ("DISCONNECT" \in MayExpire \/ crashed[s]) /\ UNCHANGED i_am_disconnected
    /\ UNCHANGED <<acceptor, round, storeVars, locks, in_sync, crashed, chan>>

IssueTransaction(t) == processTransactions(t) /\ UNCHANGED serverVars

\* mainloop, once the operator has asked for a set.
MainThread ==
    \/ \E t \in to_send : IssueTransaction(t)
    \/ \E s \in Server : DisconnectCall(s)

ConsumerThread == consumeReplies /\ UNCHANGED serverVars

\* One event of a completion queue of server s: an InCall or its alarm, or
\* the end of an OutCall.
HandleRPCs(s) ==
    /\ \/ \E tid \in Tid : runPaxos(s, tid)
       \/ \E t \in stubs(s) : \E i \in DOMAIN chan[t][s] :
             \/ processPrepareCall(t, s, i)
             \/ processAcceptCall(t, s, i)
             \/ processCommitCall(t, s, i)
             \/ processSyncCall(t, s, i)
       \/ \E d \in decisions : d.to = s /\ processTpcDecision(d)
       \/ \E t \in stubs(s) : \E i \in DOMAIN chan[s][t] :
             ReplyArrives(s, t, i) \/ Unavailable(s, t, i)
    /\ UNCHANGED clientVars

CallExpires(s) ==
    /\ \E t \in stubs(s) : \E i \in DOMAIN chan[s][t] : Expire(s, t, i)
    /\ UNCHANGED clientVars

CallRefused(s) ==
    /\ \E tid \in Tid : CallFails(s, tid)
    /\ UNCHANGED clientVars

Deaths ==
    Cardinality({s \in Server : crashed[s]}) + (IF client_up THEN 0 ELSE 1)

ServerCrashes(s) ==
    /\ Deaths < MaxDeaths
    /\ Crash(s)
    /\ UNCHANGED clientVars

CoordinatorCrashes ==
    /\ Deaths < MaxDeaths
    /\ clientCrash
    /\ UNCHANGED serverVars

Next ==
    \/ NextSet
    \/ MainThread
    \/ ConsumerThread
    \/ \E s \in Server : HandleRPCs(s)
    \/ \E s \in Server : CallExpires(s)
    \/ \E s \in Server : CallRefused(s)
    \/ \E s \in Server : ServerCrashes(s)
    \/ CoordinatorCrashes

Spec == Init /\ [][Next]_vars

TypeOK == RpcTypeOK /\ ServerTypeOK /\ ClientTypeOK

-----------------------------------------------------------------------------
(* Fairness.  Every server polls its completion queues forever (HandleRPCs), *)
(* the alarm of InCall::Retry calls runPaxos again until it is done, a call  *)
(* to a dead process fails, and both threads of the client run: as long as   *)
(* there is something to handle, each of them handles something.  Nothing is *)
(* assumed of the operator, of deadlines or of crashes.                      *)

Fairness ==
    /\ \A s \in Server : WF_vars(HandleRPCs(s))
    /\ \A s \in Server : WF_vars(CallRefused(s))
    /\ WF_vars(MainThread)
    /\ WF_vars(ConsumerThread)

FairSpec == Spec /\ Fairness

-----------------------------------------------------------------------------
(* Properties *)

\* The transactions the client has sent.
Issued == (UNION {Sets[i].transactions : i \in 1 .. set_no}) \ to_send

Replicas(s) == stubs(s) \cup {s}

IsMajorityOf(Q, cluster) ==
    2 * Cardinality(Q) > Cardinality(getServersInCluster(cluster))

\* The log of s has an entry for tid with that status.
InLog(s, tid, status) ==
    \E i \in DOMAIN log[s] : log[s][i].tid = tid /\ log[s][i].status = status

Holders(tid, status) == {s \in Server : InLog(s, tid, status)}

\* Every cluster agrees on one order: the logs of two replicas never differ
\* at a position that both have, whatever calls of runPaxos, Commit or Sync
\* were lost or late.
ReplicasAgreeOnOrder ==
    \A s \in Server : \A t \in stubs(s) :
        IsPrefix(log[s], log[t]) \/ IsPrefix(log[t], log[s])

\* Every balance is the initial one plus the effect of each transaction
\* committed in the log, counted once: no lost Commit and no later
\* handleSyncReply makes a replica apply a transaction twice or not at all.
AppliedOnce ==
    \A s \in Server : \A c \in Shard(s) :
        balances[s][c] = InitialBalance +
            MapThenSumSet(LAMBDA tid : Effect(tid, c),
                          {tid \in Tid : s \in Holders(tid, "COMMITTED")})

\* No account is overdrawn, on any replica, although runPaxos tests the
\* balance on the leader only and well before the transfer is applied.
NoOverdraft ==
    \A s \in Server : \A c \in Shard(s) : balances[s][c] >= 0

\* A transfer that was acknowledged to the client is held, in the log or as
\* the accepted value, by a majority of its cluster from then on.
AckedSurvives ==
    \A a \in acked :
        ~cross_shard(a[2]) =>
            IsMajorityOf({s \in Replicas(a[1]) :
                             \/ s \in Holders(a[2], "COMMITTED")
                             \/ acceptor[s].accepted /\ acceptor[s].accept_val = a[2]},
                         SenderCluster(a[2]))

\* Two-phase commit is atomic: no two logs, of any servers of any clusters,
\* record different outcomes for the same transaction.
AtomicOutcome ==
    \A tid \in Tid : Holders(tid, "COMMITTED") = {} \/ Holders(tid, "ABORTED") = {}

\* The coordinator decides commit only when a majority of both clusters has
\* the transaction prepared in its log.
CommitNeedsBothShards ==
    \A tid \in Tid : outcome[tid] = "commit" =>
        \A c \in {SenderCluster(tid), ReceiverCluster(tid)} :
            IsMajorityOf(Holders(tid, "PREPARED") \cap getServersInCluster(c), c)

\* Server s answered a Transfer or TpcPrepare call for tid with ack set.
SaidYes(s, tid) ==
    \/ <<s, tid>> \in acked
    \/ \E r \in replies : r.ok /\ r.ack /\ r.from = s /\ r.tid = tid

\* A leader says yes only to what is in its own log, PREPARED for a TpcPrepare and
\* COMMITTED for a Transfer, although the alarms of all its unfinished calls share
\* one Paxos round and the answer to one call is given by the tallies of another.
AnswersAreLogged ==
    \A s \in Server, tid \in Tid :
        SaidYes(s, tid) =>
            InLog(s, tid, IF cross_shard(tid) THEN "PREPARED" ELSE "COMMITTED")

\* Two-phase locking at the leader: the accounts of a transaction it proposed
\* stay locked until it learns the outcome.
ProposerHoldsLocks ==
    \A s \in Server : \A e \in prepared[s] :
        e.ballot.server_id = s => HeldAccounts(s, e.tid) \subseteq locks[s]

\* When nothing is in flight every transaction sent has an outcome.
DecidedWhenQuiet ==
    Quiet => \A tid \in Issued : cross_shard(tid) => outcome[tid] # "none"

\* When nothing is in flight all replicas of a shard have the same balances.
ReplicasEqualWhenQuiet ==
    Quiet => \A s \in Server : \A t \in stubs(s) : balances[s] = balances[t]

\* When nothing is in flight no account of a shard is locked on its servers.
UnlockedWhenQuiet ==
    Quiet => \A s \in Server : locks[s] \cap Shard(s) = {}

\* The caller s has yet to hear of its i-th call to t.
Live(s, t, i) == chan[s][t][i].stage # "expired"

\* What makes a server refuse to run other calls is always about to end: a round
\* belongs to an unfinished call, whose alarm runs it again, and in_sync to a Sync
\* that will be answered or miss its deadline.
NoOrphanRound ==
    \A s \in Server : ~crashed[s] =>
        /\ round[s].paxos_tid # NotRunning => <<s, round[s].paxos_tid>> \in inCalls
        /\ in_sync[s] => \E t \in stubs(s) : \E i \in DOMAIN chan[s][t] :
                             chan[s][t][i].type = "SYNC" /\ Live(s, t, i)

\* Whatever its peers vote, one of the tallies of s reaches Majority.
EnoughAlive(s) ==
    2 * Majority =< Cardinality({t \in Replicas(s) : ~crashed[t]}) + 1

\* A leader never waits for nothing: when all the calls it made have ended, it
\* has counted enough answers for the next runPaxos to go on, unless too many of
\* its peers are dead or it has promised another server a ballot in the meantime.
WaitersGetAnAnswer ==
    \A s \in Server :
        /\ ~crashed[s]
        /\ EnoughAlive(s)
        /\ acceptor[s].promised_num.server_id = s
        /\ \A t \in stubs(s) : \A i \in DOMAIN chan[s][t] : ~Live(s, t, i)
        =>
        /\ round[s].await_prepare_decision =>
              \/ round[s].prepare_successes >= Majority
              \/ round[s].prepare_failures >= Majority
        /\ round[s].await_accept_decision =>
              \/ round[s].accept_successes >= Majority
              \/ round[s].accept_failures >= Majority

\* Every Transfer and TpcPrepare call is answered: the servers get to the end
\* of every set they are given.
EveryCallAnswered == inCalls # {} ~> inCalls = {}

-----------------------------------------------------------------------------
(* Why two-phase commit is atomic: an inductive invariant *)

\* A Transfer or TpcPrepare call to s that the client has yet to count.
Outstanding(s, tid) ==
    <<s, tid>> \in inCalls \/ \E r \in replies : r.from = s /\ r.tid = tid

VotesCounted(tid) == processing[tid].successes + processing[tid].failures

\* Every call gives at most one vote, and a transaction has two: what is
\* outstanding and what is counted are never more, and the coordinator has
\* decided only when nothing is outstanding.
VotesConserved ==
    /\ \A r \in replies : <<r.from, r.tid>> \notin inCalls
    /\ \A r, q \in replies : r.from = q.from /\ r.tid = q.tid => r = q
    /\ \A s \in Server, tid \in Tid : Outstanding(s, tid) => tid \in Issued
    /\ \A tid \in Tid : \A s, t, u \in Server :
          Outstanding(s, tid) /\ Outstanding(t, tid) /\ Outstanding(u, tid)
              => s = t \/ s = u \/ t = u
    /\ \A tid \in Tid : VotesCounted(tid) # 0 =>
          /\ VotesCounted(tid) = 1
          /\ tid \in Issued
          /\ \A s, t \in Server :
                Outstanding(s, tid) /\ Outstanding(t, tid) => s = t
    /\ \A tid \in Tid : outcome[tid] # "none" =>
          /\ VotesCounted(tid) = 0
          /\ tid \in Issued
          /\ cross_shard(tid)
          /\ \A s \in Server : ~Outstanding(s, tid)

DecisionsFollowOutcome ==
    \A d \in decisions :
        outcome[d.tid] = IF d.is_commit THEN "commit" ELSE "abort"

\* The entries a log may hold, given what the coordinator has decided.
SoundEntry ==
    {e \in WALEntry :
        /\ e.status = "COMMITTED" /\ cross_shard(e.tid) => outcome[e.tid] = "commit"
        /\ e.status = "ABORTED" => outcome[e.tid] = "abort"}

\* Accept and Commit calls are those of a started round, and a Sync reply
\* carries entries a log may hold.
SoundCall ==
    {c \in OutCall :
        /\ c.type \in {"ACCEPT", "COMMIT"} => c.req.ballot.num # 0
        /\ c.type = "ACCEPT" => c.req.r \in Tid
        /\ c.res.logs \in Seq(SoundEntry)}

RoundsStarted ==
    \A s \in Server :
        /\ acceptor[s].accept_num.num # 0 => acceptor[s].accept_val \in Tid
        /\ round[s].await_prepare_decision => acceptor[s].promised_num.num # 0
        /\ round[s].await_accept_decision => acceptor[s].accept_num.num # 0

\* What every log, every Sync reply and every call in flight says of a
\* transaction is what the coordinator decided from two votes: the inductive
\* strengthening of AtomicOutcome.
AtomicityInv ==
    /\ TypeOK
    /\ VotesConserved
    /\ DecisionsFollowOutcome
    /\ RoundsStarted
    /\ log \in [Server -> Seq(SoundEntry)]
    /\ chan \in [Server -> [Server -> Seq(SoundCall)]]

-----------------------------------------------------------------------------
(* Why a leader gets its answers: an inductive invariant *)

\* t has yet to answer the call of that type for ballot b of s.
Pending(s, t, type, b) ==
    \E i \in DOMAIN chan[s][t] : /\ chan[s][t][i].type = type
                                 /\ chan[s][t][i].req.ballot = b
                                 /\ Live(s, t, i)

\* The peers of s that have not been counted: their answer is on its way, or
\* they died and their calls failed with a status that nobody counts.
Silent(s, type) ==
    {t \in stubs(s) : crashed[t] \/ Pending(s, t, type, acceptor[s].promised_num)}

PollOf(s) ==
    /\ round[s].await_prepare_decision =>
          Cardinality(Replicas(s)) =< round[s].prepare_successes + round[s].prepare_failures
                                        + Cardinality(Silent(s, "PREPARE"))
    /\ round[s].await_accept_decision =>
          /\ acceptor[s].accept_num.num = acceptor[s].promised_num.num
          /\ Cardinality(Replicas(s)) =< round[s].accept_successes + round[s].accept_failures
                                           + Cardinality(Silent(s, "ACCEPT"))

\* As long as s has promised no other server, every peer has been counted for the
\* round of s or is silent: the inductive strengthening of WaitersGetAnAnswer.
PollInv ==
    /\ \A s \in Server : acceptor[s].promised_num.server_id = s => PollOf(s)
    /\ \A s, t \in Server : \A i \in DOMAIN chan[s][t] :
          chan[s][t][i].type = "PREPARE" => chan[s][t][i].req.ballot.server_id = s

=============================================================================
