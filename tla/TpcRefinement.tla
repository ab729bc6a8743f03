--------------------------- MODULE TpcRefinement ----------------------------
(***************************************************************************)
(* The system implements the two abstract specifications: AtomicCommit for *)
(* the cross-shard transactions, Ledger for a cluster whose transfers stay *)
(* inside its shard.                                                       *)
(***************************************************************************)
EXTENDS TpcSystem

-----------------------------------------------------------------------------
(* Cross-shard transactions *)

CrossTid == {tid \in Tid : cross_shard(tid)}

\* A vote is cast when a leader finishes the TpcPrepare call with ack set.
YesVotes ==
    {<<getClusterIdFromServerId(a[1]), a[2]>> :
        a \in acked \cup {<<r.from, r.tid>> : r \in {q \in replies : q.ok /\ q.ack}}}

Recorded(s, tid) ==
    IF InLog(s, tid, "COMMITTED") THEN "commit"
    ELSE IF InLog(s, tid, "ABORTED") THEN "abort" ELSE "none"

Commitment == INSTANCE AtomicCommit WITH
    Replica      <- Server,
    Transaction  <- CrossTid,
    Participants <- [tid \in CrossTid |-> {SenderCluster(tid), ReceiverCluster(tid)}],
    yes          <- {v \in YesVotes : v[2] \in CrossTid},
    decided      <- [tid \in CrossTid |-> outcome[tid]],
    recorded     <- [s \in Server |-> [tid \in CrossTid |-> Recorded(s, tid)]]

\* The client and the servers together implement atomic commitment: the outcome
\* is commit exactly when both leaders voted yes, it is fixed once, and a server
\* writes no other outcome in its log, whether it learns it from the client or,
\* late, from a peer's Sync reply.
ImplementsAtomicCommit == Commitment!Spec

-----------------------------------------------------------------------------
(* Transfers inside the shard of cluster 1 *)

Cluster == getServersInCluster(1)

\* The longest log of the cluster is the agreed one.
AgreedLog ==
    log[CHOOSE s \in Cluster : \A t \in Cluster : Len(log[s]) >= Len(log[t])]

Bank == INSTANCE Ledger WITH
    Replica   <- Cluster,
    Account   <- {c \in ClientId : isClientInCluster(c, 1)},
    Transfer  <- Txn,
    Initial   <- InitialBalance,
    ledger    <- [i \in DOMAIN AgreedLog |-> AgreedLog[i].tid],
    applied   <- [s \in Cluster |-> Len(log[s])],
    balance   <- [s \in Cluster |-> balances[s]],
    confirmed <- {a[2] : a \in acked}

\* A cluster behaves like a single ledger: its replicas apply the same transfers
\* in the same order, a transfer is paid for when it enters although runPaxos
\* tests the balance a round earlier, and what a client was told is never undone.
ImplementsLedger == Bank!Spec

=============================================================================
