------------------------------- MODULE Client -------------------------------
(***************************************************************************)
(* The client program (driver.cc, client.cc): it reads transaction sets,   *)
(* sends their transactions to the leaders named in the set, and           *)
(* coordinates the two-phase commit of the cross-shard ones.  The main     *)
(* thread runs mainloop, a second thread runs consumeReplies.  Both use    *)
(* the map processing, and nothing locks it.                               *)
(***************************************************************************)
EXTENDS Rpc, FiniteSetsExt

CONSTANTS
    Sets,           \* what readNextSet returns, one set after the other
    ClientFaults    \* the faults of the client process, a subset of Fault

\* crash  the process dies; nothing starts it again
\* race   the data race on processing loses an entry
Fault == {"crash", "race"}

TransactionSet == [transactions : SUBSET Tid, disconnected : SUBSET Server,
                   leaders : [1 .. NumClusters -> Server]]

ASSUME SetsAssumption ==
    /\ ClientFaults \subseteq Fault
    /\ Sets \in Seq(TransactionSet)
    /\ \A i \in DOMAIN Sets : \A c \in 1 .. NumClusters :
          getClusterIdFromServerId(Sets[i].leaders[c]) = c
    /\ \A i, j \in DOMAIN Sets :
          i # j => Sets[i].transactions \cap Sets[j].transactions = {}

VARIABLES
    set_no,         \* CSVReader::currentSetNo
    to_inform,      \* the servers updateDisconnected has yet to call
    to_send,        \* the transactions processTransactions has yet to send
    processing,     \* processing: the votes counted so far
    forgotten,      \* the tids whose entry in processing lost its transaction
    client_up,      \* the client process is alive
    outcome,        \* history: what the coordinator decided
    acked           \* history: the tids that some leader acknowledged

clientVars == <<set_no, to_inform, to_send, processing, forgotten, client_up,
                outcome, acked>>

Votes   == [successes : Nat, failures : Nat]
NoVotes == [successes |-> 0, failures |-> 0]

ClientTypeOK ==
    /\ set_no \in 0 .. Len(Sets)
    /\ to_inform \subseteq Server
    /\ to_send \subseteq Tid
    /\ to_send # {} => set_no # 0 /\ to_send \subseteq Sets[set_no].transactions
    /\ forgotten \subseteq Tid
    /\ client_up \in BOOLEAN
    /\ processing \in [Tid \cup {NoTid} -> Votes]
    /\ outcome \in [Tid -> {"none", "commit", "abort"}]
    /\ acked \subseteq Server \X Tid

ClientInit ==
    /\ set_no = 0
    /\ to_inform = {}
    /\ to_send = {}
    /\ forgotten = {}
    /\ client_up = TRUE
    /\ processing = [t \in Tid \cup {NoTid} |-> NoVotes]
    /\ outcome = [t \in Tid |-> "none"]
    /\ acked = {}

\* mainloop, PROCESS_NEXT_SET: the next set is read.
processNextSet ==
    /\ client_up
    /\ to_inform = {} /\ to_send = {}
    /\ set_no < Len(Sets)
    /\ set_no' = set_no + 1
    /\ to_inform' = Server
    /\ to_send' = Sets[set_no + 1].transactions
    /\ UNCHANGED <<rpcVars, processing, forgotten, client_up, outcome, acked>>

\* One call of the loop of updateDisconnected.  It is synchronous, and stubs
\* is walked in the order of the names.
updateDisconnected(s) ==
    /\ client_up
    /\ s \in to_inform
    /\ \A t \in to_inform : s =< t
    /\ to_inform' = to_inform \ {s}
    /\ UNCHANGED <<rpcVars, set_no, to_send, processing, forgotten, client_up,
                   outcome, acked>>

\* One turn of the loop of processTransactions: sendTransfer to the leader of
\* the cluster, or tpcPrepare to both leaders.  The tid is a clock reading, so
\* the transactions go out in the order of their tids.
sendTransaction(t) ==
    /\ client_up
    /\ to_inform = {}
    /\ t \in to_send
    /\ \A u \in to_send : t =< u
    /\ to_send' = to_send \ {t}
    /\ inCalls' = inCalls \cup {<<Sets[set_no].leaders[SenderCluster(t)], t>>,
                                <<Sets[set_no].leaders[ReceiverCluster(t)], t>>}
    /\ UNCHANGED <<replies, decisions, set_no, to_inform, processing, client_up,
                   outcome, acked>>

\* The consumer thread is about to look up an entry of processing.
ConsumerBusy == \E r \in replies : cross_shard(r.tid)

\* The main thread inserts the entry of t.  A std::map that two threads change
\* at once may lose the new entry; operator[] then makes a zeroed one.
processTransactions(t) ==
    /\ sendTransaction(t)
    /\ \/ UNCHANGED forgotten
       \/ /\ "race" \in ClientFaults
          /\ cross_shard(t) /\ ConsumerBusy
          /\ forgotten' = forgotten \cup {t}

\* The calls of tpcCommit and tpcAbort.  For a tid the client never issued, or
\* has lost, the transaction is all zeroes and no server is in cluster 0.
DecisionCalls(tid, isCommit) ==
    {[tid |-> tid, to |-> s, is_commit |-> isCommit] :
        s \in {x \in Server : /\ tid \notin forgotten \cup {NoTid}
                              /\ getClusterIdFromServerId(x) \in
                                    {SenderCluster(tid), ReceiverCluster(tid)}}}

\* Mutants: one yes is enough; two noes are needed.
mustCommit_OneYes(votes) == votes.successes >= 1
mustAbort_TwoNoes(votes) == votes.failures = 2

mustCommit(votes) == votes.successes = 2
mustAbort(votes)  == votes.failures > 0 /\ votes.successes + votes.failures = 2

\* consumeReplies for a TPC_PREPARE call.  A call that failed left the reply
\* unset, so its vote is counted for tid 0.
consumePrepareReply(r) ==
    LET tid    == IF r.ok THEN r.tid ELSE NoTid
        vote   == r.ok /\ r.ack
        votes  == [processing[tid] EXCEPT
                     !.successes = IF vote THEN @ + 1 ELSE @,
                     !.failures = IF vote THEN @ ELSE @ + 1]
        commit == mustCommit(votes)
        abort  == mustAbort(votes)
    IN
    /\ client_up
    /\ r \in replies
    /\ cross_shard(r.tid)
    /\ replies' = replies \ {r}
    /\ acked' = IF vote THEN acked \cup {<<r.from, r.tid>>} ELSE acked
    /\ processing' = [processing EXCEPT ![tid] =
                        IF commit \/ abort THEN NoVotes ELSE votes]
    /\ decisions' = decisions \cup
                      (IF commit \/ abort THEN DecisionCalls(tid, commit) ELSE {})
    /\ outcome' = IF (commit \/ abort) /\ tid # NoTid
                  THEN [outcome EXCEPT ![tid] = IF commit THEN "commit" ELSE "abort"]
                  ELSE outcome
    /\ UNCHANGED <<inCalls, set_no, to_inform, to_send, forgotten, client_up>>

\* consumeReplies for a TRANSFER call: it only counts the transaction.
consumeTransferReply(r) ==
    /\ client_up
    /\ r \in replies
    /\ ~cross_shard(r.tid)
    /\ replies' = replies \ {r}
    /\ acked' = IF r.ok /\ r.ack THEN acked \cup {<<r.from, r.tid>>} ELSE acked
    /\ UNCHANGED <<inCalls, decisions, set_no, to_inform, to_send, processing,
                   forgotten, client_up, outcome>>

\* The process dies.  A server goes on with a call it has taken up, since the
\* alarm of its InCall does not look at the caller; a call that is lost with
\* the client is one that no server ever takes up, and no one reads replies.
clientCrash ==
    /\ "crash" \in ClientFaults
    /\ client_up
    /\ client_up' = FALSE
    /\ UNCHANGED <<rpcVars, set_no, to_inform, to_send, processing, forgotten,
                   outcome, acked>>

consumeReplies == \E r \in replies : consumePrepareReply(r) \/ consumeTransferReply(r)

=============================================================================
