------------------------ MODULE TpcRefinementProofs -------------------------
(***************************************************************************)
(* The client and the servers together implement atomic commitment, for    *)
(* any number of clusters, servers, clients and transactions: the outcome  *)
(* of a cross-shard transaction is commit exactly when a leader of each of *)
(* its two clusters voted yes.                                             *)
(***************************************************************************)
EXTENDS TpcRefinement, TpcSystemProofs

-----------------------------------------------------------------------------
(* Who votes: the inductive invariant *)

ClusterOf(s) == getClusterIdFromServerId(s)

TouchedClusters(tid) == {SenderCluster(tid), ReceiverCluster(tid)}

\* Server s voted yes for tid, or may still do so.
MayBeYes(s, tid) == Outstanding(s, tid) \/ <<s, tid>> \in acked

\* Only the two clusters of an issued transaction vote, each by one server.
OneVoterPerCluster ==
    \A tid \in CrossTid : \A s \in Server : MayBeYes(s, tid) =>
        /\ ClusterOf(s) \in TouchedClusters(tid)
        /\ tid \in Issued
        /\ \A t \in Server : MayBeYes(t, tid) /\ ClusterOf(t) = ClusterOf(s) => t = s

\* A yes vote that was counted is not outstanding any more.
CountedOnce ==
    \A tid \in CrossTid : \A s \in Server : <<s, tid>> \in acked => ~Outstanding(s, tid)

\* The client's counters stand for votes of servers: a success for one that said
\* yes, a failure for a cluster that will never say yes.
CountersTell ==
    \A tid \in CrossTid :
        /\ processing[tid].successes # 0 => \E s \in Server : <<s, tid>> \in acked
        /\ processing[tid].failures # 0 =>
              \E c \in TouchedClusters(tid) :
                  \A s \in Server : ClusterOf(s) = c => ~MayBeYes(s, tid)

VoteInv == OneVoterPerCluster /\ CountedOnce /\ CountersTell

-----------------------------------------------------------------------------
(* The client's half of the steps *)

\* A cross-shard transaction is a transaction, with two different clusters.
LEMMA CrossIsTid ==
    ASSUME NEW tid \in CrossTid
    PROVE  tid \in Tid /\ cross_shard(tid) /\ tid # NoTid
  BY TxnAssumption DEF CrossTid, NoTid

\* A step that counts no vote for a cross-shard transaction and issues none.
LEMMA VotesKept ==
    ASSUME VoteInv,
           \A s \in Server, tid \in CrossTid : Outstanding(s, tid)' => Outstanding(s, tid),
           \A s \in Server, tid \in CrossTid : <<s, tid>> \in acked' <=> <<s, tid>> \in acked,
           processing' = processing, Issued \subseteq Issued'
    PROVE  VoteInv'
<1>1. \A s \in Server, tid \in CrossTid : MayBeYes(s, tid)' => MayBeYes(s, tid)
  BY DEF MayBeYes
<1>2. OneVoterPerCluster'
  BY <1>1 DEF VoteInv, OneVoterPerCluster
<1>3. CountedOnce'
  BY DEF VoteInv, CountedOnce
<1>4. CountersTell'
  BY <1>1 DEF VoteInv, CountersTell
<1> QED
  BY <1>2, <1>3, <1>4 DEF VoteInv

\* A transaction that is issued has no votes yet, and its two calls go to two
\* servers of its two clusters.
LEMMA IssueTransactionVotes ==
    ASSUME AtomicityInv, VoteInv, NEW x \in to_send, IssueTransaction(x)
    PROVE  VoteInv'
<1> DEFINE l == Sets[set_no].leaders[SenderCluster(x)]
           m == Sets[set_no].leaders[ReceiverCluster(x)]
<1>0. ClientSide
  BY TwoHalves
<1>1. /\ replies' = replies /\ processing' = processing /\ acked' = acked
      /\ set_no' = set_no /\ to_send' = to_send \ {x}
      /\ inCalls' = inCalls \cup {<<l, x>>, <<m, x>>}
  BY DEF IssueTransaction, processTransactions, sendTransaction
<1>2. /\ set_no \in DOMAIN Sets /\ set_no \in 1 .. Len(Sets) /\ Len(Sets) \in Nat
      /\ x \in Tid /\ x \in Sets[set_no].transactions
  BY <1>0, SetsAssumption DEF ClientSide, ClientTypeOK
<1>3. ClusterOf(l) = SenderCluster(x) /\ ClusterOf(m) = ReceiverCluster(x)
  <2>1. Txn[x].sender \in ClientId /\ Txn[x].receiver \in ClientId
    BY <1>2, TxnAssumption DEF Transaction
  <2>2. SenderCluster(x) \in 1 .. NumClusters /\ ReceiverCluster(x) \in 1 .. NumClusters
    BY <2>1, ClusterOfClient DEF SenderCluster, ReceiverCluster
  <2> QED
    BY <1>2, <2>2, SetsAssumption DEF ClusterOf
<1>4. x \notin Issued /\ x \in Issued' /\ Issued \subseteq Issued'
  BY <1>1, <1>2 DEF Issued
<1>5. \A s \in Server, tid \in CrossTid :
         Outstanding(s, tid)' <=> Outstanding(s, tid) \/ (tid = x /\ s \in {l, m})
  BY <1>1 DEF Outstanding
<1>6. \A s \in Server, tid \in CrossTid :
         MayBeYes(s, tid)' <=> MayBeYes(s, tid) \/ (tid = x /\ s \in {l, m})
  BY <1>1, <1>5 DEF MayBeYes
<1>7. \A s \in Server : x \in CrossTid => ~MayBeYes(s, x)
  BY <1>4 DEF VoteInv, OneVoterPerCluster
<1>8. x \in CrossTid => VotesCounted(x) = 0 /\ processing[x] \in Votes
  BY <1>0, <1>2, <1>4 DEF ClientSide, VotesConserved, ClientTypeOK
<1>9. x \in CrossTid => processing[x].successes = 0 /\ processing[x].failures = 0
  BY <1>8 DEF VotesCounted, Votes
<1>10. OneVoterPerCluster'
  <2> SUFFICES ASSUME NEW tid \in CrossTid, NEW s \in Server, MayBeYes(s, tid)'
               PROVE  /\ ClusterOf(s) \in TouchedClusters(tid)
                      /\ tid \in Issued'
                      /\ \A t \in Server :
                            MayBeYes(t, tid)' /\ ClusterOf(t) = ClusterOf(s) => t = s
    BY DEF OneVoterPerCluster
  <2>1. CASE tid = x
    <3>1. s \in {l, m} /\ \A t \in Server : MayBeYes(t, tid)' => t \in {l, m}
      BY <1>6, <1>7, <2>1
    <3>2. SenderCluster(x) # ReceiverCluster(x)
      BY <2>1, CrossIsTid DEF cross_shard
    <3> HIDE DEF l, m
    <3> QED
      BY <1>3, <1>4, <2>1, <3>1, <3>2 DEF TouchedClusters
  <2>2. CASE tid # x
    BY <1>4, <1>6, <2>2 DEF VoteInv, OneVoterPerCluster
  <2> QED
    BY <2>1, <2>2
<1>11. CountedOnce'
  <2> SUFFICES ASSUME NEW tid \in CrossTid, NEW s \in Server, <<s, tid>> \in acked
               PROVE  ~Outstanding(s, tid)'
    BY <1>1 DEF CountedOnce
  <2>1. tid # x
    BY <1>7 DEF MayBeYes
  <2> QED
    BY <1>5, <2>1 DEF VoteInv, CountedOnce
<1>12. CountersTell'
  <2> SUFFICES ASSUME NEW tid \in CrossTid
               PROVE  /\ processing[tid].successes # 0 => \E s \in Server : <<s, tid>> \in acked
                      /\ processing[tid].failures # 0 =>
                            \E c \in TouchedClusters(tid) :
                                \A s \in Server : ClusterOf(s) = c => ~MayBeYes(s, tid)'
    BY <1>1 DEF CountersTell
  <2>1. CASE tid = x
    BY <1>9, <2>1
  <2>2. CASE tid # x
    BY <1>6, <2>2 DEF VoteInv, CountersTell
  <2> QED
    BY <2>1, <2>2
<1> QED
  BY <1>10, <1>11, <1>12 DEF VoteInv

\* What consumeReplies does with the answer of a TpcPrepare: a call that failed
\* is counted for no transaction, any other for its own.
LEMMA PrepareReplyVotes ==
    ASSUME AtomicityInv, VoteInv, NEW r \in replies, consumePrepareReply(r)
    PROVE  VoteInv'
<1>0. ClientSide
  BY TwoHalves
<1> DEFINE tid  == IF r.ok THEN r.tid ELSE NoTid
           vote == r.ok /\ r.ack
           votes == [processing[tid] EXCEPT
                       !.successes = IF vote THEN @ + 1 ELSE @,
                       !.failures = IF vote THEN @ ELSE @ + 1]
           x == r.tid
           v == r.from
<1>1. /\ inCalls' = inCalls /\ replies' = replies \ {r}
      /\ set_no' = set_no /\ to_send' = to_send
      /\ acked' = IF vote THEN acked \cup {<<v, x>>} ELSE acked
      /\ processing' \in {[processing EXCEPT ![tid] = votes], [processing EXCEPT ![tid] = NoVotes]}
  BY DEF consumePrepareReply
<1>2. /\ v \in Server /\ x \in Tid /\ x \in CrossTid /\ NoTid \notin CrossTid
      /\ r.ok \in BOOLEAN /\ r.ack \in BOOLEAN
  BY <1>0, TxnAssumption DEF ClientSide, RpcTypeOK, Reply, NoTid, consumePrepareReply, CrossTid
<1>3. processing \in [Tid \cup {NoTid} -> Votes]
  BY <1>0 DEF ClientSide, ClientTypeOK
<1>4. Issued' = Issued
  BY <1>1 DEF Issued
<1>5. \A s \in Server, t \in CrossTid : Outstanding(s, t)' => Outstanding(s, t)
  BY <1>1 DEF Outstanding
<1>6. Outstanding(v, x) /\ ~Outstanding(v, x)' /\ <<v, x>> \notin acked
  <2>1. Outstanding(v, x)
    BY DEF Outstanding
  <2>2. ~Outstanding(v, x)'
    BY <1>0, <1>1 DEF Outstanding, ClientSide, VotesConserved
  <2>3. <<v, x>> \notin acked
    BY <1>2, <2>1 DEF VoteInv, CountedOnce
  <2> QED
    BY <2>1, <2>2, <2>3
<1>7. \A s \in Server, t \in CrossTid :
         <<s, t>> \in acked' <=> <<s, t>> \in acked \/ (vote /\ s = v /\ t = x)
  BY <1>1
<1> HIDE DEF x, v
<1>8. \A s \in Server, t \in CrossTid : MayBeYes(s, t)' => MayBeYes(s, t)
  BY <1>5, <1>6, <1>7 DEF MayBeYes
<1>9. OneVoterPerCluster'
  BY <1>4, <1>8 DEF VoteInv, OneVoterPerCluster
<1>10. CountedOnce'
  BY <1>5, <1>6, <1>7 DEF VoteInv, CountedOnce
<1>11. \A t \in CrossTid : t # tid => processing'[t] = processing[t]
  BY <1>1, <1>3, CrossIsTid
<1>12. ASSUME r.ok
       PROVE  /\ processing'[x].successes # 0 =>
                    \/ processing[x].successes # 0
                    \/ vote
              /\ processing'[x].failures # 0 =>
                    \/ processing[x].failures # 0
                    \/ ~vote
  <2> DEFINE p == processing[x]
  <2>1. tid = x /\ p \in Votes /\ x \in DOMAIN processing
    BY <1>2, <1>3, <1>12 DEF x
  <2>2. processing'[x] \in {[p EXCEPT !.successes = IF vote THEN @ + 1 ELSE @,
                                      !.failures = IF vote THEN @ ELSE @ + 1], NoVotes}
    BY <1>1, <2>1
  <2>3. vote \in BOOLEAN
    BY <1>2
  <2>4. p = [successes |-> p.successes, failures |-> p.failures]
        /\ p.successes \in Nat /\ p.failures \in Nat
    BY <2>1 DEF Votes
  <2> HIDE DEF p, tid, vote
  <2>5. \/ processing'[x] = [successes |-> p.successes + 1, failures |-> p.failures] /\ vote
        \/ processing'[x] = [successes |-> p.successes, failures |-> p.failures + 1] /\ ~vote
        \/ processing'[x] = [successes |-> 0, failures |-> 0]
    BY <2>2, <2>3, <2>4 DEF NoVotes
  <2>6. /\ processing'[x].successes # 0 => p.successes # 0 \/ vote
        /\ processing'[x].failures # 0 => p.failures # 0 \/ ~vote
    BY <2>4, <2>5
  <2> QED
    BY <2>6 DEF p
<1>13. CountersTell'
  <2> SUFFICES ASSUME NEW t \in CrossTid
               PROVE  /\ processing'[t].successes # 0 => \E s \in Server : <<s, t>> \in acked'
                      /\ processing'[t].failures # 0 =>
                            \E c \in TouchedClusters(t) :
                                \A s \in Server : ClusterOf(s) = c => ~MayBeYes(s, t)'
    BY DEF CountersTell
  <2>1. /\ processing[t].successes # 0 => \E s \in Server : <<s, t>> \in acked'
        /\ processing[t].failures # 0 =>
              \E c \in TouchedClusters(t) :
                  \A s \in Server : ClusterOf(s) = c => ~MayBeYes(s, t)'
    BY <1>7, <1>8 DEF VoteInv, CountersTell
  <2>2. CASE t # tid
    BY <1>11, <2>1, <2>2
  <2>3. CASE t = tid
    <3>1. r.ok /\ t = x
      BY <1>2, <2>3 DEF x
    <3>2. vote => <<v, x>> \in acked'
      BY <1>2, <1>7
    <3>3. ASSUME ~vote
          PROVE  \E c \in TouchedClusters(x) :
                     \A s \in Server : ClusterOf(s) = c => ~MayBeYes(s, x)'
      <4>1. ClusterOf(v) \in TouchedClusters(x)
        BY <1>2, <1>6 DEF VoteInv, OneVoterPerCluster, MayBeYes
      <4>2. ASSUME NEW s \in Server, ClusterOf(s) = ClusterOf(v), MayBeYes(s, x)'
            PROVE  FALSE
        <5>1. MayBeYes(s, x) /\ MayBeYes(v, x)
          BY <1>2, <1>6, <1>8, <4>2 DEF MayBeYes
        <5>2. s = v
          BY <1>2, <4>2, <5>1 DEF VoteInv, OneVoterPerCluster
        <5> QED
          BY <1>2, <1>6, <1>7, <3>3, <4>2, <5>2 DEF MayBeYes
      <4> QED
        BY <4>1, <4>2
    <3> QED
      BY <1>2, <1>12, <2>1, <3>1, <3>2, <3>3
  <2> QED
    BY <2>2, <2>3
<1> QED
  BY <1>9, <1>10, <1>13 DEF VoteInv

-----------------------------------------------------------------------------
(* The servers' half: what a step of a server means to the client *)

\* The log of one server grows; nothing is ever taken out of a log.
OneLogGrows ==
    \E s \in Server :
        /\ \A t \in Server \ {s} : log'[t] = log[t]
        /\ \A i \in DOMAIN log[s] : i \in DOMAIN log'[s] /\ log'[s][i] = log[s][i]

\* A Transfer or TpcPrepare call ends, with a yes only when no log changes.
OneCallEnds ==
    \E s \in Server, tid \in Tid, ok \in BOOLEAN, ack \in BOOLEAN :
        /\ <<s, tid>> \in inCalls
        /\ inCalls' = inCalls \ {<<s, tid>>}
        /\ replies' = replies \cup {[from |-> s, tid |-> tid, ok |-> ok, ack |-> ack]}
        /\ ok /\ ack /\ cross_shard(tid) => log' = log

ClientSees ==
    /\ UNCHANGED clientVars
    /\ OneLogGrows
    /\ UNCHANGED <<inCalls, replies>> \/ OneCallEnds

\* Nothing, one entry, or the entries of a Sync reply are added to a log.
LEMMA LogGrows ==
    ASSUME AtomicityInv, NEW s \in Server,
           \/ log' = log
           \/ \E e \in WALEntry : log' = [log EXCEPT ![s] = Append(@, e)]
           \/ \E q \in Seq(WALEntry) : log' = [log EXCEPT ![s] = @ \o q]
    PROVE  OneLogGrows
<1>1. log \in [Server -> Seq(WALEntry)]
  BY DEF AtomicityInv, TypeOK, ServerTypeOK
<1>2. CASE log' = log
  BY <1>2 DEF OneLogGrows
<1>3. ASSUME NEW e \in WALEntry, log' = [log EXCEPT ![s] = Append(@, e)]
      PROVE  OneLogGrows
  <2>1. log'[s] = Append(log[s], e) /\ \A t \in Server \ {s} : log'[t] = log[t]
    BY <1>1, <1>3
  <2>2. \A i \in DOMAIN log[s] : i \in DOMAIN log'[s] /\ log'[s][i] = log[s][i]
    BY <1>1, <2>1, AppendProperties
  <2> QED
    BY <2>1, <2>2 DEF OneLogGrows
<1>4. ASSUME NEW q \in Seq(WALEntry), log' = [log EXCEPT ![s] = @ \o q]
      PROVE  OneLogGrows
  <2>1. log'[s] = log[s] \o q /\ \A t \in Server \ {s} : log'[t] = log[t]
    BY <1>1, <1>4
  <2>2. \A i \in DOMAIN log[s] : i \in DOMAIN log'[s] /\ log'[s][i] = log[s][i]
    BY <1>1, <2>1, ConcatProperties
  <2> QED
    BY <2>1, <2>2 DEF OneLogGrows
<1> QED
  BY <1>2, <1>3, <1>4

\* Finish ends a call.
LEMMA FinishEnds ==
    ASSUME NEW s \in Server, NEW tid \in Tid, NEW ack \in BOOLEAN,
           <<s, tid>> \in inCalls, Finish(s, tid, ack),
           ack /\ cross_shard(tid) => log' = log
    PROVE  OneCallEnds
<1>1. TRUE \in BOOLEAN
  OBVIOUS
<1> QED
  BY <1>1, Zenon DEF Finish, OneCallEnds

\* runPaxos: the proposer logs the transaction before it asks the others, and
\* answers yes to a TpcPrepare without a change of the log.
LEMMA RunPaxosSeen ==
    ASSUME AtomicityInv, NEW s \in Server, NEW tid \in Tid, runPaxos(s, tid),
           UNCHANGED clientVars
    PROVE  ClientSees
<1>1. CASE startRound(s, tid)
  <2>1. UNCHANGED <<inCalls, replies, log>>
    BY <1>1 DEF startRound, rpcVars, storeVars
  <2> QED
    BY <2>1, LogGrows DEF ClientSees
<1>2. CASE rejectTransaction(s, tid) \/ prepareFailed(s, tid) \/ acceptFailed(s, tid)
  <2>1. log' = log /\ Finish(s, tid, FALSE) /\ <<s, tid>> \in inCalls
    BY <1>2 DEF rejectTransaction, prepareFailed, acceptFailed, PrepareDecided, MayRun, storeVars
  <2> QED
    BY <2>1, FinishEnds, LogGrows DEF ClientSees
<1>3. CASE proposeTransaction(s, tid)
  <2> DEFINE b == acceptor[s].promised_num
  <2>1. UNCHANGED <<inCalls, replies>>
    BY <1>3 DEF proposeTransaction, rpcVars
  <2>2. log' = log \/ log' = [log EXCEPT ![s] = Append(@, Entry(tid, b, "PREPARED"))]
    BY <1>3 DEF proposeTransaction, storeVars, prepareTransaction
  <2>3. Entry(tid, b, "PREPARED") \in WALEntry
    BY DEF AtomicityInv, TypeOK, ServerTypeOK, Acceptor, Entry, WALEntry, Status
  <2> QED
    BY <2>1, <2>2, <2>3, LogGrows DEF ClientSees
<1>4. CASE chooseTransaction(s, tid)
  <2> DEFINE b == acceptor[s].accept_num
  <2>1. Finish(s, tid, TRUE) /\ <<s, tid>> \in inCalls
    BY <1>4 DEF chooseTransaction, AcceptDecided, MayRun
  <2>2. \/ cross_shard(tid) /\ log' = log
        \/ ~cross_shard(tid) /\ log' = [log EXCEPT ![s] = Append(@, Entry(tid, b, "COMMITTED"))]
    BY <1>4 DEF chooseTransaction, storeVars, commitTransaction
  <2>3. Entry(tid, b, "COMMITTED") \in WALEntry
    BY DEF AtomicityInv, TypeOK, ServerTypeOK, Acceptor, Entry, WALEntry, Status
  <2>4. OneLogGrows
    BY <2>2, <2>3, LogGrows
  <2> QED
    BY <2>1, <2>2, <2>4, FinishEnds DEF ClientSees
<1> QED
  BY <1>1, <1>2, <1>3, <1>4 DEF runPaxos

\* The calls of a peer: Accept prepares, Commit commits.
LEMMA PeerCallSeen ==
    ASSUME AtomicityInv, NEW s \in Server, NEW t \in Server, NEW i \in DOMAIN chan[s][t],
           \/ processPrepareCall(s, t, i) \/ processAcceptCall(s, t, i)
           \/ processCommitCall(s, t, i) \/ processSyncCall(s, t, i),
           UNCHANGED clientVars
    PROVE  ClientSees
<1> DEFINE q == chan[s][t]
<1>1. q[i] \in SoundCall /\ acceptor \in [Server -> Acceptor]
  BY ServerParts, ArrivingCall
<1>2. CASE processPrepareCall(s, t, i) \/ processSyncCall(s, t, i)
  <2>1. UNCHANGED <<inCalls, replies, log>>
    BY <1>2 DEF processPrepareCall, processSyncCall, rpcVars, storeVars
  <2> QED
    BY <2>1, LogGrows DEF ClientSees
<1>3. CASE processAcceptCall(s, t, i)
  <2> DEFINE e == Entry(q[i].req.r, q[i].req.ballot, "PREPARED")
  <2>1. UNCHANGED <<inCalls, replies>>
    BY <1>3 DEF processAcceptCall, rpcVars
  <2>2. log' = log \/ log' = [log EXCEPT ![t] = Append(@, e)]
    BY <1>3 DEF processAcceptCall, storeVars, prepareTransaction
  <2>3. e \in WALEntry
    <3>1. q[i].type = "ACCEPT"
      BY <1>3 DEF processAcceptCall, Arrives
    <3> QED
      BY <1>1, <3>1 DEF SoundCall, OutCall, Request, Entry, WALEntry, Status
  <2> QED
    BY <2>1, <2>2, <2>3, LogGrows DEF ClientSees
<1>4. CASE processCommitCall(s, t, i)
  <2> DEFINE a == acceptor[t]
             e == Entry(a.accept_val, a.accept_num, "COMMITTED")
             n == q[i].req.ballot.num
  <2>1. UNCHANGED <<inCalls, replies>>
    BY <1>4 DEF processCommitCall, rpcVars
  <2>2. \/ log' = log
        \/ log' = [log EXCEPT ![t] = Append(@, e)] /\ a.accept_num.num = n
    BY <1>4 DEF processCommitCall, storeVars, commitTransaction
  <2>3. n # 0
    <3>1. q[i].type = "COMMIT"
      BY <1>4 DEF processCommitCall, Arrives
    <3> QED
      BY <1>1, <3>1 DEF SoundCall
  <2>4. a.accept_num.num # 0 => a.accept_val \in Tid
    BY DEF AtomicityInv, RoundsStarted
  <2>5. a.accept_num \in Ballot
    BY <1>1 DEF Acceptor
  <2> HIDE DEF a, n
  <2>6. a.accept_num.num = n => e \in WALEntry
    BY <2>3, <2>4, <2>5 DEF Entry, WALEntry, Status
  <2> QED
    BY <2>1, <2>2, <2>6, LogGrows DEF ClientSees
<1> QED
  BY <1>2, <1>3, <1>4

\* The end of a call to a peer: a Sync reply adds entries.
LEMMA OutCallSeen ==
    ASSUME AtomicityInv, NEW s \in Server, NEW t \in Server, NEW i \in DOMAIN chan[s][t],
           ReplyArrives(s, t, i) \/ Unavailable(s, t, i) \/ Expire(s, t, i),
           UNCHANGED clientVars
    PROVE  ClientSees
<1> DEFINE c == chan[s][t][i]
<1>1. c \in SoundCall
  BY ServerParts, ArrivingCall
<1>2. PICK status, rest : HandleRPCResponse(s, t, i, status, rest)
  BY DEF ReplyArrives, Unavailable, Expire
<1>3. UNCHANGED <<inCalls, replies>>
  BY <1>2 DEF HandleRPCResponse, rpcVars
<1>4. log' = log \/ log' = [log EXCEPT ![s] = @ \o c.res.logs]
  <2>1. CASE handlePrepareReply(s, t, c, status, rest)
    BY <2>1 DEF handlePrepareReply, storeVars
  <2>2. CASE handleAcceptReply(s, t, c, status, rest)
    BY <2>2 DEF handleAcceptReply, storeVars
  <2>3. CASE handleSyncReply(s, t, c, status, rest)
    BY <2>3 DEF handleSyncReply, storeVars
  <2>4. CASE UNCHANGED storeVars
    BY <2>4 DEF storeVars
  <2> QED
    BY <1>2, <2>1, <2>2, <2>3, <2>4 DEF HandleRPCResponse
<1>5. c.res.logs \in Seq(WALEntry)
  BY <1>1 DEF SoundCall, OutCall, Response
<1> QED
  BY <1>3, <1>4, <1>5, LogGrows DEF ClientSees

\* TpcCommit and TpcAbort record the outcome of a transaction that is prepared.
LEMMA DecisionSeen ==
    ASSUME AtomicityInv, NEW d \in decisions, processTpcDecision(d), UNCHANGED clientVars
    PROVE  ClientSees
<1>1. d.to \in Server /\ prepared[d.to] \subseteq WALEntry
  BY DEF AtomicityInv, TypeOK, RpcTypeOK, Decision, ServerTypeOK
<1>2. UNCHANGED <<inCalls, replies>>
  BY DEF processTpcDecision
<1>3. log' = log \/ \E e \in WALEntry : log' = [log EXCEPT ![d.to] = Append(@, e)]
  <2>1. ASSUME NEW e \in prepared[d.to]
        PROVE  [e EXCEPT !.status = IF d.is_commit THEN "COMMITTED" ELSE "ABORTED"] \in WALEntry
    BY <1>1 DEF WALEntry, Status
  <2> QED
    BY <2>1 DEF processTpcDecision
<1> QED
  BY <1>1, <1>2, <1>3, LogGrows DEF ClientSees

\* Every step of a server is one of those the client may see.
LEMMA ServerSeen ==
    ASSUME AtomicityInv, NEW s \in Server,
           HandleRPCs(s) \/ CallExpires(s) \/ CallRefused(s) \/ ServerCrashes(s)
    PROVE  ClientSees
<1>0. UNCHANGED clientVars /\ stubs(s) \subseteq Server
  BY StubsAreServers DEF HandleRPCs, CallExpires, CallRefused, ServerCrashes
<1>1. CASE HandleRPCs(s)
  <2>1. ASSUME NEW tid \in Tid, runPaxos(s, tid) PROVE ClientSees
    BY <1>0, <2>1, RunPaxosSeen
  <2>2. ASSUME NEW t \in stubs(s), NEW i \in DOMAIN chan[t][s],
               \/ processPrepareCall(t, s, i)
               \/ processAcceptCall(t, s, i)
               \/ processCommitCall(t, s, i)
               \/ processSyncCall(t, s, i)
        PROVE  ClientSees
    BY <1>0, <2>2, PeerCallSeen
  <2>3. ASSUME NEW d \in decisions, processTpcDecision(d) PROVE ClientSees
    BY <1>0, <2>3, DecisionSeen
  <2>4. ASSUME NEW t \in stubs(s), NEW i \in DOMAIN chan[s][t],
               ReplyArrives(s, t, i) \/ Unavailable(s, t, i)
        PROVE  ClientSees
    BY <1>0, <2>4, OutCallSeen
  <2> QED
    BY <1>1, <2>1, <2>2, <2>3, <2>4 DEF HandleRPCs
<1>2. CASE CallExpires(s)
  BY <1>0, <1>2, OutCallSeen DEF CallExpires
<1>3. CASE CallRefused(s)
  <2>1. PICK tid \in Tid : CallFails(s, tid)
    BY <1>3 DEF CallRefused
  <2>2. log' = log
    BY <2>1 DEF CallFails, serverVars, storeVars
  <2>3. OneCallEnds
    <3>1. FALSE \in BOOLEAN
      OBVIOUS
    <3> QED
      BY <2>1, <3>1, Zenon DEF CallFails, OneCallEnds
  <2> QED
    BY <1>0, <2>2, <2>3, LogGrows DEF ClientSees
<1>4. CASE ServerCrashes(s)
  <2>1. UNCHANGED <<inCalls, replies, log>>
    BY <1>4 DEF ServerCrashes, Crash, rpcVars, storeVars
  <2> QED
    BY <1>0, <2>1, LogGrows DEF ClientSees
<1> QED
  BY <1>1, <1>2, <1>3, <1>4

\* A server counts no vote.
LEMMA ServerVotes ==
    ASSUME AtomicityInv, VoteInv, ClientSees
    PROVE  VoteInv'
<1>1. acked' = acked /\ processing' = processing /\ Issued' = Issued
  BY DEF ClientSees, clientVars, Issued
<1>2. \A s \in Server, tid \in CrossTid : Outstanding(s, tid)' => Outstanding(s, tid)
  <2>1. CASE UNCHANGED <<inCalls, replies>>
    BY <2>1 DEF Outstanding
  <2>2. CASE OneCallEnds
    BY <2>2 DEF OneCallEnds, Outstanding
  <2> QED
    BY <2>1, <2>2 DEF ClientSees
<1> QED
  BY <1>1, <1>2, VotesKept

\* No vote was cast before the first transaction.
LEMMA InitVotes == Init => VoteInv
  BY CrossIsTid DEF Init, RpcInit, ClientInit, NoVotes, VoteInv, OneVoterPerCluster, CountedOnce,
                    CountersTell, MayBeYes, Outstanding

\* Every step of the system keeps account of the votes.
LEMMA NextVotes == AtomicityInv /\ VoteInv /\ [Next]_vars => VoteInv'
<1> SUFFICES ASSUME AtomicityInv, VoteInv, [Next]_vars PROVE VoteInv'
  OBVIOUS
<1>1. CASE NextSet \/ CoordinatorCrashes \/ UNCHANGED vars \/ \E s \in Server : DisconnectCall(s)
  <2>1. UNCHANGED <<inCalls, replies, processing, acked>>
    BY <1>1 DEF NextSet, processNextSet, CoordinatorCrashes, clientCrash, DisconnectCall,
                updateDisconnected, vars, rpcVars, clientVars
  <2>2. Issued \subseteq Issued'
    <3>1. CASE NextSet
      <4>1. /\ set_no' = set_no + 1 /\ set_no < Len(Sets)
            /\ to_send' = Sets[set_no + 1].transactions
        BY <3>1 DEF NextSet, processNextSet
      <4>2. set_no \in Nat /\ Len(Sets) \in Nat
        BY SetsAssumption DEF AtomicityInv, TypeOK, ClientTypeOK
      <4>3. \A i \in 1 .. set_no :
               /\ i \in DOMAIN Sets /\ set_no + 1 \in DOMAIN Sets /\ i # set_no + 1
               /\ i \in 1 .. (set_no + 1)
        BY <4>1, <4>2, SetsAssumption
      <4>4. \A i \in 1 .. set_no : Sets[i].transactions \cap to_send' = {}
        BY <4>1, <4>3, SetsAssumption
      <4> QED
        BY <4>1, <4>3, <4>4 DEF Issued
    <3>2. CASE CoordinatorCrashes \/ UNCHANGED vars \/ \E s \in Server : DisconnectCall(s)
      BY <3>2 DEF CoordinatorCrashes, clientCrash, DisconnectCall, updateDisconnected, vars,
                  clientVars, Issued
    <3> QED
      BY <1>1, <3>1, <3>2
  <2> QED
    BY <2>1, <2>2, VotesKept DEF Outstanding
<1>2. ASSUME NEW t \in to_send, IssueTransaction(t) PROVE VoteInv'
  BY <1>2, IssueTransactionVotes
<1>3. CASE ConsumerThread
  <2>1. ASSUME NEW r \in replies, consumePrepareReply(r) PROVE VoteInv'
    BY <2>1, PrepareReplyVotes
  <2>2. ASSUME NEW r \in replies, consumeTransferReply(r) PROVE VoteInv'
    <3>1. /\ inCalls' = inCalls /\ replies' = replies \ {r} /\ processing' = processing
          /\ set_no' = set_no /\ to_send' = to_send /\ r.tid \notin CrossTid
          /\ acked' \in {acked, acked \cup {<<r.from, r.tid>>}}
      BY <2>2 DEF consumeTransferReply, CrossTid
    <3>2. \A s \in Server, tid \in CrossTid : <<s, tid>> \in acked' <=> <<s, tid>> \in acked
      BY <3>1
    <3> QED
      BY <3>1, <3>2, VotesKept DEF Outstanding, Issued
  <2> QED
    BY <1>3, <2>1, <2>2 DEF ConsumerThread, consumeReplies
<1>4. ASSUME NEW s \in Server,
             HandleRPCs(s) \/ CallExpires(s) \/ CallRefused(s) \/ ServerCrashes(s)
      PROVE  VoteInv'
  BY <1>4, ServerSeen, ServerVotes
<1> QED
  BY <1>1, <1>2, <1>3, <1>4 DEF Next, MainThread

-----------------------------------------------------------------------------
(* The steps of the abstract specification *)

\* The votes as the refinement mapping has them.
Yes == {v \in YesVotes : v[2] \in CrossTid}

\* A yes vote in the abstract is one of some server of the cluster.
LEMMA YesIsSaid ==
    AtomicityInv => Yes = {<<ClusterOf(p[1]), p[2]>> :
                              p \in {q \in Server \X CrossTid : SaidYes(q[1], q[2])}}
<1> SUFFICES ASSUME AtomicityInv
             PROVE  Yes = {<<ClusterOf(p[1]), p[2]>> :
                              p \in {q \in Server \X CrossTid : SaidYes(q[1], q[2])}}
  OBVIOUS
<1> DEFINE A == acked \cup {<<r.from, r.tid>> : r \in {q \in replies : q.ok /\ q.ack}}
           B == {q \in Server \X CrossTid : SaidYes(q[1], q[2])}
<1>1. acked \subseteq Server \X Tid /\ replies \subseteq Reply
  BY DEF AtomicityInv, TypeOK, ClientTypeOK, RpcTypeOK
<1>2. B = {a \in A : a[2] \in CrossTid}
  <2>1. \A s \in Server, tid \in Tid : <<s, tid>> \in A <=> SaidYes(s, tid)
    BY DEF SaidYes
  <2>2. A \subseteq Server \X Tid
    BY <1>1 DEF Reply
  <2> HIDE DEF A
  <2> QED
    BY <2>1, <2>2, CrossIsTid
<1>3. Yes = {<<ClusterOf(a[1]), a[2]>> : a \in {b \in A : b[2] \in CrossTid}}
  <2>1. YesVotes = {<<ClusterOf(a[1]), a[2]>> : a \in A}
    BY DEF YesVotes, ClusterOf
  <2> HIDE DEF A
  <2> QED
    BY <2>1 DEF Yes
<1> QED
  BY <1>2, <1>3

\* The votes do not change when no server changes its mind.
LEMMA YesKept ==
    ASSUME AtomicityInv, AtomicityInv',
           \A s \in Server, tid \in CrossTid : SaidYes(s, tid)' <=> SaidYes(s, tid)
    PROVE  Yes' = Yes
<1> DEFINE B == {q \in Server \X CrossTid : SaidYes(q[1], q[2])}
<1>1. B' = B
  OBVIOUS
<1>2. Yes = {<<ClusterOf(p[1]), p[2]>> : p \in B}
  BY YesIsSaid
<1>3. Yes' = {<<ClusterOf(p[1]), p[2]>> : p \in B'}
  <2>1. (AtomicityInv => Yes = {<<ClusterOf(p[1]), p[2]>> :
                              p \in {q \in Server \X CrossTid : SaidYes(q[1], q[2])}})'
    BY YesIsSaid, PTL
  <2> QED
    BY <2>1
<1> HIDE DEF B
<1> QED
  BY <1>1, <1>2, <1>3

OutcomesRecorded ==
    \A s \in Server, tid \in CrossTid :
        Recorded(s, tid) # "none" => Recorded(s, tid) = outcome[tid]

\* What a server recorded is what was decided.
LEMMA RecordedIsDecided == AtomicityInv => OutcomesRecorded
<1> SUFFICES ASSUME AtomicityInv, NEW s \in Server, NEW tid \in CrossTid
             PROVE  Recorded(s, tid) # "none" => Recorded(s, tid) = outcome[tid]
  BY DEF OutcomesRecorded
<1>1. \A i \in DOMAIN log[s] : log[s][i] \in SoundEntry
  <2>1. log[s] \in Seq(SoundEntry)
    BY ServerParts
  <2> QED
    BY <2>1, ElementOfSeq
<1>2. InLog(s, tid, "COMMITTED") => outcome[tid] = "commit"
  BY <1>1, CrossIsTid DEF InLog, SoundEntry
<1>3. InLog(s, tid, "ABORTED") => outcome[tid] = "abort"
  BY <1>1 DEF InLog, SoundEntry
<1> QED
  BY <1>2, <1>3 DEF Recorded

\* A log that grows while nothing is decided: one server learns outcomes.
LEMMA LearnStep ==
    ASSUME AtomicityInv, AtomicityInv', OneLogGrows, outcome' = outcome, Yes' = Yes
    PROVE  \E s \in Server : Commitment!Learn(s)
<1>1. PICK s \in Server :
         /\ \A t \in Server \ {s} : log'[t] = log[t]
         /\ \A tid, st : InLog(s, tid, st) => InLog(s, tid, st)'
  BY DEF OneLogGrows, InLog
<1> DEFINE R(t, tid) == Recorded(t, tid)
           news == {tid \in CrossTid : R(s, tid)' # "none"}
<1>2. \A t \in Server, tid \in CrossTid :
         Recorded(t, tid)' # "none" => Recorded(t, tid)' = outcome[tid]
  <2>1. (AtomicityInv => OutcomesRecorded)'
    BY RecordedIsDecided, PTL
  <2> QED
    BY <2>1 DEF OutcomesRecorded
<1>3. \A t \in Server \ {s}, tid \in CrossTid : R(t, tid)' = R(t, tid)
  BY <1>1 DEF Recorded, InLog
<1>4. \A tid \in CrossTid : tid \notin news => R(s, tid)' = R(s, tid)
  BY <1>1 DEF Recorded
<1>5. \A tid \in news : R(s, tid)' = outcome[tid] /\ outcome[tid] # "none"
  BY <1>2
<1> HIDE DEF R
<1>6. news \in SUBSET {tid \in CrossTid : [t \in CrossTid |-> outcome[t]][tid] # "none"}
  BY <1>5
<1>7. [t \in Server |-> [tid \in CrossTid |-> R(t, tid)]]' =
        [[t \in Server |-> [tid \in CrossTid |-> R(t, tid)]] EXCEPT ![s] =
            [tid \in CrossTid |-> IF tid \in news THEN [t \in CrossTid |-> outcome[t]][tid]
                                  ELSE @[tid]]]
  BY <1>3, <1>4, <1>5
<1>8. Commitment!Learn(s)
  BY <1>6, <1>7 DEF Commitment!Learn, Yes, R
<1> QED
  BY <1>8

\* The votes a server's step adds: a yes, when a TpcPrepare ends with one.
LEMMA ServerStepAbstract ==
    ASSUME AtomicityInv, AtomicityInv', VoteInv, ClientSees
    PROVE  Commitment!Next
<1>0. ClientSide /\ outcome' = outcome /\ acked' = acked /\ OneLogGrows
  BY TwoHalves DEF ClientSees, clientVars
<1>1. ASSUME \A s \in Server, tid \in CrossTid : SaidYes(s, tid)' <=> SaidYes(s, tid)
      PROVE  Commitment!Next
  BY <1>0, <1>1, YesKept, LearnStep DEF Commitment!Next
<1>2. CASE UNCHANGED <<inCalls, replies>>
  BY <1>0, <1>1, <1>2 DEF SaidYes
<1>3. CASE OneCallEnds
  <2>1. PICK s \in Server, tid \in Tid, ok \in BOOLEAN, ack \in BOOLEAN :
           /\ <<s, tid>> \in inCalls
           /\ inCalls' = inCalls \ {<<s, tid>>}
           /\ replies' = replies \cup {[from |-> s, tid |-> tid, ok |-> ok, ack |-> ack]}
           /\ ok /\ ack /\ cross_shard(tid) => log' = log
    BY <1>3 DEF OneCallEnds
  <2>2. \A t \in Server, u \in CrossTid :
           SaidYes(t, u)' <=> SaidYes(t, u) \/ (t = s /\ u = tid /\ ok /\ ack)
    <3> DEFINE n == [from |-> s, tid |-> tid, ok |-> ok, ack |-> ack]
    <3>1. n.from = s /\ n.tid = tid /\ n.ok = ok /\ n.ack = ack /\ replies' = replies \cup {n}
      BY <2>1
    <3> HIDE DEF n
    <3> QED
      BY <1>0, <3>1 DEF SaidYes
  <2>3. CASE ~(ok /\ ack /\ tid \in CrossTid)
    BY <1>1, <2>2, <2>3
  <2>4. CASE ok /\ ack /\ tid \in CrossTid
    <3>1. Outstanding(s, tid) /\ log' = log
      BY <2>1, <2>4, CrossIsTid DEF Outstanding
    <3>2. outcome[tid] = "none" /\ ClusterOf(s) \in TouchedClusters(tid)
      BY <1>0, <2>4, <3>1, CrossIsTid
         DEF ClientSide, VotesConserved, VoteInv, OneVoterPerCluster, MayBeYes
    <3>3. Yes' = Yes \cup {<<ClusterOf(s), tid>>}
      <4> DEFINE B == {q \in Server \X CrossTid : SaidYes(q[1], q[2])}
      <4>1. B' = B \cup {<<s, tid>>}
        BY <2>2, <2>4
      <4>2. Yes = {<<ClusterOf(p[1]), p[2]>> : p \in B}
        BY YesIsSaid
      <4>3. Yes' = {<<ClusterOf(p[1]), p[2]>> : p \in B'}
        <5>1. (AtomicityInv => Yes = {<<ClusterOf(p[1]), p[2]>> :
                              p \in {q \in Server \X CrossTid : SaidYes(q[1], q[2])}})'
          BY YesIsSaid, PTL
        <5> QED
          BY <5>1
      <4> HIDE DEF B
      <4>4. {<<ClusterOf(p[1]), p[2]>> : p \in B \cup {<<s, tid>>}}
              = {<<ClusterOf(p[1]), p[2]>> : p \in B} \cup {<<ClusterOf(s), tid>>}
        <5>1. <<s, tid>>[1] = s /\ <<s, tid>>[2] = tid
          OBVIOUS
        <5> QED
          BY <5>1, Zenon
      <4> QED
        BY <4>1, <4>2, <4>3, <4>4
    <3>4. Commitment!Vote(tid)
      <4>1. [u \in CrossTid |-> outcome[u]][tid] = "none"
        BY <2>4, <3>2
      <4>2. ClusterOf(s) \in
              [u \in CrossTid |-> {SenderCluster(u), ReceiverCluster(u)}][tid]
        BY <2>4, <3>2 DEF TouchedClusters
      <4>3. /\ [u \in CrossTid |-> outcome[u]]' = [u \in CrossTid |-> outcome[u]]
            /\ [t \in Server |-> [u \in CrossTid |-> Recorded(t, u)]]'
                  = [t \in Server |-> [u \in CrossTid |-> Recorded(t, u)]]
        BY <1>0, <3>1 DEF Recorded, InLog
      <4> QED
        BY <3>3, <4>1, <4>2, <4>3 DEF Commitment!Vote, Yes
    <3> QED
      BY <2>4, <3>4 DEF Commitment!Next
  <2> QED
    BY <2>3, <2>4
<1> QED
  BY <1>2, <1>3 DEF ClientSees

\* The abstract state, as the refinement mapping has it.
AbstractState ==
    <<Yes, [tid \in CrossTid |-> outcome[tid]],
      [s \in Server |-> [tid \in CrossTid |-> Recorded(s, tid)]]>>

\* A step with the same votes, outcomes and logs is a stuttering step.
LEMMA NothingHappens ==
    ASSUME Yes' = Yes, outcome' = outcome, log' = log
    PROVE  UNCHANGED AbstractState
  BY DEF AbstractState, Recorded, InLog

\* A vote that the client takes from its queue remains a vote.
LEMMA CountingKeepsVotes ==
    ASSUME AtomicityInv, AtomicityInv', NEW r \in replies,
           consumePrepareReply(r) \/ consumeTransferReply(r)
    PROVE  Yes' = Yes
<1>1. /\ replies' = replies \ {r}
      /\ acked' = IF r.ok /\ r.ack THEN acked \cup {<<r.from, r.tid>>} ELSE acked
  BY DEF consumePrepareReply, consumeTransferReply
<1>2. r.ok \in BOOLEAN /\ r.ack \in BOOLEAN
  BY DEF AtomicityInv, TypeOK, RpcTypeOK, Reply
<1>3. CASE r.ok /\ r.ack
  <2>1. \A s \in Server, tid \in CrossTid : SaidYes(s, tid)' <=> SaidYes(s, tid)
    BY <1>1, <1>3 DEF SaidYes
  <2> QED
    BY <2>1, YesKept
<1>4. CASE ~(r.ok /\ r.ack)
  <2>1. \A s \in Server, tid \in CrossTid : SaidYes(s, tid)' <=> SaidYes(s, tid)
    BY <1>1, <1>4 DEF SaidYes
  <2> QED
    BY <2>1, YesKept
<1> QED
  BY <1>2, <1>3, <1>4

\* A cluster of tid voted yes in the abstract exactly when its voter said yes.
LEMMA VoteOfCluster ==
    ASSUME AtomicityInv, NEW tid \in CrossTid, NEW c
    PROVE  <<c, tid>> \in Yes <=> \E s \in Server : ClusterOf(s) = c /\ SaidYes(s, tid)
<1> DEFINE B == {q \in Server \X CrossTid : SaidYes(q[1], q[2])}
<1>1. Yes = {<<ClusterOf(p[1]), p[2]>> : p \in B}
  BY YesIsSaid
<1>2. ASSUME NEW s \in Server, ClusterOf(s) = c, SaidYes(s, tid)
      PROVE  <<c, tid>> \in Yes
  <2>1. <<s, tid>> \in B /\ <<s, tid>>[1] = s /\ <<s, tid>>[2] = tid
    BY <1>2
  <2> HIDE DEF B
  <2> QED
    BY <1>1, <1>2, <2>1
<1>3. ASSUME <<c, tid>> \in Yes
      PROVE  \E s \in Server : ClusterOf(s) = c /\ SaidYes(s, tid)
  <2>1. PICK p \in B : <<c, tid>> = <<ClusterOf(p[1]), p[2]>>
    BY <1>1, <1>3
  <2>2. p[1] \in Server /\ ClusterOf(p[1]) = c /\ p[2] = tid /\ SaidYes(p[1], p[2])
    BY <2>1
  <2> QED
    BY <2>2
<1> QED
  BY <1>2, <1>3

\* A yes is a possible yes.
LEMMA YesIsPossible ==
    ASSUME NEW s \in Server, NEW tid \in CrossTid, SaidYes(s, tid)
    PROVE  MayBeYes(s, tid)
  BY DEF SaidYes, MayBeYes, Outstanding

\* The client decides: commit when it has counted the yes of both clusters, abort
\* when one of them said no.
LEMMA DecideStep ==
    ASSUME AtomicityInv, AtomicityInv', VoteInv, NEW r \in replies,
           consumePrepareReply(r), UNCHANGED serverVars
    PROVE  Commitment!Next \/ UNCHANGED AbstractState
<1> DEFINE tid    == IF r.ok THEN r.tid ELSE NoTid
           vote   == r.ok /\ r.ack
           votes  == [processing[tid] EXCEPT
                        !.successes = IF vote THEN @ + 1 ELSE @,
                        !.failures = IF vote THEN @ ELSE @ + 1]
           commit == votes.successes = 2
           abort  == votes.failures > 0 /\ votes.successes + votes.failures = 2
           x == r.tid
           v == r.from
           p == processing[x]
<1>0. ClientSide
  BY TwoHalves
<1>1. log' = log /\ Yes' = Yes
  BY CountingKeepsVotes DEF serverVars, storeVars
<1>2. outcome' = IF (commit \/ abort) /\ tid # NoTid
                 THEN [outcome EXCEPT ![tid] = IF commit THEN "commit" ELSE "abort"]
                 ELSE outcome
  BY DEF consumePrepareReply, mustCommit, mustAbort
<1>3. /\ v \in Server /\ x \in Tid /\ x \in CrossTid /\ x # NoTid
      /\ r.ok \in BOOLEAN /\ r.ack \in BOOLEAN
  BY <1>0, TxnAssumption DEF ClientSide, RpcTypeOK, Reply, NoTid, consumePrepareReply, CrossTid
<1>4. CASE outcome' = outcome
  BY <1>1, <1>4, NothingHappens
<1>5. CASE outcome' # outcome
  <2>1. tid = x /\ r.ok /\ (commit \/ abort)
    BY <1>2, <1>5 
  <2>2. outcome' = [outcome EXCEPT ![x] = IF commit THEN "commit" ELSE "abort"]
    BY <1>2, <1>3, <2>1
  <2>3. Outstanding(v, x)
    BY DEF Outstanding
  <2>4. outcome[x] = "none" /\ outcome \in [Tid -> {"none", "commit", "abort"}]
    BY <1>0, <1>3, <2>3 DEF ClientSide, VotesConserved, ClientTypeOK
  <2>5. /\ p = [successes |-> p.successes, failures |-> p.failures]
        /\ p.successes \in Nat /\ p.failures \in Nat
    BY <1>0, <1>3 DEF ClientSide, ClientTypeOK, Votes
  <2>6. p.successes + p.failures \in {0, 1}
    BY <1>0, <1>3 DEF ClientSide, VotesConserved, VotesCounted
  <2>7. /\ MayBeYes(v, x) /\ <<v, x>> \notin acked
        /\ ClusterOf(v) \in TouchedClusters(x)
        /\ \A s \in Server : MayBeYes(s, x) /\ ClusterOf(s) = ClusterOf(v) => s = v
    BY <1>3, <2>3 DEF VoteInv, OneVoterPerCluster, CountedOnce, MayBeYes
  <2>8. vote \in BOOLEAN /\ votes = [p EXCEPT !.successes = IF vote THEN @ + 1 ELSE @,
                                              !.failures = IF vote THEN @ ELSE @ + 1]
    BY <1>3, <2>1
  <2> HIDE DEF p, vote, votes, tid
  <2>9. \/ vote /\ votes.successes = p.successes + 1 /\ votes.failures = p.failures
        \/ ~vote /\ votes.successes = p.successes /\ votes.failures = p.failures + 1
    BY <2>5, <2>8
  <2>10. \/ commit /\ vote /\ p.successes = 1
         \/ ~commit /\ (~vote \/ p.failures # 0)
    BY <2>1, <2>5, <2>6, <2>9
  <2> DEFINE AllVoted == \A c \in TouchedClusters(x) : <<c, x>> \in Yes
  <2>11. commit => AllVoted
    <3> SUFFICES ASSUME commit, NEW c \in TouchedClusters(x) PROVE <<c, x>> \in Yes
      OBVIOUS
    <3>1. vote /\ p.successes # 0
      BY <2>10
    <3>2. PICK s \in Server : <<s, x>> \in acked
      BY <1>3, <3>1 DEF VoteInv, CountersTell, p
    <3>3. SaidYes(v, x) /\ SaidYes(s, x)
      BY <3>1, <3>2 DEF SaidYes, vote
    <3>4. MayBeYes(s, x) /\ s # v
      BY <2>7, <3>2 DEF MayBeYes
    <3>5. ClusterOf(s) # ClusterOf(v) /\ ClusterOf(s) \in TouchedClusters(x)
      BY <1>3, <2>7, <3>4 DEF VoteInv, OneVoterPerCluster
    <3>6. c = ClusterOf(s) \/ c = ClusterOf(v)
      BY <2>7, <3>5 DEF TouchedClusters
    <3> QED
      BY <1>3, <3>3, <3>6, VoteOfCluster
  <2>12. ~commit => ~AllVoted
    <3>1. CASE ~vote /\ ~commit
      <4>1. ASSUME NEW s \in Server, ClusterOf(s) = ClusterOf(v), SaidYes(s, x) PROVE FALSE
        <5>1. s = v
          BY <1>3, <2>7, <4>1, YesIsPossible
        <5>2. \E q \in replies : q.ok /\ q.ack /\ q.from = v /\ q.tid = x
          BY <2>7, <4>1, <5>1 DEF SaidYes
        <5>3. \A q \in replies : q.from = v /\ q.tid = x => q = r
          BY <1>0 DEF ClientSide, VotesConserved
        <5> QED
          BY <3>1, <5>2, <5>3 DEF vote
      <4>2. <<ClusterOf(v), x>> \notin Yes
        BY <1>3, <4>1, VoteOfCluster
      <4> QED
        BY <2>7, <4>2
    <3>2. CASE p.failures # 0
      <4>1. PICK c \in TouchedClusters(x) :
               \A s \in Server : ClusterOf(s) = c => ~MayBeYes(s, x)
        BY <1>3, <3>2 DEF VoteInv, CountersTell, p
      <4>2. <<c, x>> \notin Yes
        BY <1>3, <4>1, YesIsPossible, VoteOfCluster
      <4> QED
        BY <4>1, <4>2
    <3> QED
      BY <2>10, <3>1, <3>2
  <2>13. /\ [t \in CrossTid |-> outcome[t]][x] = "none"
         /\ [t \in CrossTid |-> outcome[t]]' =
               [[t \in CrossTid |-> outcome[t]] EXCEPT ![x] =
                   IF AllVoted THEN "commit" ELSE "abort"]
    <3> HIDE DEF AllVoted, commit, abort, x
    <3>1. outcome' = [outcome EXCEPT ![x] = IF AllVoted THEN "commit" ELSE "abort"]
      BY <2>2, <2>11, <2>12
    <3> QED
      BY <1>3, <2>4, <3>1, CrossIsTid
  <2>14. Commitment!VotedByAll(x) <=> AllVoted
    BY <1>3 DEF Commitment!VotedByAll, TouchedClusters, Yes
  <2>15. [s \in Server |-> [t \in CrossTid |-> Recorded(s, t)]]'
           = [s \in Server |-> [t \in CrossTid |-> Recorded(s, t)]]
    BY <1>1 DEF Recorded, InLog
  <2>16. Commitment!Decide(x)
    <3> HIDE DEF AllVoted, x
    <3> QED
      BY <1>1, <2>13, <2>14, <2>15 DEF Commitment!Decide, Yes
  <2> QED
    BY <1>3, <2>16 DEF Commitment!Next
<1> QED
  BY <1>4, <1>5

-----------------------------------------------------------------------------
(* The theorems *)

\* The calls of a transaction, its counters and the yes votes always stand in the
\* relation that makes the client's decision right.
THEOREM VotesInvariance == Spec => [](AtomicityInv /\ VoteInv)
<1>1. Init => AtomicityInv /\ VoteInv
  BY InitInv, InitVotes
<1>2. AtomicityInv /\ VoteInv /\ [Next]_vars => (AtomicityInv /\ VoteInv)'
  BY NextInv, NextVotes
<1> QED
  BY <1>1, <1>2, PTL DEF Spec

\* The initial state of the system is one of the abstract specification.
LEMMA InitAbstract == Init => Commitment!Init
<1> SUFFICES ASSUME Init PROVE Commitment!Init
  OBVIOUS
<1>1. Yes = {}
  BY DEF Init, RpcInit, ClientInit, Yes, YesVotes
<1>2. \A tid \in CrossTid : outcome[tid] = "none"
  BY CrossIsTid DEF Init, ClientInit
<1>3. \A s \in Server, tid \in CrossTid : Recorded(s, tid) = "none"
  BY DEF Init, ServerInit, Recorded, InLog
<1> QED
  BY <1>1, <1>2, <1>3 DEF Commitment!Init, Commitment!Undecided, Yes

\* Every step of the system is a step of the abstract specification or changes
\* nothing there.
LEMMA NextAbstract ==
    AtomicityInv /\ VoteInv /\ AtomicityInv' /\ [Next]_vars
        => Commitment!Next \/ UNCHANGED AbstractState
<1> SUFFICES ASSUME AtomicityInv, VoteInv, AtomicityInv', [Next]_vars
             PROVE  Commitment!Next \/ UNCHANGED AbstractState
  OBVIOUS
<1>1. CASE NextSet \/ MainThread \/ CoordinatorCrashes \/ UNCHANGED vars
  <2>1. UNCHANGED <<replies, acked, outcome, log>>
    BY <1>1 DEF NextSet, processNextSet, MainThread, IssueTransaction, processTransactions,
                sendTransaction, DisconnectCall, updateDisconnected, CoordinatorCrashes,
                clientCrash, vars, rpcVars, serverVars, storeVars, clientVars
  <2> QED
    BY <2>1, NothingHappens DEF Yes, YesVotes
<1>2. CASE ConsumerThread
  <2>1. ASSUME NEW r \in replies, consumePrepareReply(r)
        PROVE  Commitment!Next \/ UNCHANGED AbstractState
    BY <1>2, <2>1, DecideStep DEF ConsumerThread
  <2>2. ASSUME NEW r \in replies, consumeTransferReply(r)
        PROVE  UNCHANGED AbstractState
    <3>1. outcome' = outcome /\ log' = log
      BY <1>2, <2>2 DEF consumeTransferReply, ConsumerThread, serverVars, storeVars
    <3> QED
      BY <2>2, <3>1, CountingKeepsVotes, NothingHappens
  <2> QED
    BY <1>2, <2>1, <2>2 DEF ConsumerThread, consumeReplies
<1>3. ASSUME NEW s \in Server,
             HandleRPCs(s) \/ CallExpires(s) \/ CallRefused(s) \/ ServerCrashes(s)
      PROVE  Commitment!Next
  BY <1>3, ServerSeen, ServerStepAbstract
<1> QED
  BY <1>1, <1>2, <1>3 DEF Next

\* The client and the servers implement atomic commitment: the outcome of a
\* cross-shard transaction is commit exactly when a leader of each of its clusters
\* finished its TpcPrepare call with a yes, it is fixed once, and no server ever
\* writes another one in its log, from a TpcCommit, a TpcAbort or a Sync reply.
THEOREM AtomicCommitRefinement == Spec => ImplementsAtomicCommit
<1>1. Init => Commitment!Init
  BY InitAbstract
<1>2. AtomicityInv /\ VoteInv /\ AtomicityInv' /\ [Next]_vars
        => [Commitment!Next]_AbstractState
  BY NextAbstract
<1>3. Commitment!Init /\ [][Commitment!Next]_AbstractState => Commitment!Spec
  BY DEF Commitment!Spec, AbstractState, Yes
<1> QED
  BY <1>1, <1>2, <1>3, VotesInvariance, PTL DEF Spec, ImplementsAtomicCommit

=============================================================================
