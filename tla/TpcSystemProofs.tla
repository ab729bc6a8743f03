-------------------------- MODULE TpcSystemProofs ---------------------------
(***************************************************************************)
(* Two-phase commit is atomic, for any number of clusters, servers, clients*)
(* and transactions, and whatever calls are lost, late or out of order and *)
(* whichever servers crash.                                                *)
(***************************************************************************)
EXTENDS TpcSystem, SequenceTheorems, TLAPS

-----------------------------------------------------------------------------
(* Sequences and functions *)

\* Taking a call out of a queue leaves calls of the same kind.
LEMMA RemoveAtType ==
    ASSUME NEW S, NEW q \in Seq(S), NEW i \in DOMAIN q
    PROVE  RemoveAt(q, i) \in Seq(S)
<1>0. i \in 1 .. Len(q)
  OBVIOUS
<1>1. SubSeq(q, 1, i - 1) \in Seq(S)
  BY <1>0, SubSeqProperties
<1>2. SubSeq(q, i + 1, Len(q)) \in Seq(S)
  BY <1>0, SubSeqProperties
<1> QED
  BY <1>1, <1>2, ConcatProperties DEF RemoveAt

\* Replacing the queue of one pair of servers.
LEMMA QueueUpdateType ==
    ASSUME NEW S, NEW f \in [Server -> [Server -> Seq(S)]],
           NEW s \in Server, NEW t \in Server, NEW q \in Seq(S)
    PROVE  [f EXCEPT ![s][t] = q] \in [Server -> [Server -> Seq(S)]]
  OBVIOUS

\* Sending a call to all peers.
LEMMA SendAllType ==
    ASSUME NEW S, chan \in [Server -> [Server -> Seq(S)]],
           NEW s \in Server, NEW c \in S, SendAll(s, c)
    PROVE  chan' \in [Server -> [Server -> Seq(S)]]
<1>1. \A t \in Server : Append(chan[s][t], c) \in Seq(S)
  OBVIOUS
<1> QED
  BY <1>1 DEF SendAll

-----------------------------------------------------------------------------
(* The shard mapping *)

\* Every account belongs to one of the clusters.
LEMMA ClusterOfClient ==
    ASSUME NEW c \in ClientId
    PROVE  getClusterIdFromClientId(c) \in 1 .. NumClusters
<1> DEFINE T == TotalClients
           N == NumClusters
           a == c * N + T - 1
           d == a \div T
<1>1. /\ T \in Nat \ {0} /\ N \in Nat \ {0}
      /\ c \in Nat /\ 1 =< c /\ c =< T
  BY ShardingAssumption DEF ClientId
<1>2. /\ c * N \in Nat /\ c * N >= N /\ T * N - c * N >= 0
  <2>1. c * N - N = (c - 1) * N /\ (c - 1) \in Nat
    BY <1>1
  <2>2. T * N - c * N = (T - c) * N /\ (T - c) \in Nat
    BY <1>1
  <2> QED
    BY <1>1, <2>1, <2>2
<1>3. a \in Nat /\ a >= T /\ a < T * N + T
  BY <1>1, <1>2
<1>4. /\ d \in Int /\ a = T * d + (a % T)
      /\ a % T \in 0 .. (T - 1)
  BY <1>1, <1>3
<1> HIDE DEF d, a
<1>5. d >= 1
  <2> SUFFICES ASSUME d =< 0 PROVE FALSE
    BY <1>4
  <2>1. T * d =< 0
    BY <1>1, <1>4
  <2> QED
    BY <2>1, <1>1, <1>3, <1>4
<1>6. d =< N
  <2> SUFFICES ASSUME d >= N + 1 PROVE FALSE
    BY <1>1, <1>4
  <2>1. T * d >= T * (N + 1)
    BY <1>1, <1>4
  <2>2. T * (N + 1) = T * N + T /\ T * N \in Nat
    BY <1>1
  <2> QED
    BY <2>1, <2>2, <1>1, <1>3, <1>4
<1> QED
  BY <1>1, <1>4, <1>5, <1>6 DEF getClusterIdFromClientId, CeilDiv, d, a

-----------------------------------------------------------------------------
(* The two halves of the invariant *)

\* What is known of the client and of the calls between it and the servers.
ClientSide ==
    /\ RpcTypeOK
    /\ ClientTypeOK
    /\ VotesConserved
    /\ DecisionsFollowOutcome

\* What is known of the servers and of the calls between them.
ServerSide ==
    /\ ServerTypeOK
    /\ RoundsStarted
    /\ log \in [Server -> Seq(SoundEntry)]
    /\ chan \in [Server -> [Server -> Seq(SoundCall)]]

\* AtomicityInv is what the client knows and what the servers know.
LEMMA TwoHalves == AtomicityInv <=> ClientSide /\ ServerSide
  BY DEF AtomicityInv, TypeOK, ClientSide, ServerSide

\* A step that leaves the client and its calls alone keeps the client's half
\* and the meaning of a sound entry.
LEMMA ClientFrame ==
    ASSUME ClientSide, UNCHANGED <<rpcVars, clientVars>>
    PROVE  ClientSide' /\ SoundEntry' = SoundEntry /\ SoundCall' = SoundCall
<1>1. /\ inCalls' = inCalls /\ replies' = replies /\ decisions' = decisions
      /\ set_no' = set_no /\ to_inform' = to_inform /\ to_send' = to_send
      /\ forgotten' = forgotten /\ client_up' = client_up
      /\ processing' = processing /\ outcome' = outcome /\ acked' = acked
  BY DEF rpcVars, clientVars
<1>2. RpcTypeOK' /\ ClientTypeOK'
  BY <1>1 DEF ClientSide, RpcTypeOK, ClientTypeOK
<1>3. VotesConserved'
  BY <1>1 DEF ClientSide, VotesConserved, Outstanding, VotesCounted, Issued
<1>4. DecisionsFollowOutcome'
  BY <1>1 DEF ClientSide, DecisionsFollowOutcome
<1>5. SoundEntry' = SoundEntry /\ SoundCall' = SoundCall
  BY <1>1 DEF SoundEntry, SoundCall
<1> QED
  BY <1>2, <1>3, <1>4, <1>5 DEF ClientSide

\* A call that ends, with whatever reply, is still one vote to count.
LEMMA CallEnds ==
    ASSUME ClientSide, NEW s \in Server, NEW tid \in Tid,
           NEW ok \in BOOLEAN, NEW ack \in BOOLEAN,
           <<s, tid>> \in inCalls,
           inCalls' = inCalls \ {<<s, tid>>},
           replies' = replies \cup {[from |-> s, tid |-> tid, ok |-> ok, ack |-> ack]},
           UNCHANGED <<decisions, clientVars>>
    PROVE  ClientSide' /\ SoundEntry' = SoundEntry /\ SoundCall' = SoundCall
<1> DEFINE n == [from |-> s, tid |-> tid, ok |-> ok, ack |-> ack]
<1>1. /\ decisions' = decisions
      /\ set_no' = set_no /\ to_inform' = to_inform /\ to_send' = to_send
      /\ forgotten' = forgotten /\ client_up' = client_up
      /\ processing' = processing /\ outcome' = outcome /\ acked' = acked
  BY DEF clientVars
<1>2. RpcTypeOK' /\ ClientTypeOK'
  BY <1>1 DEF ClientSide, RpcTypeOK, ClientTypeOK, Reply
<1>3. \A x \in Server, t \in Tid : Outstanding(x, t)' <=> Outstanding(x, t)
  <2>1. /\ n.from = s /\ n.tid = tid
        /\ \A r \in replies' : r \in replies \/ r = n
        /\ n \in replies' /\ replies \subseteq replies'
    OBVIOUS
  <2> SUFFICES ASSUME NEW x \in Server, NEW t \in Tid
               PROVE Outstanding(x, t)' <=> Outstanding(x, t)
    OBVIOUS
  <2>2. CASE x = s /\ t = tid
    BY <2>1, <2>2 DEF Outstanding
  <2>3. CASE ~(x = s /\ t = tid)
    BY <2>1, <2>3 DEF Outstanding
  <2> QED
    BY <2>2, <2>3
<1>4. Issued' = Issued /\ \A t \in Tid : VotesCounted(t)' = VotesCounted(t)
  BY <1>1 DEF Issued, VotesCounted
<1>5. /\ \A r \in replies' : <<r.from, r.tid>> \notin inCalls'
      /\ \A r, q \in replies' : r.from = q.from /\ r.tid = q.tid => r = q
  BY DEF ClientSide, VotesConserved, RpcTypeOK, Reply
<1>6. VotesConserved'
  BY <1>1, <1>3, <1>4, <1>5 DEF ClientSide, VotesConserved
<1>7. DecisionsFollowOutcome'
  BY <1>1 DEF ClientSide, DecisionsFollowOutcome
<1>8. SoundEntry' = SoundEntry /\ SoundCall' = SoundCall
  BY <1>1 DEF SoundEntry, SoundCall
<1> QED
  BY <1>2, <1>6, <1>7, <1>8 DEF ClientSide

-----------------------------------------------------------------------------
(* The client's steps *)

\* The server's half only depends on the client for what a sound entry is.
LEMMA ServerFrame ==
    ASSUME ServerSide, UNCHANGED serverVars, SoundEntry \subseteq SoundEntry'
    PROVE  ServerSide'
<1>1. /\ acceptor' = acceptor /\ round' = round /\ log' = log /\ prepared' = prepared
      /\ balances' = balances /\ last_inserted' = last_inserted
      /\ last_inserted_ballot' = last_inserted_ballot /\ locks' = locks
      /\ in_sync' = in_sync /\ i_am_disconnected' = i_am_disconnected
      /\ crashed' = crashed /\ chan' = chan
  BY DEF serverVars, storeVars
<1>2. ServerTypeOK' /\ RoundsStarted'
  BY <1>1 DEF ServerSide, ServerTypeOK, RoundsStarted
<1>3. log' \in [Server -> Seq(SoundEntry')]
  <2>1. \A s \in Server : log[s] \in Seq(SoundEntry')
    BY SeqMonotonic DEF ServerSide
  <2> QED
    BY <1>1, <2>1 DEF ServerSide
<1>4. SoundCall \subseteq SoundCall'
  <2> SUFFICES ASSUME NEW c \in SoundCall PROVE c \in SoundCall'
    OBVIOUS
  <2>1. c.res.logs \in Seq(SoundEntry')
    BY SeqMonotonic DEF SoundCall
  <2> QED
    BY <2>1 DEF SoundCall
<1>5. chan' \in [Server -> [Server -> Seq(SoundCall')]]
  <2>1. \A s, t \in Server : chan[s][t] \in Seq(SoundCall')
    BY <1>4, SeqMonotonic DEF ServerSide
  <2> QED
    BY <1>1, <2>1 DEF ServerSide
<1> QED
  BY <1>2, <1>3, <1>5 DEF ServerSide

\* PROCESS_NEXT_SET only turns the page: nothing of the new set is sent yet.
LEMMA NextSetInv ==
    ASSUME AtomicityInv, NextSet
    PROVE  AtomicityInv'
<1>0. ClientSide /\ ServerSide
  BY TwoHalves
<1>1. /\ inCalls' = inCalls /\ replies' = replies /\ decisions' = decisions
      /\ processing' = processing /\ outcome' = outcome /\ acked' = acked
      /\ set_no' = set_no + 1 /\ set_no < Len(Sets)
      /\ to_send = {} /\ to_send' = Sets[set_no + 1].transactions
      /\ forgotten' = forgotten /\ client_up' = client_up
      /\ to_inform' = Server
      /\ UNCHANGED serverVars
  BY DEF NextSet, processNextSet, rpcVars
<1>2. set_no \in Nat /\ Len(Sets) \in Nat
  BY <1>0, SetsAssumption DEF ClientSide, ClientTypeOK
<1>3. RpcTypeOK' /\ ClientTypeOK'
  <2>1. to_send' \subseteq Tid
    <3>1. Sets[set_no + 1] \in TransactionSet
      BY <1>1, <1>2, SetsAssumption
    <3> QED
      BY <1>1, <3>1 DEF TransactionSet
  <2>2. set_no' \in 0 .. Len(Sets) /\ set_no' # 0
    BY <1>1, <1>2
  <2>3. to_send' \subseteq Sets[set_no'].transactions
    BY <1>1
  <2> QED
    BY <1>0, <1>1, <2>1, <2>2, <2>3 DEF ClientSide, RpcTypeOK, ClientTypeOK
<1>4. Issued' = Issued
  <2> DEFINE new == Sets[set_no + 1].transactions
             old == UNION {Sets[i].transactions : i \in 1 .. set_no}
  <2>1. 1 .. (set_no + 1) = (1 .. set_no) \cup {set_no + 1}
    BY <1>2
  <2>2. \A i \in 1 .. set_no :
          i \in DOMAIN Sets /\ set_no + 1 \in DOMAIN Sets /\ i # set_no + 1
    BY <1>1, <1>2, SetsAssumption
  <2>3. \A i \in 1 .. set_no : Sets[i].transactions \cap new = {}
    BY <2>2, SetsAssumption
  <2>4. old \cap new = {}
    BY <2>3
  <2>5. UNION {Sets[i].transactions : i \in 1 .. (set_no + 1)} = old \cup new
    BY <2>1
  <2>6. Issued = old
    BY <1>1 DEF Issued
  <2>7. Issued' = (old \cup new) \ new
    BY <1>1, <2>5 DEF Issued
  <2> QED
    BY <2>4, <2>6, <2>7
<1>5. VotesConserved'
  BY <1>0, <1>1, <1>4 DEF ClientSide, VotesConserved, Outstanding, VotesCounted
<1>6. DecisionsFollowOutcome'
  BY <1>0, <1>1 DEF ClientSide, DecisionsFollowOutcome
<1>7. SoundEntry' = SoundEntry
  BY <1>1 DEF SoundEntry
<1>8. ServerSide'
  BY <1>0, <1>1, <1>7, ServerFrame
<1> QED
  BY <1>3, <1>5, <1>6, <1>8 DEF AtomicityInv, TypeOK, ServerSide

\* A Disconnect call changes one flag of one server.
LEMMA DisconnectCallInv ==
    ASSUME AtomicityInv, NEW s \in Server, DisconnectCall(s)
    PROVE  AtomicityInv'
<1>0. ClientSide /\ ServerSide
  BY TwoHalves
<1>1. /\ inCalls' = inCalls /\ replies' = replies /\ decisions' = decisions
      /\ processing' = processing /\ outcome' = outcome /\ acked' = acked
      /\ set_no' = set_no /\ to_send' = to_send /\ to_inform' = to_inform \ {s}
      /\ forgotten' = forgotten /\ client_up' = client_up
  BY DEF DisconnectCall, updateDisconnected, rpcVars
<1>2. /\ acceptor' = acceptor /\ round' = round /\ log' = log /\ prepared' = prepared
      /\ balances' = balances /\ last_inserted' = last_inserted
      /\ last_inserted_ballot' = last_inserted_ballot /\ locks' = locks
      /\ in_sync' = in_sync /\ crashed' = crashed /\ chan' = chan
  BY DEF DisconnectCall, storeVars
<1>3. i_am_disconnected' \in [Server -> BOOLEAN]
  <2> DEFINE b == s \in Sets[set_no].disconnected
  <2>1. b \in BOOLEAN /\ i_am_disconnected \in [Server -> BOOLEAN]
    BY <1>0 DEF ServerSide, ServerTypeOK
  <2>2. \/ i_am_disconnected' = [i_am_disconnected EXCEPT ![s] = b]
        \/ i_am_disconnected' = i_am_disconnected
    BY DEF DisconnectCall, processDisconnectCall
  <2> HIDE DEF b
  <2> QED
    BY <2>1, <2>2
<1>4. RpcTypeOK' /\ ClientTypeOK'
  BY <1>0, <1>1 DEF ClientSide, RpcTypeOK, ClientTypeOK
<1>5. VotesConserved' /\ DecisionsFollowOutcome'
  BY <1>0, <1>1 DEF ClientSide, VotesConserved, Outstanding, VotesCounted, Issued,
                    DecisionsFollowOutcome
<1>6. SoundEntry' = SoundEntry /\ SoundCall' = SoundCall
  BY <1>1 DEF SoundEntry, SoundCall
<1>7. ServerTypeOK' /\ RoundsStarted'
  BY <1>0, <1>2, <1>3 DEF ServerSide, ServerTypeOK, RoundsStarted
<1> QED
  BY <1>0, <1>2, <1>4, <1>5, <1>6, <1>7 DEF AtomicityInv, TypeOK, ServerSide

\* processTransactions sends at most two calls for a transaction of which
\* nothing was outstanding, counted or decided before.
LEMMA IssueTransactionInv ==
    ASSUME AtomicityInv, NEW x \in to_send, IssueTransaction(x)
    PROVE  AtomicityInv'
<1> DEFINE new == {x}
           leader(c) == Sets[set_no].leaders[c]
<1>0. ClientSide /\ ServerSide
  BY TwoHalves
<1>1. /\ replies' = replies /\ decisions' = decisions
      /\ processing' = processing /\ outcome' = outcome /\ acked' = acked
      /\ set_no' = set_no /\ to_send' = to_send \ {x}
      /\ forgotten' \in {forgotten, forgotten \cup {x}} /\ client_up' = client_up
      /\ to_inform' = to_inform
      /\ UNCHANGED serverVars
  BY DEF IssueTransaction, processTransactions, sendTransaction
<1>2. inCalls' = inCalls \cup {<<leader(SenderCluster(x)), x>>,
                               <<leader(ReceiverCluster(x)), x>>}
  BY DEF IssueTransaction, processTransactions, sendTransaction
<1>3. /\ set_no \in DOMAIN Sets /\ set_no \in 1 .. Len(Sets) /\ Len(Sets) \in Nat
      /\ x \in Tid /\ x \in Sets[set_no].transactions
  BY <1>0, SetsAssumption DEF ClientSide, ClientTypeOK
<1>4. /\ new \subseteq Tid
      /\ \A c \in 1 .. NumClusters : leader(c) \in Server
  <2>1. Sets[set_no] \in TransactionSet
    BY <1>3, SetsAssumption
  <2> QED
    BY <1>3, <2>1 DEF TransactionSet
<1>5. leader(SenderCluster(x)) \in Server /\ leader(ReceiverCluster(x)) \in Server
  <2>1. Txn[x].sender \in ClientId /\ Txn[x].receiver \in ClientId
    BY <1>3, TxnAssumption DEF Transaction
  <2>2. SenderCluster(x) \in 1 .. NumClusters /\ ReceiverCluster(x) \in 1 .. NumClusters
    BY <2>1, ClusterOfClient DEF SenderCluster, ReceiverCluster
  <2> QED
    BY <1>4, <2>2
<1>6. RpcTypeOK' /\ ClientTypeOK'
  <2>1. inCalls' \subseteq Server \X Tid
    BY <1>0, <1>2, <1>3, <1>5 DEF ClientSide, RpcTypeOK
  <2>2. forgotten' \subseteq Tid /\ to_send' \subseteq to_send
    BY <1>0, <1>1, <1>3 DEF ClientSide, ClientTypeOK
  <2> QED
    BY <1>0, <1>1, <2>1, <2>2 DEF ClientSide, RpcTypeOK, ClientTypeOK
<1>7. Issued' = Issued \cup new /\ Issued \cap new = {}
  <2> DEFINE sent == UNION {Sets[i].transactions : i \in 1 .. set_no}
  <2>1. x \in sent
    BY <1>3
  <2>2. Issued = sent \ to_send /\ Issued' = sent \ (to_send \ {x})
    BY <1>1 DEF Issued
  <2> HIDE DEF sent
  <2> QED
    BY <2>1, <2>2
<1>8. \A s \in Server, t \in Tid :
        Outstanding(s, t)' <=>
           \/ Outstanding(s, t)
           \/ t \in new /\ s \in {leader(SenderCluster(t)), leader(ReceiverCluster(t))}
  BY <1>1, <1>2 DEF Outstanding
<1>9. \A s \in Server, t \in new : ~Outstanding(s, t)
  BY <1>0, <1>4, <1>7 DEF ClientSide, VotesConserved
<1>10. \A t \in Tid : VotesCounted(t)' = VotesCounted(t)
  BY <1>1 DEF VotesCounted
<1>11. \A t \in new : VotesCounted(t) = 0 /\ outcome[t] = "none"
  BY <1>0, <1>4, <1>7 DEF ClientSide, VotesConserved
<1>12. \A r \in replies : <<r.from, r.tid>> \notin inCalls'
  <2> SUFFICES ASSUME NEW r \in replies, <<r.from, r.tid>> \in inCalls' PROVE FALSE
    OBVIOUS
  <2>1. <<r.from, r.tid>> \notin inCalls
    BY <1>0 DEF ClientSide, VotesConserved
  <2>2. r.tid \in new /\ r.from \in Server
    BY <1>0, <1>2, <2>1 DEF ClientSide, RpcTypeOK, Reply
  <2>3. Outstanding(r.from, r.tid)
    BY DEF Outstanding
  <2> QED
    BY <1>9, <2>2, <2>3
<1>13. VotesConserved'
  <2>1. /\ \A r \in replies' : <<r.from, r.tid>> \notin inCalls'
        /\ \A r, q \in replies' : r.from = q.from /\ r.tid = q.tid => r = q
    BY <1>0, <1>1, <1>12 DEF ClientSide, VotesConserved
  <2>2. \A s \in Server, t \in Tid : Outstanding(s, t)' => t \in Issued'
    BY <1>0, <1>7, <1>8 DEF ClientSide, VotesConserved
  <2>3. \A tid \in Tid : \A s, t, u \in Server :
          Outstanding(s, tid)' /\ Outstanding(t, tid)' /\ Outstanding(u, tid)'
              => s = t \/ s = u \/ t = u
    BY <1>0, <1>8, <1>9 DEF ClientSide, VotesConserved
  <2>4. \A tid \in Tid : VotesCounted(tid)' # 0 =>
          /\ VotesCounted(tid)' = 1
          /\ tid \in Issued'
          /\ \A s, t \in Server :
                Outstanding(s, tid)' /\ Outstanding(t, tid)' => s = t
    BY <1>0, <1>7, <1>8, <1>10, <1>11 DEF ClientSide, VotesConserved
  <2>5. \A tid \in Tid : outcome'[tid] # "none" =>
          /\ VotesCounted(tid)' = 0
          /\ tid \in Issued'
          /\ cross_shard(tid)
          /\ \A s \in Server : ~Outstanding(s, tid)'
    BY <1>0, <1>1, <1>7, <1>8, <1>10, <1>11 DEF ClientSide, VotesConserved
  <2> QED
    BY <2>1, <2>2, <2>3, <2>4, <2>5 DEF VotesConserved
<1>14. DecisionsFollowOutcome'
  BY <1>0, <1>1 DEF ClientSide, DecisionsFollowOutcome
<1>15. SoundEntry' = SoundEntry
  BY <1>1 DEF SoundEntry
<1>16. ServerSide'
  BY <1>0, <1>1, <1>15, ServerFrame
<1> QED
  BY <1>6, <1>13, <1>14, <1>16 DEF AtomicityInv, TypeOK, ServerSide

\* The reply of a Transfer is taken off the queue and changes no vote.
LEMMA ConsumeTransferReplyInv ==
    ASSUME AtomicityInv, NEW r \in replies, consumeTransferReply(r),
           UNCHANGED serverVars
    PROVE  AtomicityInv'
<1>0. ClientSide /\ ServerSide
  BY TwoHalves
<1>1. /\ inCalls' = inCalls /\ replies' = replies \ {r} /\ decisions' = decisions
      /\ set_no' = set_no /\ to_inform' = to_inform /\ to_send' = to_send
      /\ forgotten' = forgotten /\ client_up' = client_up
      /\ processing' = processing /\ outcome' = outcome
      /\ acked' \in {acked, acked \cup {<<r.from, r.tid>>}}
  BY DEF consumeTransferReply
<1>2. r.from \in Server /\ r.tid \in Tid
  BY <1>0 DEF ClientSide, RpcTypeOK, Reply
<1>3. RpcTypeOK' /\ ClientTypeOK'
  BY <1>0, <1>1, <1>2 DEF ClientSide, RpcTypeOK, ClientTypeOK
<1>4. \A x \in Server, t \in Tid : Outstanding(x, t)' => Outstanding(x, t)
  BY <1>1 DEF Outstanding
<1>5. Issued' = Issued /\ \A t \in Tid : VotesCounted(t)' = VotesCounted(t)
  BY <1>1 DEF Issued, VotesCounted
<1>6. VotesConserved'
  BY <1>0, <1>1, <1>4, <1>5 DEF ClientSide, VotesConserved
<1>7. DecisionsFollowOutcome'
  BY <1>0, <1>1 DEF ClientSide, DecisionsFollowOutcome
<1>8. ServerSide'
  BY <1>0, <1>1, ServerFrame DEF SoundEntry
<1> QED
  BY <1>3, <1>6, <1>7, <1>8, TwoHalves DEF AtomicityInv, TypeOK, ServerSide

\* A vote is counted once, and the decision is taken on the second one, when
\* nothing is outstanding any more and nothing was decided before.
LEMMA ConsumePrepareReplyInv ==
    ASSUME AtomicityInv, NEW r \in replies, consumePrepareReply(r),
           UNCHANGED serverVars
    PROVE  AtomicityInv'
<1> DEFINE tid    == IF r.ok THEN r.tid ELSE NoTid
           vote   == r.ok /\ r.ack
           votes  == [processing[tid] EXCEPT
                        !.successes = IF vote THEN @ + 1 ELSE @,
                        !.failures = IF vote THEN @ ELSE @ + 1]
           commit == votes.successes = 2
           abort  == votes.failures > 0 /\ votes.successes + votes.failures = 2
<1>0. ClientSide /\ ServerSide
  BY TwoHalves
<1>1. /\ inCalls' = inCalls /\ replies' = replies \ {r}
      /\ set_no' = set_no /\ to_inform' = to_inform /\ to_send' = to_send
      /\ forgotten' = forgotten /\ client_up' = client_up
      /\ acked' \in {acked, acked \cup {<<r.from, r.tid>>}}
      /\ cross_shard(r.tid)
      /\ processing' = [processing EXCEPT ![tid] =
                          IF commit \/ abort THEN NoVotes ELSE votes]
      /\ decisions' = decisions \cup
                        (IF commit \/ abort THEN DecisionCalls(tid, commit) ELSE {})
      /\ outcome' = IF (commit \/ abort) /\ tid # NoTid
                    THEN [outcome EXCEPT ![tid] = IF commit THEN "commit" ELSE "abort"]
                    ELSE outcome
  BY DEF consumePrepareReply, mustCommit, mustAbort
<1>2. /\ r.from \in Server /\ r.tid \in Tid /\ r.tid # NoTid
      /\ r.ok \in BOOLEAN /\ r.ack \in BOOLEAN /\ NoTid \notin Tid
  BY <1>0, TxnAssumption DEF ClientSide, RpcTypeOK, Reply, NoTid
<1>3. /\ processing[tid] \in Votes
      /\ votes \in Votes
      /\ votes.successes + votes.failures =
            processing[tid].successes + processing[tid].failures + 1
      /\ NoVotes \in Votes /\ NoVotes.successes + NoVotes.failures = 0
  <2>1. processing[tid] \in Votes
    BY <1>0, <1>2 DEF ClientSide, ClientTypeOK
  <2>2. processing[tid].successes \in Nat /\ processing[tid].failures \in Nat
    BY <2>1 DEF Votes
  <2> DEFINE p == processing[tid]
             v == r.ok /\ r.ack
  <2>3. p \in Votes /\ p.successes \in Nat /\ p.failures \in Nat
    BY <2>1, <2>2
  <2>4. votes = [p EXCEPT !.successes = IF v THEN @ + 1 ELSE @,
                          !.failures = IF v THEN @ ELSE @ + 1]
    OBVIOUS
  <2>5. v \in BOOLEAN
    OBVIOUS
  <2> HIDE DEF p, v, votes
  <2>6. CASE v
    <3>1. votes = [successes |-> p.successes + 1, failures |-> p.failures]
      BY <2>3, <2>4, <2>6 DEF Votes
    <3> QED
      BY <2>3, <3>1 DEF Votes, NoVotes, p
  <2>7. CASE ~v
    <3>1. votes = [successes |-> p.successes, failures |-> p.failures + 1]
      BY <2>3, <2>4, <2>7 DEF Votes
    <3> QED
      BY <2>3, <3>1 DEF Votes, NoVotes, p
  <2> QED
    BY <2>5, <2>6, <2>7
<1>4. \A x \in Server, t \in Tid : Outstanding(x, t)' => Outstanding(x, t)
  BY <1>1 DEF Outstanding
<1>5. Issued' = Issued
  BY <1>1 DEF Issued
<1>6. /\ \A q \in replies' : <<q.from, q.tid>> \notin inCalls'
      /\ \A p, q \in replies' : p.from = q.from /\ p.tid = q.tid => p = q
  BY <1>0, <1>1 DEF ClientSide, VotesConserved
<1>7. CASE ~r.ok
  <2>1. tid = NoTid /\ outcome' = outcome
    BY <1>1, <1>7
  <2>2. decisions' = decisions
    BY <1>1, <2>1 DEF DecisionCalls
  <2>3. processing' \in [Tid \cup {NoTid} -> Votes]
    BY <1>0, <1>1, <1>3 DEF ClientSide, ClientTypeOK
  <2>4. \A t \in Tid : VotesCounted(t)' = VotesCounted(t)
    BY <1>0, <1>1, <1>2, <2>1 DEF VotesCounted, ClientSide, ClientTypeOK
  <2>5. RpcTypeOK' /\ ClientTypeOK'
    <3>1. /\ inCalls' = inCalls /\ replies' \subseteq replies
          /\ set_no' = set_no /\ to_inform' = to_inform /\ to_send' = to_send
          /\ forgotten' = forgotten /\ client_up' = client_up
      BY <1>1
    <3>2. RpcTypeOK'
      BY <1>0, <2>2, <3>1 DEF ClientSide, RpcTypeOK
    <3>3. acked' \subseteq Server \X Tid
      BY <1>0, <1>1, <1>2 DEF ClientSide, ClientTypeOK
    <3> HIDE DEF tid, votes, commit, abort
    <3>4. ClientTypeOK'
      BY <1>0, <2>1, <2>3, <3>1, <3>3 DEF ClientSide, ClientTypeOK
    <3> QED
      BY <3>2, <3>4
  <2>6. VotesConserved'
    BY <1>0, <1>4, <1>5, <1>6, <2>1, <2>4 DEF ClientSide, VotesConserved
  <2>7. DecisionsFollowOutcome'
    BY <1>0, <2>1, <2>2 DEF ClientSide, DecisionsFollowOutcome
  <2>8. ServerSide'
    BY <1>0, <2>1, ServerFrame DEF SoundEntry
  <2> QED
    BY <2>5, <2>6, <2>7, <2>8 DEF AtomicityInv, TypeOK, ServerSide
<1>8. CASE r.ok
  <2> DEFINE T == r.tid
  <2>1. tid = T /\ T \in Tid
    BY <1>2, <1>8
  <2>2. Outstanding(r.from, T)
    BY DEF Outstanding
  <2>3. outcome[T] = "none" /\ T \in Issued
    BY <1>0, <1>2, <2>2 DEF ClientSide, VotesConserved
  <2>4. ~Outstanding(r.from, T)'
    BY <1>0, <1>1 DEF ClientSide, VotesConserved, Outstanding
  <2>5. \A x \in Server : Outstanding(x, T)' => Outstanding(x, T) /\ x # r.from
    BY <1>2, <1>4, <2>4
  <2>6. /\ processing' \in [Tid \cup {NoTid} -> Votes]
        /\ processing'[T] = IF commit \/ abort THEN NoVotes ELSE votes
        /\ \A t \in Tid : t # T => processing'[t] = processing[t]
    BY <1>0, <1>1, <1>3, <2>1 DEF ClientSide, ClientTypeOK
  <2>7. \A t \in Tid : t # T => VotesCounted(t)' = VotesCounted(t)
    BY <2>6 DEF VotesCounted
  <2>8. votes.successes + votes.failures = VotesCounted(T) + 1
    BY <1>3, <2>1 DEF VotesCounted
  <2>9. votes.successes \in Nat /\ votes.failures \in Nat
    BY <1>3 DEF Votes
  <2>10. CASE VotesCounted(T) = 0
    <3>1. ~(commit \/ abort)
      BY <2>8, <2>9, <2>10
    <3> HIDE DEF commit, abort, votes
    <3>2. decisions' = decisions /\ outcome' = outcome
      BY <1>1, <3>1
    <3>3. VotesCounted(T)' = 1
      BY <2>6, <2>8, <2>10, <3>1 DEF VotesCounted
    <3>4. \A x, y \in Server : Outstanding(x, T)' /\ Outstanding(y, T)' => x = y
      BY <1>0, <1>2, <2>2, <2>5 DEF ClientSide, VotesConserved
    <3>5. RpcTypeOK' /\ ClientTypeOK'
      BY <1>0, <1>1, <1>2, <2>6, <3>2 DEF ClientSide, RpcTypeOK, ClientTypeOK
    <3>6. VotesConserved'
      <4>1. \A t \in Tid : VotesCounted(t)' # 0 =>
              /\ VotesCounted(t)' = 1
              /\ t \in Issued'
              /\ \A x, y \in Server : Outstanding(x, t)' /\ Outstanding(y, t)' => x = y
        BY <1>0, <1>4, <1>5, <2>3, <2>7, <3>3, <3>4 DEF ClientSide, VotesConserved
      <4>2. \A t \in Tid : outcome'[t] # "none" =>
              /\ VotesCounted(t)' = 0
              /\ t \in Issued'
              /\ cross_shard(t)
              /\ \A x \in Server : ~Outstanding(x, t)'
        BY <1>0, <1>4, <1>5, <2>3, <2>7, <3>2 DEF ClientSide, VotesConserved
      <4>3. \A t \in Tid : \A x, y, z \in Server :
              Outstanding(x, t)' /\ Outstanding(y, t)' /\ Outstanding(z, t)'
                  => x = y \/ x = z \/ y = z
        BY <1>0, <1>4 DEF ClientSide, VotesConserved
      <4>4. \A x \in Server, t \in Tid : Outstanding(x, t)' => t \in Issued'
        BY <1>0, <1>4, <1>5 DEF ClientSide, VotesConserved
      <4> QED
        BY <1>6, <4>1, <4>2, <4>3, <4>4 DEF VotesConserved
    <3>7. DecisionsFollowOutcome'
      BY <1>0, <3>2 DEF ClientSide, DecisionsFollowOutcome
    <3>8. ServerSide'
      BY <1>0, <3>2, ServerFrame DEF SoundEntry
    <3> QED
      BY <3>5, <3>6, <3>7, <3>8 DEF AtomicityInv, TypeOK, ServerSide
  <2>11. CASE VotesCounted(T) = 1
    <3>1. commit \/ abort
      BY <2>8, <2>9, <2>11
    <3>2. commit \in BOOLEAN
      OBVIOUS
    <3> HIDE DEF commit, abort, votes
    <3>3. /\ outcome' = [outcome EXCEPT ![T] = IF commit THEN "commit" ELSE "abort"]
          /\ decisions' = decisions \cup DecisionCalls(T, commit)
      BY <1>1, <1>2, <2>1, <3>1
    <3>4. VotesCounted(T)' = 0
      BY <1>3, <2>6, <3>1 DEF VotesCounted
    <3>5. \A x \in Server : ~Outstanding(x, T)'
      BY <1>0, <1>2, <2>2, <2>5, <2>11 DEF ClientSide, VotesConserved
    <3>6. outcome' \in [Tid -> {"none", "commit", "abort"}]
      BY <1>0, <3>3 DEF ClientSide, ClientTypeOK
    <3>7. \A t \in Tid : t # T => outcome'[t] = outcome[t]
      BY <1>0, <3>3 DEF ClientSide, ClientTypeOK
    <3>8. outcome'[T] = IF commit THEN "commit" ELSE "abort"
      BY <1>0, <2>1, <3>3 DEF ClientSide, ClientTypeOK
    <3>9. \A d \in DecisionCalls(T, commit) :
             d \in Decision /\ d.tid = T /\ d.is_commit = commit
      BY <2>1, <3>2 DEF DecisionCalls, Decision
    <3>10. RpcTypeOK' /\ ClientTypeOK'
      <4>1. decisions' \subseteq Decision
        BY <1>0, <3>3, <3>9 DEF ClientSide, RpcTypeOK
      <4> QED
        BY <1>0, <1>1, <1>2, <2>6, <3>6, <4>1 DEF ClientSide, RpcTypeOK, ClientTypeOK
    <3>11. VotesConserved'
      <4>1. \A t \in Tid : VotesCounted(t)' # 0 =>
              /\ VotesCounted(t)' = 1
              /\ t \in Issued'
              /\ \A x, y \in Server : Outstanding(x, t)' /\ Outstanding(y, t)' => x = y
        BY <1>0, <1>4, <1>5, <2>7, <3>4 DEF ClientSide, VotesConserved
      <4>2. \A t \in Tid : outcome'[t] # "none" =>
              /\ VotesCounted(t)' = 0
              /\ t \in Issued'
              /\ cross_shard(t)
              /\ \A x \in Server : ~Outstanding(x, t)'
        BY <1>0, <1>1, <1>4, <1>5, <2>3, <2>7, <3>4, <3>5, <3>7
           DEF ClientSide, VotesConserved
      <4>3. \A t \in Tid : \A x, y, z \in Server :
              Outstanding(x, t)' /\ Outstanding(y, t)' /\ Outstanding(z, t)'
                  => x = y \/ x = z \/ y = z
        BY <1>0, <1>4 DEF ClientSide, VotesConserved
      <4>4. \A x \in Server, t \in Tid : Outstanding(x, t)' => t \in Issued'
        BY <1>0, <1>4, <1>5 DEF ClientSide, VotesConserved
      <4> QED
        BY <1>6, <4>1, <4>2, <4>3, <4>4 DEF VotesConserved
    <3>12. DecisionsFollowOutcome'
      <4> SUFFICES ASSUME NEW d \in decisions'
                   PROVE outcome'[d.tid] = IF d.is_commit THEN "commit" ELSE "abort"
        BY DEF DecisionsFollowOutcome
      <4>1. CASE d \in decisions
        <5>1. d.tid \in Tid /\ d.tid # T
          BY <1>0, <2>3, <4>1 DEF ClientSide, RpcTypeOK, Decision, DecisionsFollowOutcome
        <5> QED
          BY <1>0, <3>7, <4>1, <5>1 DEF ClientSide, DecisionsFollowOutcome
      <4>2. CASE d \in DecisionCalls(T, commit)
        BY <3>8, <3>9, <4>2
      <4> QED
        BY <3>3, <4>1, <4>2
    <3>13. SoundEntry \subseteq SoundEntry'
      BY <2>3, <3>7 DEF SoundEntry, WALEntry
    <3>14. ServerSide'
      BY <1>0, <3>13, ServerFrame
    <3> QED
      BY <3>10, <3>11, <3>12, <3>14 DEF AtomicityInv, TypeOK, ServerSide
  <2> QED
    BY <1>0, <2>1, <2>10, <2>11 DEF ClientSide, VotesConserved
<1> QED
  BY <1>7, <1>8

-----------------------------------------------------------------------------
(* The servers' steps *)

\* The types of what is kept next to the log.
StoreType ==
    /\ prepared \in [Server -> SUBSET WALEntry]
    /\ DOMAIN balances = Server
    /\ \A s \in Server : DOMAIN balances[s] = Shard(s)
    /\ last_inserted \in [Server -> Index]
    /\ last_inserted_ballot \in [Server -> Ballot]

\* The types of the rest, but for calls and rounds.
FlagsType ==
    /\ locks \in [Server -> SUBSET ClientId]
    /\ in_sync \in [Server -> BOOLEAN]
    /\ i_am_disconnected \in [Server -> BOOLEAN]
    /\ crashed \in [Server -> BOOLEAN]

\* The servers' half of the invariant, part by part.
LEMMA ServerParts ==
    ASSUME AtomicityInv
    PROVE  /\ ClientSide /\ StoreType /\ FlagsType /\ RoundsStarted
           /\ acceptor \in [Server -> Acceptor] /\ round \in [Server -> Round]
           /\ log \in [Server -> Seq(SoundEntry)]
           /\ chan \in [Server -> [Server -> Seq(SoundCall)]]
  BY DEF AtomicityInv, TypeOK, ServerTypeOK, ClientSide, StoreType, FlagsType

\* The parts make the whole after a step that does not change which entries
\* and calls are sound.
LEMMA ServerStep ==
    ASSUME ClientSide', SoundEntry' = SoundEntry, SoundCall' = SoundCall,
           StoreType', FlagsType', RoundsStarted',
           acceptor' \in [Server -> Acceptor], round' \in [Server -> Round],
           log' \in [Server -> Seq(SoundEntry)],
           chan' \in [Server -> [Server -> Seq(SoundCall)]]
    PROVE  AtomicityInv'
<1>1. log' \in [Server -> Seq(WALEntry)]
  <2>1. SoundEntry \subseteq WALEntry
    BY DEF SoundEntry
  <2>2. \A s \in Server : log'[s] \in Seq(WALEntry)
    BY <2>1, SeqMonotonic
  <2> QED
    BY <2>2
<1>2. chan' \in [Server -> [Server -> Seq(OutCall)]]
  <2>1. SoundCall \subseteq OutCall
    BY DEF SoundCall
  <2>2. \A s, t \in Server : chan'[s][t] \in Seq(OutCall)
    BY <2>1, SeqMonotonic
  <2> QED
    BY <2>2
<1>3. ServerTypeOK'
  BY <1>1, <1>2 DEF ServerTypeOK, StoreType, FlagsType
<1> QED
  BY <1>3 DEF AtomicityInv, TypeOK, ClientSide

\* The stubs of a server are servers.
LEMMA StubsAreServers ==
    \A s \in Server : stubs(s) \subseteq Server
  BY DEF stubs, getServersInCluster

\* The replies without log entries.
LEMMA PlainReplies ==
    /\ Nack \in Response /\ Nack.logs = <<>>
    /\ Ack \in Response /\ Ack.logs = <<>>
    /\ <<>> \in Seq(SoundEntry)
<1>1. <<>> \in Seq(SoundEntry) /\ <<>> \in Seq(WALEntry)
  OBVIOUS
<1>2. NoBallot \in Ballot /\ NoInserted \in Index /\ NoLatest \in Nat
  BY DEF NoBallot, Ballot, NoInserted, Index, NoLatest
<1>3. Nack \in Response /\ Nack.logs = <<>>
  BY <1>1, <1>2 DEF Nack, Response
<1>4. Ack \in Response /\ Ack.logs = <<>>
  BY <1>3 DEF Ack, Response
<1> QED
  BY <1>1, <1>3, <1>4

\* A call that the code sends is sound.
LEMMA NewCallSound ==
    ASSUME NEW type \in CallType, NEW b \in Ballot, NEW li \in Index,
           NEW tid \in Tid \cup {NoTid},
           type \in {"ACCEPT", "COMMIT"} => b.num # 0,
           type = "ACCEPT" => tid \in Tid
    PROVE  NewCall(type, b, li, tid) \in SoundCall
<1>1. [ballot |-> b, last_inserted |-> li, r |-> tid] \in Request
  BY DEF Request
<1>2. NewCall(type, b, li, tid) \in OutCall
  BY <1>1, PlainReplies DEF NewCall, OutCall
<1> QED
  BY <1>2, PlainReplies DEF SoundCall, NewCall

\* Answering a call with sound log entries leaves a queue of sound calls.
LEMMA AnsweredSound ==
    ASSUME NEW s \in Server, NEW t \in Server, chan[s][t] \in Seq(SoundCall),
           NEW i \in DOMAIN chan[s][t], NEW res \in Response,
           res.logs \in Seq(SoundEntry)
    PROVE  Answered(s, t, i, res) \in Seq(SoundCall)
<1> DEFINE q == chan[s][t]
           c == [q[i] EXCEPT !.stage = "reply", !.res = res]
<1>1. i \in 1 .. Len(q) /\ q[i] \in SoundCall
  BY ElementOfSeq
<1>2. c \in SoundCall
  BY <1>1 DEF SoundCall, OutCall
<1>3. [q EXCEPT ![i] = c] \in Seq(SoundCall)
  BY <1>1, <1>2, ExceptSeq
<1>4. [q EXCEPT ![i].stage = "reply", ![i].res = res] = [q EXCEPT ![i] = c]
  BY <1>1
<1>5. RemoveAt(q, i) \in Seq(SoundCall)
  BY RemoveAtType
<1> QED
  BY <1>3, <1>4, <1>5 DEF Answered

\* A PREPARED entry says nothing of the outcome.
LEMMA PrepareTransactionSound ==
    ASSUME StoreType, log \in [Server -> Seq(SoundEntry)],
           NEW s \in Server, NEW tid \in Tid, NEW b \in Ballot,
           prepareTransaction(s, tid, b)
    PROVE  StoreType' /\ log' \in [Server -> Seq(SoundEntry)]
<1> DEFINE e == Entry(tid, b, "PREPARED")
<1>1. e \in WALEntry /\ e \in SoundEntry
  BY DEF Entry, WALEntry, Status, SoundEntry
<1>2. Len(log[s]) \in Index
  BY LenProperties DEF Index
<1>3. Append(log[s], e) \in Seq(SoundEntry)
  BY <1>1
<1> QED
  BY <1>1, <1>2, <1>3 DEF prepareTransaction, StoreType

\* An intra-shard transaction is committed without the coordinator.
LEMMA CommitTransactionSound ==
    ASSUME StoreType, log \in [Server -> Seq(SoundEntry)],
           NEW s \in Server, NEW tid \in Tid, NEW b \in Ballot,
           ~cross_shard(tid), commitTransaction(s, tid, b)
    PROVE  StoreType' /\ log' \in [Server -> Seq(SoundEntry)]
<1> DEFINE e == Entry(tid, b, "COMMITTED")
<1>1. e \in SoundEntry
  BY DEF Entry, WALEntry, Status, SoundEntry
<1>2. Len(log[s]) \in Index
  BY LenProperties DEF Index
<1>3. Append(log[s], e) \in Seq(SoundEntry)
  BY <1>1
<1>4. DOMAIN balances' = Server /\ \A x \in Server : DOMAIN balances'[x] = Shard(x)
  BY DEF commitTransaction, StoreType
<1> QED
  BY <1>2, <1>3, <1>4 DEF commitTransaction, StoreType

\* runPaxos starts a round with a ballot number that is not 0.
LEMMA StartRoundInv ==
    ASSUME AtomicityInv, NEW s \in Server, NEW tid \in Tid,
           startRound(s, tid), UNCHANGED clientVars
    PROVE  AtomicityInv'
<1> DEFINE b == [num |-> acceptor[s].ballot_num + 1, server_id |-> s]
<1>0. /\ ClientSide /\ StoreType /\ FlagsType /\ RoundsStarted
      /\ acceptor \in [Server -> Acceptor] /\ round \in [Server -> Round]
      /\ log \in [Server -> Seq(SoundEntry)]
      /\ chan \in [Server -> [Server -> Seq(SoundCall)]]
  BY ServerParts
<1>1. ClientSide' /\ SoundEntry' = SoundEntry /\ SoundCall' = SoundCall
  BY <1>0, ClientFrame DEF startRound
<1>2. b \in Ballot /\ b.num # 0
  BY <1>0 DEF Acceptor, Ballot
<1>3. /\ acceptor' = [acceptor EXCEPT ![s].ballot_num = b.num,
                                      ![s].promised = TRUE,
                                      ![s].promised_num = b]
      /\ round' = [round EXCEPT ![s].paxos_tid = tid,
                                ![s].await_prepare_decision = TRUE,
                                ![s].prepare_successes = 1,
                                ![s].prepare_failures = 0]
      /\ SendAll(s, prepareCall(b, last_inserted[s]))
  BY DEF startRound
<1> HIDE DEF b
<1>4. acceptor' \in [Server -> Acceptor] /\ round' \in [Server -> Round]
  <2> DEFINE a == [acceptor[s] EXCEPT !.ballot_num = b.num, !.promised = TRUE,
                                      !.promised_num = b]
             r == [round[s] EXCEPT !.paxos_tid = tid, !.await_prepare_decision = TRUE,
                                   !.prepare_successes = 1, !.prepare_failures = 0]
  <2>1. acceptor' = [acceptor EXCEPT ![s] = a] /\ round' = [round EXCEPT ![s] = r]
    BY <1>0, <1>3
  <2>2. a \in Acceptor
    <3>1. b.num \in Nat
      BY <1>2 DEF Ballot
    <3> QED
      BY <1>0, <1>2, <3>1 DEF Acceptor
  <2>3. r \in Round
    BY <1>0 DEF Round
  <2> QED
    BY <1>0, <2>1, <2>2, <2>3
<1>5. RoundsStarted'
  BY <1>0, <1>2, <1>3 DEF RoundsStarted, Acceptor, Round
<1>6. prepareCall(b, last_inserted[s]) \in SoundCall
  BY <1>0, <1>2, NewCallSound DEF prepareCall, CallType, StoreType
<1>7. chan' \in [Server -> [Server -> Seq(SoundCall)]]
  BY <1>0, <1>3, <1>6, SendAllType
<1>8. StoreType' /\ FlagsType' /\ log' = log
  BY <1>0 DEF startRound, storeVars, StoreType, FlagsType
<1> QED
  BY <1>0, <1>1, <1>4, <1>5, <1>7, <1>8, ServerStep

\* The record updates at the end of a round keep the types.
LEMMA EndRoundType ==
    /\ \A r \in Round : [r EXCEPT !.await_prepare_decision = FALSE,
                               !.await_accept_decision = FALSE,
                               !.paxos_tid = NotRunning] \in Round
    /\ \A a \in Acceptor :
          [a EXCEPT !.promised = FALSE, !.accepted = FALSE] \in Acceptor
<1>1. ASSUME NEW r \in Round
      PROVE  [r EXCEPT !.await_prepare_decision = FALSE,
                       !.await_accept_decision = FALSE,
                       !.paxos_tid = NotRunning] \in Round
  BY DEF Round
<1>2. ASSUME NEW a \in Acceptor
      PROVE  [a EXCEPT !.promised = FALSE, !.accepted = FALSE] \in Acceptor
  BY DEF Acceptor
<1> QED
  BY <1>1, <1>2

\* A round that ends, with or without a decision, is not waiting any more.
LEMMA EndRoundSound ==
    ASSUME round \in [Server -> Round], RoundsStarted, NEW s \in Server,
           EndRound(s), acceptor \in [Server -> Acceptor],
           acceptor' \in {acceptor,
              [acceptor EXCEPT ![s].promised = FALSE, ![s].accepted = FALSE]}
    PROVE  /\ round' \in [Server -> Round] /\ RoundsStarted'
           /\ acceptor' \in [Server -> Acceptor]
<1>1. round' \in [Server -> Round]
  <2> DEFINE r == [round[s] EXCEPT !.await_prepare_decision = FALSE,
                                   !.await_accept_decision = FALSE,
                                   !.paxos_tid = NotRunning]
  <2>1. round' = [round EXCEPT ![s] = r]
    BY DEF EndRound
  <2>2. r \in Round
    BY EndRoundType
  <2> QED
    BY <2>1, <2>2
<1>2. acceptor' \in [Server -> Acceptor]
  <2> DEFINE a == [acceptor[s] EXCEPT !.promised = FALSE, !.accepted = FALSE]
  <2>1. acceptor' \in {acceptor, [acceptor EXCEPT ![s] = a]}
    OBVIOUS
  <2>2. a \in Acceptor
    BY EndRoundType
  <2> QED
    BY <2>1, <2>2
<1>3. \A x \in Server : /\ acceptor'[x].accept_num = acceptor[x].accept_num
                        /\ acceptor'[x].promised_num = acceptor[x].promised_num
                        /\ acceptor'[x].accept_val = acceptor[x].accept_val
  BY DEF Acceptor
<1>4. \A x \in Server :
         /\ round'[x].await_prepare_decision => round[x].await_prepare_decision
         /\ round'[x].await_accept_decision => round[x].await_accept_decision
  BY DEF EndRound, Round
<1> QED
  BY <1>1, <1>2, <1>3, <1>4 DEF RoundsStarted

\* A round that ends with a reply to the client and nothing else.
LEMMA RoundFailsInv ==
    ASSUME AtomicityInv, NEW s \in Server, NEW tid \in Tid,
           \/ rejectTransaction(s, tid)
           \/ prepareFailed(s, tid)
           \/ acceptFailed(s, tid),
           UNCHANGED clientVars
    PROVE  AtomicityInv'
<1>0. /\ ClientSide /\ StoreType /\ FlagsType /\ RoundsStarted
      /\ acceptor \in [Server -> Acceptor] /\ round \in [Server -> Round]
      /\ log \in [Server -> Seq(SoundEntry)]
      /\ chan \in [Server -> [Server -> Seq(SoundCall)]]
  BY ServerParts
<1>1. /\ MayRun(s, tid) /\ EndRound(s) /\ Finish(s, tid, FALSE)
      /\ UNCHANGED <<acceptor, storeVars, in_sync, i_am_disconnected, crashed, chan>>
      /\ \/ locks' = locks
         \/ locks' = [locks EXCEPT ![s] = IF cross_shard(tid) THEN @ ELSE @ \ Accounts(tid)]
  BY DEF rejectTransaction, prepareFailed, acceptFailed, PrepareDecided
<1>2. ClientSide' /\ SoundEntry' = SoundEntry /\ SoundCall' = SoundCall
  BY <1>0, <1>1, CallEnds DEF MayRun, Finish
<1>3. /\ round' \in [Server -> Round] /\ RoundsStarted'
      /\ acceptor' \in [Server -> Acceptor]
  BY <1>0, <1>1, EndRoundSound
<1>4. locks' \in [Server -> SUBSET ClientId]
  <2>1. locks \in [Server -> SUBSET ClientId]
    BY <1>0 DEF FlagsType
  <2>2. (IF cross_shard(tid) THEN locks[s] ELSE locks[s] \ Accounts(tid)) \in SUBSET ClientId
    BY <2>1
  <2> QED
    BY <1>1, <2>1, <2>2
<1>5. StoreType' /\ FlagsType' /\ log' = log /\ chan' = chan
  BY <1>0, <1>1, <1>4 DEF storeVars, StoreType, FlagsType
<1> QED
  BY <1>0, <1>2, <1>3, <1>5, ServerStep

\* The transaction proposed is one that the client issued.
LEMMA ProposeTransactionInv ==
    ASSUME AtomicityInv, NEW s \in Server, NEW tid \in Tid,
           proposeTransaction(s, tid), UNCHANGED clientVars
    PROVE  AtomicityInv'
<1> DEFINE b == acceptor[s].promised_num
<1>0. /\ ClientSide /\ StoreType /\ FlagsType /\ RoundsStarted
      /\ acceptor \in [Server -> Acceptor] /\ round \in [Server -> Round]
      /\ log \in [Server -> Seq(SoundEntry)]
      /\ chan \in [Server -> [Server -> Seq(SoundCall)]]
  BY ServerParts
<1>1. ClientSide' /\ SoundEntry' = SoundEntry /\ SoundCall' = SoundCall
  BY <1>0, ClientFrame DEF proposeTransaction
<1>2. b \in Ballot /\ b.num # 0
  BY <1>0 DEF Acceptor, RoundsStarted, proposeTransaction, PrepareDecided
<1>3. /\ acceptor' = [acceptor EXCEPT ![s].accepted = TRUE,
                                      ![s].accept_num = b,
                                      ![s].accept_val = tid]
      /\ round' = [round EXCEPT ![s].await_prepare_decision = FALSE,
                                ![s].await_accept_decision = TRUE,
                                ![s].accept_successes = 1,
                                ![s].accept_failures = 0]
      /\ SendAll(s, acceptCall(b, tid))
      /\ prepareTransaction(s, tid, b) \/ UNCHANGED storeVars
      /\ locks' = [locks EXCEPT ![s] =
                     @ \cup HeldAccounts(s, tid) \cup {Txn[tid].receiver}]
      /\ UNCHANGED <<in_sync, i_am_disconnected, crashed>>
  BY DEF proposeTransaction
<1>4. HeldAccounts(s, tid) \subseteq ClientId /\ Txn[tid].receiver \in ClientId
  BY TxnAssumption DEF HeldAccounts, Accounts, Transaction
<1> HIDE DEF b
<1>5. acceptor' \in [Server -> Acceptor] /\ round' \in [Server -> Round]
  <2> DEFINE a == [acceptor[s] EXCEPT !.accepted = TRUE, !.accept_num = b,
                                      !.accept_val = tid]
             r == [round[s] EXCEPT !.await_prepare_decision = FALSE,
                                   !.await_accept_decision = TRUE,
                                   !.accept_successes = 1, !.accept_failures = 0]
  <2>1. acceptor' = [acceptor EXCEPT ![s] = a] /\ round' = [round EXCEPT ![s] = r]
    BY <1>0, <1>3
  <2>2. a \in Acceptor
    BY <1>0, <1>2 DEF Acceptor
  <2>3. r \in Round
    BY <1>0 DEF Round
  <2> QED
    BY <1>0, <2>1, <2>2, <2>3
<1>6. RoundsStarted'
  BY <1>0, <1>2, <1>3 DEF RoundsStarted, Acceptor, Round
<1>7. acceptCall(b, tid) \in SoundCall
  <2>1. NoInserted \in Index
    BY DEF NoInserted, Index
  <2> QED
    BY <1>2, <2>1, NewCallSound DEF acceptCall, CallType
<1>8. chan' \in [Server -> [Server -> Seq(SoundCall)]]
  BY <1>0, <1>3, <1>7, SendAllType
<1>9. StoreType' /\ log' \in [Server -> Seq(SoundEntry)]
  <2>1. CASE prepareTransaction(s, tid, b)
    BY <1>0, <1>2, <2>1, PrepareTransactionSound
  <2>2. CASE UNCHANGED storeVars
    BY <1>0, <2>2 DEF storeVars, StoreType
  <2> QED
    BY <1>3, <2>1, <2>2
<1>10. FlagsType'
  BY <1>0, <1>3, <1>4 DEF FlagsType
<1> QED
  BY <1>1, <1>5, <1>6, <1>8, <1>9, <1>10, ServerStep

\* A majority accepted: an intra-shard transaction is committed at once.
LEMMA ChooseTransactionInv ==
    ASSUME AtomicityInv, NEW s \in Server, NEW tid \in Tid,
           chooseTransaction(s, tid), UNCHANGED clientVars
    PROVE  AtomicityInv'
<1> DEFINE b == acceptor[s].accept_num
<1>0. /\ ClientSide /\ StoreType /\ FlagsType /\ RoundsStarted
      /\ acceptor \in [Server -> Acceptor] /\ round \in [Server -> Round]
      /\ log \in [Server -> Seq(SoundEntry)]
      /\ chan \in [Server -> [Server -> Seq(SoundCall)]]
  BY ServerParts
<1>1. /\ MayRun(s, tid) /\ EndRound(s) /\ Finish(s, tid, TRUE)
      /\ UNCHANGED <<in_sync, i_am_disconnected, crashed>>
      /\ SendAll(s, commitCall(b))
      /\ \/ UNCHANGED <<storeVars, locks>>
         \/ /\ ~cross_shard(tid)
            /\ locks' = [locks EXCEPT ![s] = @ \ Accounts(tid)]
            /\ commitTransaction(s, tid, b)
      /\ acceptor' = [acceptor EXCEPT ![s].promised = FALSE, ![s].accepted = FALSE]
  BY DEF chooseTransaction, AcceptDecided
<1>2. ClientSide' /\ SoundEntry' = SoundEntry /\ SoundCall' = SoundCall
  BY <1>0, <1>1, CallEnds DEF MayRun, Finish
<1>3. /\ round' \in [Server -> Round] /\ RoundsStarted'
      /\ acceptor' \in [Server -> Acceptor]
  BY <1>0, <1>1, EndRoundSound
<1>4. b \in Ballot /\ b.num # 0
  BY <1>0 DEF Acceptor, RoundsStarted, chooseTransaction, AcceptDecided
<1> HIDE DEF b
<1>5. commitCall(b) \in SoundCall
  <2>1. NoInserted \in Index
    BY DEF NoInserted, Index
  <2> QED
    BY <1>4, <2>1, NewCallSound DEF commitCall, CallType
<1>6. chan' \in [Server -> [Server -> Seq(SoundCall)]]
  BY <1>0, <1>1, <1>5, SendAllType
<1>7. StoreType' /\ log' \in [Server -> Seq(SoundEntry)]
  <2>1. CASE ~cross_shard(tid) /\ commitTransaction(s, tid, b)
    BY <1>0, <1>4, <2>1, CommitTransactionSound
  <2>2. CASE UNCHANGED <<storeVars, locks>>
    BY <1>0, <2>2 DEF storeVars, StoreType
  <2> QED
    BY <1>1, <2>1, <2>2
<1>8. FlagsType'
  BY <1>0, <1>1 DEF FlagsType
<1> QED
  BY <1>2, <1>3, <1>6, <1>7, <1>8, ServerStep

\* The record updates of a promise and of an acceptance keep the types.
LEMMA AcceptorType ==
    /\ \A a \in Acceptor, b \in Ballot, n \in Nat, ack \in BOOLEAN :
          [a EXCEPT !.promised = @ \/ ack,
                    !.promised_num = IF ack THEN b ELSE @,
                    !.ballot_num = n] \in Acceptor
    /\ \A a \in Acceptor, b \in Ballot, tid \in Tid :
          [a EXCEPT !.accepted = TRUE, !.accept_num = b, !.accept_val = tid] \in Acceptor
<1>1. ASSUME NEW a \in Acceptor, NEW b \in Ballot, NEW n \in Nat, NEW ack \in BOOLEAN
      PROVE  [a EXCEPT !.promised = @ \/ ack,
                       !.promised_num = IF ack THEN b ELSE @,
                       !.ballot_num = n] \in Acceptor
  <2> DEFINE p == a.promised \/ ack
             m == IF ack THEN b ELSE a.promised_num
  <2>1. p \in BOOLEAN /\ m \in Ballot
    BY DEF Acceptor
  <2> HIDE DEF p, m
  <2>2. [a EXCEPT !.promised = p, !.promised_num = m, !.ballot_num = n] \in Acceptor
    BY <2>1 DEF Acceptor
  <2> QED
    BY <2>2 DEF p, m, Acceptor
<1>2. ASSUME NEW a \in Acceptor, NEW b \in Ballot, NEW tid \in Tid
      PROVE  [a EXCEPT !.accepted = TRUE, !.accept_num = b, !.accept_val = tid] \in Acceptor
  BY DEF Acceptor
<1> QED
  BY <1>1, <1>2

\* The call that arrives is a sound one.
LEMMA ArrivingCall ==
    ASSUME chan \in [Server -> [Server -> Seq(SoundCall)]],
           NEW s \in Server, NEW t \in Server, NEW i \in DOMAIN chan[s][t]
    PROVE  /\ chan[s][t] \in Seq(SoundCall)
           /\ chan[s][t][i] \in SoundCall
           /\ chan[s][t][i].req \in Request
           /\ chan[s][t][i].req.ballot \in Ballot
           /\ chan[s][t][i].req.last_inserted \in Index
<1>1. chan[s][t] \in Seq(SoundCall) /\ i \in 1 .. Len(chan[s][t])
  OBVIOUS
<1>2. chan[s][t][i] \in SoundCall
  BY <1>1, ElementOfSeq
<1>3. chan[s][t][i].req \in Request
  BY <1>2 DEF SoundCall, OutCall
<1> QED
  BY <1>1, <1>2, <1>3 DEF Request

\* A promise is made only to a ballot number above one of its own.
LEMMA ProcessPrepareCallInv ==
    ASSUME AtomicityInv, NEW s \in Server, NEW t \in Server,
           NEW i \in DOMAIN chan[s][t],
           processPrepareCall(s, t, i), UNCHANGED clientVars
    PROVE  AtomicityInv'
<1> DEFINE req   == chan[s][t][i].req
           newer == ~i_am_disconnected[t] /\ req.ballot.num > acceptor[t].ballot_num
           ack   == newer /\ req.last_inserted = last_inserted[t]
           sync  == newer /\ req.last_inserted > last_inserted[t]
           num   == IF ack THEN req.ballot.num ELSE acceptor[t].ballot_num
           lbn   == IF ~ack /\ ~i_am_disconnected[t] /\ req.ballot.num =< num
                    THEN num ELSE NoLatest
           li    == IF ~ack /\ ~i_am_disconnected[t]
                         /\ req.last_inserted < last_inserted[t]
                    THEN last_inserted[t] ELSE NoInserted
           res   == [Nack EXCEPT !.ack = ack, !.latest_ballot_num = lbn,
                                 !.last_inserted = li]
<1>0. /\ ClientSide /\ StoreType /\ FlagsType /\ RoundsStarted
      /\ acceptor \in [Server -> Acceptor] /\ round \in [Server -> Round]
      /\ log \in [Server -> Seq(SoundEntry)]
      /\ chan \in [Server -> [Server -> Seq(SoundCall)]]
  BY ServerParts
<1>1. ClientSide' /\ SoundEntry' = SoundEntry /\ SoundCall' = SoundCall
  BY <1>0, ClientFrame DEF processPrepareCall
<1>2. /\ chan[s][t] \in Seq(SoundCall) /\ req.ballot \in Ballot
      /\ req.ballot.num \in Nat
  BY <1>0, ArrivingCall DEF Ballot
<1>3. /\ acceptor' = [acceptor EXCEPT
                        ![t].promised = @ \/ ack,
                        ![t].promised_num = IF ack THEN req.ballot ELSE @,
                        ![t].ballot_num = num]
      /\ in_sync' = [in_sync EXCEPT ![t] = @ \/ sync]
      /\ chan' = [chan EXCEPT
                    ![s][t] = Answered(s, t, i, res),
                    ![t][s] = IF sync THEN Append(@, syncCall(last_inserted[t])) ELSE @]
      /\ UNCHANGED <<round, storeVars, locks, i_am_disconnected, crashed>>
  BY DEF processPrepareCall, Promises, IsNewer
<1>4. /\ ack \in BOOLEAN /\ sync \in BOOLEAN
      /\ ack => req.ballot.num > acceptor[t].ballot_num
      /\ acceptor[t].ballot_num \in Nat /\ last_inserted[t] \in Index
  BY <1>0 DEF Acceptor, StoreType
<1>5. num \in Nat /\ lbn \in Nat /\ li \in Index
  BY <1>2, <1>4 DEF NoLatest, NoInserted, Index
<1> HIDE DEF ack, sync
<1>6. ack => req.ballot.num # 0
  BY <1>2, <1>4
<1> HIDE DEF req, num, lbn, li
<1>7. res \in Response /\ res.logs = <<>>
  BY <1>4, <1>5, PlainReplies DEF Response
<1> HIDE DEF res
<1>8. chan' \in [Server -> [Server -> Seq(SoundCall)]]
  <2> DEFINE q == Answered(s, t, i, res)
             c == syncCall(last_inserted[t])
  <2>1. q \in Seq(SoundCall)
    BY <1>2, <1>7, AnsweredSound, PlainReplies
  <2>2. c \in SoundCall
    <3>1. NoBallot \in Ballot
      BY DEF NoBallot, Ballot
    <3> QED
      BY <1>4, <3>1, NewCallSound DEF syncCall, CallType
  <2>3. chan' = [chan EXCEPT ![s][t] = q, ![t][s] = IF sync THEN Append(@, c) ELSE @]
    BY <1>3
  <2>4. sync \in BOOLEAN /\ chan \in [Server -> [Server -> Seq(SoundCall)]]
    BY <1>0, <1>4
  <2> HIDE DEF q, c
  <2> DEFINE h == [chan EXCEPT ![s][t] = q, ![t][s] = IF sync THEN Append(@, c) ELSE @]
  <2>5. /\ h = [x \in Server |-> h[x]]
        /\ \A x \in Server : h[x] = [y \in Server |-> h[x][y]]
    BY <2>4
  <2>6. \A x, y \in Server : h[x][y] \in Seq(SoundCall)
    <3> DEFINE Q == Seq(SoundCall)
    <3>1. q \in Q /\ (\A r \in Q : Append(r, c) \in Q) /\ chan \in [Server -> [Server -> Q]]
      BY <2>1, <2>2, <2>4
    <3> HIDE DEF Q
    <3>2. \A x, y \in Server : h[x][y] \in Q
      <4>1. CASE sync
        BY <3>1, <4>1
      <4>2. CASE ~sync
        BY <3>1, <4>2
      <4> QED
        BY <4>1, <4>2
    <3> QED
      BY <3>2 DEF Q
  <2>7. chan' = h
    BY <2>3
  <2> HIDE DEF h
  <2>8. \A x \in Server : h[x] \in [Server -> Seq(SoundCall)]
    BY <2>5, <2>6
  <2> QED
    BY <2>5, <2>7, <2>8
<1>9. acceptor' \in [Server -> Acceptor]
  <2> DEFINE a == [acceptor[t] EXCEPT
                     !.promised = @ \/ ack,
                     !.promised_num = IF ack THEN req.ballot ELSE @,
                     !.ballot_num = num]
  <2>1. acceptor' = [acceptor EXCEPT ![t] = a]
    BY <1>0, <1>3
  <2>2. a \in Acceptor
    BY <1>0, <1>2, <1>4, <1>5, AcceptorType
  <2> QED
    BY <1>0, <2>1, <2>2
<1>10. RoundsStarted'
  <2>1. \A x \in Server :
          /\ acceptor'[x].accept_num = acceptor[x].accept_num
          /\ acceptor'[x].accept_val = acceptor[x].accept_val
          /\ acceptor'[x].promised_num = acceptor[x].promised_num
               \/ acceptor'[x].promised_num.num # 0
    BY <1>0, <1>3, <1>6 DEF Acceptor
  <2>2. round' = round
    BY <1>3
  <2> QED
    BY <1>0, <2>1, <2>2 DEF RoundsStarted
<1>11. StoreType' /\ log' = log
  BY <1>0, <1>3 DEF storeVars, StoreType
<1>12. FlagsType'
  BY <1>0, <1>3, <1>4 DEF FlagsType
<1> QED
  BY <1>0, <1>1, <1>3, <1>8, <1>9, <1>10, <1>11, <1>12, ServerStep

\* What is accepted is a transaction that a leader proposed.
LEMMA ProcessAcceptCallInv ==
    ASSUME AtomicityInv, NEW s \in Server, NEW t \in Server,
           NEW i \in DOMAIN chan[s][t],
           processAcceptCall(s, t, i), UNCHANGED clientVars
    PROVE  AtomicityInv'
<1> DEFINE req == chan[s][t][i].req
<1>0. /\ ClientSide /\ StoreType /\ FlagsType /\ RoundsStarted
      /\ acceptor \in [Server -> Acceptor] /\ round \in [Server -> Round]
      /\ log \in [Server -> Seq(SoundEntry)]
      /\ chan \in [Server -> [Server -> Seq(SoundCall)]]
  BY ServerParts
<1>1. ClientSide' /\ SoundEntry' = SoundEntry /\ SoundCall' = SoundCall
  BY <1>0, ClientFrame DEF processAcceptCall
<1>2. /\ chan[s][t] \in Seq(SoundCall) /\ req.ballot \in Ballot
      /\ req.ballot.num # 0 /\ req.r \in Tid
  <2>1. chan[s][t] \in Seq(SoundCall) /\ req.ballot \in Ballot
    BY <1>0, ArrivingCall
  <2>2. chan[s][t][i] \in SoundCall /\ chan[s][t][i].type = "ACCEPT"
    BY <1>0, ArrivingCall DEF processAcceptCall, Arrives
  <2> QED
    BY <2>1, <2>2 DEF SoundCall
<1>3. UNCHANGED <<round, in_sync, i_am_disconnected, crashed>>
  BY DEF processAcceptCall
<1>4. \/ /\ acceptor' = [acceptor EXCEPT ![t].accepted = TRUE,
                                         ![t].accept_num = req.ballot,
                                         ![t].accept_val = req.r]
         /\ locks' = [locks EXCEPT ![t] = @ \cup HeldAccounts(t, req.r)]
         /\ prepareTransaction(t, req.r, req.ballot) \/ UNCHANGED storeVars
         /\ chan' = [chan EXCEPT ![s][t] = Answered(s, t, i, Ack)]
      \/ /\ chan' = [chan EXCEPT ![s][t] = Answered(s, t, i, Nack)]
         /\ UNCHANGED <<acceptor, locks, storeVars>>
  BY DEF processAcceptCall
<1> HIDE DEF req
<1>5. Answered(s, t, i, Ack) \in Seq(SoundCall) /\ Answered(s, t, i, Nack) \in Seq(SoundCall)
  BY <1>2, AnsweredSound, PlainReplies
<1>6. CASE /\ chan' = [chan EXCEPT ![s][t] = Answered(s, t, i, Nack)]
           /\ UNCHANGED <<acceptor, locks, storeVars>>
  <2>1. chan' \in [Server -> [Server -> Seq(SoundCall)]]
    BY <1>0, <1>5, <1>6, QueueUpdateType
  <2>2. RoundsStarted' /\ StoreType' /\ FlagsType' /\ log' = log
    BY <1>0, <1>3, <1>6 DEF RoundsStarted, StoreType, FlagsType, storeVars
  <2> QED
    BY <1>0, <1>1, <1>3, <1>6, <2>1, <2>2, ServerStep
<1>7. CASE /\ acceptor' = [acceptor EXCEPT ![t].accepted = TRUE,
                                           ![t].accept_num = req.ballot,
                                           ![t].accept_val = req.r]
           /\ locks' = [locks EXCEPT ![t] = @ \cup HeldAccounts(t, req.r)]
           /\ prepareTransaction(t, req.r, req.ballot) \/ UNCHANGED storeVars
           /\ chan' = [chan EXCEPT ![s][t] = Answered(s, t, i, Ack)]
  <2> DEFINE a == [acceptor[t] EXCEPT !.accepted = TRUE, !.accept_num = req.ballot,
                                      !.accept_val = req.r]
  <2>1. chan' \in [Server -> [Server -> Seq(SoundCall)]]
    BY <1>0, <1>5, <1>7, QueueUpdateType
  <2>2. acceptor' = [acceptor EXCEPT ![t] = a]
    BY <1>0, <1>7
  <2>3. a \in Acceptor
    BY <1>0, <1>2, AcceptorType
  <2>4. /\ a.accept_num = req.ballot /\ a.accept_val = req.r
        /\ a.promised_num = acceptor[t].promised_num
    BY <1>0 DEF Acceptor
  <2> HIDE DEF a
  <2>5. acceptor' \in [Server -> Acceptor]
    BY <1>0, <2>2, <2>3
  <2>6. RoundsStarted'
    <3>1. \A x \in Server : acceptor'[x] = IF x = t THEN a ELSE acceptor[x]
      BY <1>0, <2>2
    <3> QED
      BY <1>0, <1>2, <1>3, <2>4, <3>1 DEF RoundsStarted
  <2>7. StoreType' /\ log' \in [Server -> Seq(SoundEntry)]
    <3>1. CASE prepareTransaction(t, req.r, req.ballot)
      BY <1>0, <1>2, <3>1, PrepareTransactionSound
    <3>2. CASE UNCHANGED storeVars
      BY <1>0, <3>2 DEF storeVars, StoreType
    <3> QED
      BY <1>7, <3>1, <3>2
  <2>8. FlagsType'
    <3>1. HeldAccounts(t, req.r) \subseteq ClientId
      BY <1>2, TxnAssumption DEF HeldAccounts, Accounts, Transaction
    <3> QED
      BY <1>0, <1>3, <1>7, <3>1 DEF FlagsType
  <2> QED
    BY <1>0, <1>1, <1>3, <2>1, <2>5, <2>6, <2>7, <2>8, ServerStep
<1> QED
  BY <1>4, <1>6, <1>7

\* A follower commits on its own only what both accounts of its shard hold.
LEMMA ProcessCommitCallInv ==
    ASSUME AtomicityInv, NEW s \in Server, NEW t \in Server,
           NEW i \in DOMAIN chan[s][t],
           processCommitCall(s, t, i), UNCHANGED clientVars
    PROVE  AtomicityInv'
<1> DEFINE num    == chan[s][t][i].req.ballot.num
           tid    == acceptor[t].accept_val
           ballot == acceptor[t].accept_num
<1>0. /\ ClientSide /\ StoreType /\ FlagsType /\ RoundsStarted
      /\ acceptor \in [Server -> Acceptor] /\ round \in [Server -> Round]
      /\ log \in [Server -> Seq(SoundEntry)]
      /\ chan \in [Server -> [Server -> Seq(SoundCall)]]
  BY ServerParts
<1>1. ClientSide' /\ SoundEntry' = SoundEntry /\ SoundCall' = SoundCall
  BY <1>0, ClientFrame DEF processCommitCall
<1>2. num # 0
  <2>1. chan[s][t][i] \in SoundCall /\ chan[s][t][i].type = "COMMIT"
    BY <1>0, ArrivingCall DEF processCommitCall, Arrives
  <2> QED
    BY <2>1 DEF SoundCall
<1>3. chan' \in [Server -> [Server -> Seq(SoundCall)]]
  <2>1. RemoveAt(chan[s][t], i) \in Seq(SoundCall)
    BY <1>0, RemoveAtType
  <2>2. chan' = [chan EXCEPT ![s][t] = RemoveAt(chan[s][t], i)]
    BY DEF processCommitCall
  <2> QED
    BY <1>0, <2>1, <2>2, QueueUpdateType
<1>4. UNCHANGED <<round, in_sync, i_am_disconnected, crashed>>
  BY DEF processCommitCall
<1>5. CASE UNCHANGED <<acceptor, locks, storeVars>>
  <2>1. RoundsStarted' /\ StoreType' /\ FlagsType' /\ log' = log
    BY <1>0, <1>4, <1>5 DEF RoundsStarted, StoreType, FlagsType, storeVars
  <2> QED
    BY <1>0, <1>1, <1>3, <1>4, <1>5, <2>1, ServerStep
<1>6. CASE /\ acceptor[t].accept_num.num = num
           /\ locks' = [locks EXCEPT ![t] = @ \ HeldAccounts(t, tid)]
           /\ \/ BothHeld(t, tid) /\ commitTransaction(t, tid, ballot)
              \/ /\ last_inserted' = [last_inserted EXCEPT ![t] = Len(log[t]) - 1]
                 /\ last_inserted_ballot' = [last_inserted_ballot EXCEPT ![t] = ballot]
                 /\ UNCHANGED <<log, prepared, balances>>
           /\ acceptor' = [acceptor EXCEPT ![t].promised = FALSE, ![t].accepted = FALSE]
  <2>1. tid \in Tid /\ ballot \in Ballot
    BY <1>0, <1>2, <1>6 DEF RoundsStarted, Acceptor
  <2>2. BothHeld(t, tid) => ~cross_shard(tid)
    BY DEF BothHeld, HeldAccounts, Accounts, InClusterOf, isClientInCluster,
           cross_shard, SenderCluster, ReceiverCluster
  <2>3. Len(log[t]) - 1 \in Index
    BY <1>0, LenProperties DEF Index
  <2>4. FlagsType'
    BY <1>0, <1>4, <1>6 DEF FlagsType
  <2>5. acceptor' \in [Server -> Acceptor]
    <3> DEFINE a == [acceptor[t] EXCEPT !.promised = FALSE, !.accepted = FALSE]
    <3>1. acceptor' = [acceptor EXCEPT ![t] = a]
      BY <1>0, <1>6
    <3>2. a \in Acceptor
      BY <1>0, EndRoundType
    <3> QED
      BY <1>0, <3>1, <3>2
  <2>6. RoundsStarted'
    <3>1. \A x \in Server :
            /\ acceptor'[x].accept_num = acceptor[x].accept_num
            /\ acceptor'[x].accept_val = acceptor[x].accept_val
            /\ acceptor'[x].promised_num = acceptor[x].promised_num
      BY <1>0, <1>6 DEF Acceptor
    <3> QED
      BY <1>0, <1>4, <3>1 DEF RoundsStarted
  <2>7. StoreType' /\ log' \in [Server -> Seq(SoundEntry)]
    <3>1. CASE BothHeld(t, tid) /\ commitTransaction(t, tid, ballot)
      BY <1>0, <2>1, <2>2, <3>1, CommitTransactionSound
    <3>2. CASE /\ last_inserted' = [last_inserted EXCEPT ![t] = Len(log[t]) - 1]
               /\ last_inserted_ballot' = [last_inserted_ballot EXCEPT ![t] = ballot]
               /\ UNCHANGED <<log, prepared, balances>>
      BY <1>0, <2>1, <2>3, <3>2 DEF StoreType
    <3> QED
      BY <1>6, <3>1, <3>2
  <2> QED
    BY <1>0, <1>1, <1>3, <1>4, <2>4, <2>5, <2>6, <2>7, ServerStep
<1> QED
  BY <1>5, <1>6 DEF processCommitCall

\* A Sync is answered with entries of a sound log.
LEMMA ProcessSyncCallInv ==
    ASSUME AtomicityInv, NEW s \in Server, NEW t \in Server,
           NEW i \in DOMAIN chan[s][t],
           processSyncCall(s, t, i), UNCHANGED clientVars
    PROVE  AtomicityInv'
<1> DEFINE from == chan[s][t][i].req.last_inserted
           logs == SubSeq(log[t], from + 2, Len(log[t]))
           yes  == [Ack EXCEPT !.logs = logs,
                               !.last_inserted_ballot = last_inserted_ballot[t]]
           res  == IF last_inserted[t] > from THEN yes ELSE Nack
<1>0. /\ ClientSide /\ StoreType /\ FlagsType /\ RoundsStarted
      /\ acceptor \in [Server -> Acceptor] /\ round \in [Server -> Round]
      /\ log \in [Server -> Seq(SoundEntry)]
      /\ chan \in [Server -> [Server -> Seq(SoundCall)]]
  BY ServerParts
<1>1. ClientSide' /\ SoundEntry' = SoundEntry /\ SoundCall' = SoundCall
  BY <1>0, ClientFrame DEF processSyncCall
<1>2. from \in Index /\ from + 2 \in Int /\ from + 2 >= 1
  <2>1. from \in Index
    BY <1>0, ArrivingCall
  <2> QED
    BY <2>1 DEF Index
<1>3. logs \in Seq(SoundEntry)
  <2>1. log[t] \in Seq(SoundEntry) /\ Len(log[t]) \in Nat
    BY <1>0, LenProperties
  <2>2. \A k \in (from + 2) .. Len(log[t]) : log[t][k] \in SoundEntry
    <3>1. \A k \in 1 .. Len(log[t]) : log[t][k] \in SoundEntry
      BY <2>1, ElementOfSeq
    <3> QED
      BY <1>2, <2>1, <3>1
  <2> QED
    BY <1>2, <2>1, <2>2, SubSeqProperties
<1> HIDE DEF logs
<1>4. res \in Response /\ res.logs \in Seq(SoundEntry)
  <2>1. logs \in Seq(WALEntry)
    BY <1>3, SeqMonotonic DEF SoundEntry
  <2>2. last_inserted_ballot[t] \in Ballot
    BY <1>0 DEF StoreType
  <2>3. yes \in Response /\ yes.logs = logs
    BY <2>1, <2>2, PlainReplies DEF Response
  <2> HIDE DEF yes
  <2> QED
    BY <1>3, <2>3, PlainReplies
<1>5. /\ chan' = [chan EXCEPT ![s][t] = Answered(s, t, i, res)]
      /\ UNCHANGED <<acceptor, round, storeVars, locks, in_sync,
                     i_am_disconnected, crashed>>
  BY DEF processSyncCall, logs
<1> HIDE DEF res
<1>6. chan' \in [Server -> [Server -> Seq(SoundCall)]]
  <2>1. Answered(s, t, i, res) \in Seq(SoundCall)
    BY <1>0, <1>4, AnsweredSound
  <2> QED
    BY <1>0, <1>5, <2>1, QueueUpdateType
<1>7. RoundsStarted' /\ StoreType' /\ FlagsType' /\ log' = log
  BY <1>0, <1>5 DEF RoundsStarted, StoreType, FlagsType, storeVars
<1> QED
  BY <1>0, <1>1, <1>5, <1>6, <1>7, ServerStep

\* Counting a reply starts no round.
LEMMA HandlePrepareReplySound ==
    ASSUME AtomicityInv, NEW s \in Server, NEW t \in Server, NEW c \in SoundCall,
           NEW status, NEW rest \in Seq(SoundCall),
           handlePrepareReply(s, t, c, status, rest)
    PROVE  /\ acceptor' \in [Server -> Acceptor] /\ round' \in [Server -> Round]
           /\ RoundsStarted' /\ in_sync' \in [Server -> BOOLEAN]
           /\ chan' \in [Server -> [Server -> Seq(SoundCall)]]
<1> DEFINE counted == /\ round[s].await_prepare_decision
                      /\ c.req.ballot.num = acceptor[s].promised_num.num
                      /\ c.req.ballot.server_id = s
           replied == counted /\ status = "OK"
           newer   == replied /\ c.res.latest_ballot_num # NoLatest
           behind  == /\ replied
                      /\ c.res.last_inserted # NoInserted
                      /\ c.res.last_inserted > last_inserted[s]
           failed  == counted /\ Refused(c, status)
           yes     == replied /\ c.res.ack
           stop    == newer \/ behind
<1>0. /\ StoreType /\ FlagsType /\ RoundsStarted
      /\ acceptor \in [Server -> Acceptor] /\ round \in [Server -> Round]
      /\ chan \in [Server -> [Server -> Seq(SoundCall)]]
  BY ServerParts
<1>1. /\ round' = [round EXCEPT
                     ![s].prepare_successes = IF yes THEN @ + 1 ELSE @,
                     ![s].prepare_failures = IF failed THEN @ + 1 ELSE @,
                     ![s].await_prepare_decision = @ /\ ~newer /\ ~behind]
      /\ acceptor' = [acceptor EXCEPT ![s].ballot_num =
                        IF newer THEN c.res.latest_ballot_num ELSE @]
      /\ in_sync' = [in_sync EXCEPT ![s] = @ \/ behind]
      /\ chan' = [chan EXCEPT ![s][t] =
                    IF behind THEN Append(rest, syncCall(last_inserted[s])) ELSE rest]
  BY DEF handlePrepareReply
<1>2. yes \in BOOLEAN /\ failed \in BOOLEAN /\ newer \in BOOLEAN /\ behind \in BOOLEAN
  OBVIOUS
<1>3. c.res \in Response /\ c.res.latest_ballot_num \in Nat
  BY DEF SoundCall, OutCall, Response
<1> HIDE DEF yes, failed, newer, behind
<1>4. syncCall(last_inserted[s]) \in SoundCall
  <2>1. NoBallot \in Ballot /\ last_inserted[s] \in Index
    BY <1>0 DEF NoBallot, Ballot, StoreType
  <2> QED
    BY <2>1, NewCallSound DEF syncCall, CallType
<1>5. chan' \in [Server -> [Server -> Seq(SoundCall)]]
  <2> DEFINE q == IF behind THEN Append(rest, syncCall(last_inserted[s])) ELSE rest
  <2>1. q \in Seq(SoundCall)
    BY <1>4
  <2>2. chan' = [chan EXCEPT ![s][t] = q]
    BY <1>1
  <2> HIDE DEF q
  <2> QED
    BY <1>0, <2>1, <2>2, QueueUpdateType
<1>6. in_sync' \in [Server -> BOOLEAN]
  BY <1>0, <1>1, <1>2 DEF FlagsType
<1>7. /\ acceptor' \in [Server -> Acceptor]
      /\ \A x \in Server : /\ acceptor'[x].accept_num = acceptor[x].accept_num
                           /\ acceptor'[x].accept_val = acceptor[x].accept_val
                           /\ acceptor'[x].promised_num = acceptor[x].promised_num
  <2> DEFINE n == IF newer THEN c.res.latest_ballot_num ELSE acceptor[s].ballot_num
  <2>1. n \in Nat
    BY <1>0, <1>3 DEF Acceptor
  <2>2. acceptor' = [acceptor EXCEPT ![s].ballot_num = n]
    BY <1>0, <1>1
  <2> HIDE DEF n
  <2> QED
    BY <1>0, <2>1, <2>2 DEF Acceptor
<1>8. /\ round' \in [Server -> Round]
      /\ \A x \in Server :
           /\ round'[x].await_prepare_decision => round[x].await_prepare_decision
           /\ round'[x].await_accept_decision = round[x].await_accept_decision
  <2> DEFINE n == IF yes THEN round[s].prepare_successes + 1 ELSE round[s].prepare_successes
             m == IF failed THEN round[s].prepare_failures + 1 ELSE round[s].prepare_failures
             w == round[s].await_prepare_decision /\ ~newer /\ ~behind
             r == [round[s] EXCEPT !.prepare_successes = n, !.prepare_failures = m,
                                   !.await_prepare_decision = w]
  <2>1. n \in Nat /\ m \in Nat /\ w \in BOOLEAN /\ (w => round[s].await_prepare_decision)
    BY <1>0 DEF Round
  <2>2. round' = [round EXCEPT ![s] = r]
    BY <1>0, <1>1
  <2> HIDE DEF n, m, w
  <2>3. r \in Round /\ r.await_prepare_decision = w
        /\ r.await_accept_decision = round[s].await_accept_decision
    BY <1>0, <2>1 DEF Round
  <2> HIDE DEF r
  <2> QED
    BY <1>0, <2>1, <2>2, <2>3
<1>9. RoundsStarted'
  BY <1>0, <1>7, <1>8 DEF RoundsStarted
<1> QED
  BY <1>5, <1>6, <1>7, <1>8, <1>9

\* The same for the replies to Accept.
LEMMA HandleAcceptReplySound ==
    ASSUME AtomicityInv, NEW s \in Server, NEW t \in Server, NEW c \in SoundCall,
           NEW status, NEW rest \in Seq(SoundCall),
           handleAcceptReply(s, t, c, status, rest)
    PROVE  /\ round' \in [Server -> Round] /\ RoundsStarted'
           /\ chan' \in [Server -> [Server -> Seq(SoundCall)]]
           /\ UNCHANGED <<acceptor, storeVars, in_sync>>
<1> DEFINE counted == /\ round[s].await_accept_decision
                      /\ c.req.ballot.num = acceptor[s].accept_num.num
                      /\ c.req.ballot.server_id = s
           replied == counted /\ status = "OK"
           failed  == counted /\ Refused(c, status)
           yes     == replied /\ c.res.ack
<1>0. /\ RoundsStarted /\ round \in [Server -> Round]
      /\ chan \in [Server -> [Server -> Seq(SoundCall)]]
  BY ServerParts
<1>1. /\ round' = [round EXCEPT
                     ![s].accept_successes = IF yes THEN @ + 1 ELSE @,
                     ![s].accept_failures = IF failed THEN @ + 1 ELSE @]
      /\ chan' = [chan EXCEPT ![s][t] = rest]
      /\ UNCHANGED <<acceptor, storeVars, in_sync>>
  BY DEF handleAcceptReply
<1>2. yes \in BOOLEAN /\ failed \in BOOLEAN
  OBVIOUS
<1> HIDE DEF yes, failed
<1>3. /\ round' \in [Server -> Round]
      /\ \A x \in Server :
           /\ round'[x].await_prepare_decision = round[x].await_prepare_decision
           /\ round'[x].await_accept_decision = round[x].await_accept_decision
  <2> DEFINE n == IF yes THEN round[s].accept_successes + 1 ELSE round[s].accept_successes
             m == IF failed THEN round[s].accept_failures + 1 ELSE round[s].accept_failures
             r == [round[s] EXCEPT !.accept_successes = n, !.accept_failures = m]
  <2>1. n \in Nat /\ m \in Nat
    BY <1>0 DEF Round
  <2>2. round' = [round EXCEPT ![s] = r]
    BY <1>0, <1>1
  <2> HIDE DEF n, m
  <2>3. /\ r \in Round
        /\ r.await_prepare_decision = round[s].await_prepare_decision
        /\ r.await_accept_decision = round[s].await_accept_decision
    BY <1>0, <2>1 DEF Round
  <2> HIDE DEF r
  <2> QED
    BY <1>0, <2>2, <2>3
<1>4. RoundsStarted'
  BY <1>0, <1>1, <1>3 DEF RoundsStarted
<1>5. chan' \in [Server -> [Server -> Seq(SoundCall)]]
  BY <1>0, <1>1, QueueUpdateType
<1> QED
  BY <1>1, <1>3, <1>4, <1>5

\* The entries a server takes over are sound entries of its peer.
LEMMA HandleSyncReplySound ==
    ASSUME AtomicityInv, NEW s \in Server, NEW t \in Server, NEW c \in SoundCall,
           NEW status, NEW rest \in Seq(SoundCall),
           handleSyncReply(s, t, c, status, rest)
    PROVE  /\ acceptor' \in [Server -> Acceptor] /\ round' = round
           /\ RoundsStarted' /\ in_sync' \in [Server -> BOOLEAN]
           /\ StoreType' /\ log' \in [Server -> Seq(SoundEntry)]
           /\ chan' \in [Server -> [Server -> Seq(SoundCall)]]
<1> DEFINE logs   == c.res.logs
           b      == c.res.last_inserted_ballot
           synced == {logs[i].tid : i \in DOMAIN logs}
<1>0. /\ StoreType /\ FlagsType /\ RoundsStarted
      /\ acceptor \in [Server -> Acceptor]
      /\ log \in [Server -> Seq(SoundEntry)]
      /\ chan \in [Server -> [Server -> Seq(SoundCall)]]
  BY ServerParts
<1>1. /\ in_sync' = [in_sync EXCEPT ![s] = FALSE]
      /\ chan' = [chan EXCEPT ![s][t] = rest]
      /\ round' = round
  BY DEF handleSyncReply
<1>2. logs \in Seq(SoundEntry) /\ b \in Ballot /\ b.num \in Nat
  BY DEF SoundCall, OutCall, Response, Ballot
<1>3. in_sync' \in [Server -> BOOLEAN] /\ chan' \in [Server -> [Server -> Seq(SoundCall)]]
  BY <1>0, <1>1, QueueUpdateType DEF FlagsType
<1>4. CASE UNCHANGED <<acceptor, storeVars>>
  BY <1>0, <1>1, <1>3, <1>4 DEF storeVars, StoreType, RoundsStarted
<1>5. CASE /\ log' = [log EXCEPT ![s] = @ \o logs]
           /\ prepared' = [prepared EXCEPT ![s] =
                             {e \in @ : e.tid \notin synced} \cup StillPrepared(logs)]
           /\ balances' = [balances EXCEPT ![s] =
                             [a \in Shard(s) |-> @[a] + CommittedEffect(logs, a)]]
           /\ acceptor' = [acceptor EXCEPT ![s].ballot_num = b.num]
           /\ last_inserted' = [last_inserted EXCEPT ![s] = @ + Len(logs)]
           /\ last_inserted_ballot' = [last_inserted_ballot EXCEPT ![s] = b]
  <2> HIDE DEF logs, b, synced
  <2>1. log' \in [Server -> Seq(SoundEntry)]
    <3>1. log[s] \o logs \in Seq(SoundEntry)
      BY <1>0, <1>2, ConcatProperties
    <3> QED
      BY <1>0, <1>5, <3>1
  <2>2. prepared' \in [Server -> SUBSET WALEntry]
    <3>1. StillPrepared(logs) \subseteq WALEntry
      <4>1. \A j \in DOMAIN logs : logs[j] \in SoundEntry
        BY <1>2, ElementOfSeq
      <4> QED
        BY <4>1 DEF StillPrepared, SoundEntry
    <3> QED
      BY <1>0, <1>5, <3>1 DEF StoreType
  <2>3. DOMAIN balances' = Server /\ \A x \in Server : DOMAIN balances'[x] = Shard(x)
    BY <1>0, <1>5 DEF StoreType
  <2>4. last_inserted' \in [Server -> Index]
    <3>1. Len(logs) \in Nat /\ last_inserted[s] \in Index
      BY <1>0, <1>2, LenProperties DEF StoreType
    <3>2. last_inserted[s] + Len(logs) \in Index
      BY <3>1 DEF Index
    <3> QED
      BY <1>0, <1>5, <3>2 DEF StoreType
  <2>5. last_inserted_ballot' \in [Server -> Ballot]
    BY <1>0, <1>2, <1>5 DEF StoreType
  <2>6. /\ acceptor' \in [Server -> Acceptor]
        /\ \A x \in Server : /\ acceptor'[x].accept_num = acceptor[x].accept_num
                             /\ acceptor'[x].accept_val = acceptor[x].accept_val
                             /\ acceptor'[x].promised_num = acceptor[x].promised_num
    BY <1>0, <1>2, <1>5 DEF Acceptor
  <2>7. RoundsStarted'
    BY <1>0, <1>1, <2>6 DEF RoundsStarted
  <2> QED
    BY <1>1, <1>3, <2>1, <2>2, <2>3, <2>4, <2>5, <2>6, <2>7 DEF StoreType
<1> QED
  BY <1>4, <1>5 DEF handleSyncReply

\* The end of an OutCall, whatever its status.
LEMMA HandleRPCResponseInv ==
    ASSUME AtomicityInv, NEW s \in Server, NEW t \in Server,
           NEW i \in DOMAIN chan[s][t], NEW status, NEW rest \in Seq(SoundCall),
           HandleRPCResponse(s, t, i, status, rest), UNCHANGED clientVars
    PROVE  AtomicityInv'
<1> DEFINE c == chan[s][t][i]
<1>0. /\ ClientSide /\ StoreType /\ FlagsType /\ RoundsStarted
      /\ acceptor \in [Server -> Acceptor] /\ round \in [Server -> Round]
      /\ log \in [Server -> Seq(SoundEntry)]
      /\ chan \in [Server -> [Server -> Seq(SoundCall)]]
  BY ServerParts
<1>1. c \in SoundCall
  BY <1>0, ArrivingCall
<1>2. ClientSide' /\ SoundEntry' = SoundEntry /\ SoundCall' = SoundCall
  BY <1>0, ClientFrame DEF HandleRPCResponse
<1>3. UNCHANGED <<locks, i_am_disconnected, crashed>>
  BY DEF HandleRPCResponse
<1> HIDE DEF c
<1>4. CASE handlePrepareReply(s, t, c, status, rest)
  <2>1. /\ acceptor' \in [Server -> Acceptor] /\ round' \in [Server -> Round]
        /\ RoundsStarted' /\ in_sync' \in [Server -> BOOLEAN]
        /\ chan' \in [Server -> [Server -> Seq(SoundCall)]]
    BY <1>1, <1>4, HandlePrepareReplySound
  <2>2. StoreType' /\ FlagsType' /\ log' = log
    BY <1>0, <1>3, <1>4, <2>1 DEF handlePrepareReply, storeVars, StoreType, FlagsType
  <2> QED
    BY <1>0, <1>2, <2>1, <2>2, ServerStep
<1>5. CASE handleAcceptReply(s, t, c, status, rest)
  <2>1. /\ round' \in [Server -> Round] /\ RoundsStarted'
        /\ chan' \in [Server -> [Server -> Seq(SoundCall)]]
        /\ UNCHANGED <<acceptor, storeVars, in_sync>>
    BY <1>1, <1>5, HandleAcceptReplySound
  <2>2. StoreType' /\ FlagsType' /\ log' = log /\ acceptor' = acceptor
    BY <1>0, <1>3, <2>1 DEF storeVars, StoreType, FlagsType
  <2> QED
    BY <1>0, <1>2, <2>1, <2>2, ServerStep
<1>6. CASE handleSyncReply(s, t, c, status, rest)
  <2>1. /\ acceptor' \in [Server -> Acceptor] /\ round' = round
        /\ RoundsStarted' /\ in_sync' \in [Server -> BOOLEAN]
        /\ StoreType' /\ log' \in [Server -> Seq(SoundEntry)]
        /\ chan' \in [Server -> [Server -> Seq(SoundCall)]]
    BY <1>1, <1>6, HandleSyncReplySound
  <2>2. FlagsType'
    BY <1>0, <1>3, <2>1 DEF FlagsType
  <2> QED
    BY <1>0, <1>2, <2>1, <2>2, ServerStep
<1>7. CASE /\ chan' = [chan EXCEPT ![s][t] = rest]
           /\ UNCHANGED <<acceptor, round, storeVars, in_sync>>
  <2>1. chan' \in [Server -> [Server -> Seq(SoundCall)]]
    BY <1>0, <1>7, QueueUpdateType
  <2>2. RoundsStarted' /\ StoreType' /\ FlagsType' /\ log' = log
    BY <1>0, <1>3, <1>7 DEF RoundsStarted, StoreType, FlagsType, storeVars
  <2> QED
    BY <1>0, <1>2, <1>7, <2>1, <2>2, ServerStep
<1> QED
  BY <1>4, <1>5, <1>6, <1>7 DEF HandleRPCResponse, c

\* An OutCall ends with a reply, with UNAVAILABLE, or with its deadline.
LEMMA OutCallEndsInv ==
    ASSUME AtomicityInv, NEW s \in Server, NEW t \in Server,
           NEW i \in DOMAIN chan[s][t],
           ReplyArrives(s, t, i) \/ Unavailable(s, t, i) \/ Expire(s, t, i),
           UNCHANGED clientVars
    PROVE  AtomicityInv'
<1> DEFINE q == chan[s][t]
           c == [q[i] EXCEPT !.stage = "expired"]
<1>1. q \in Seq(SoundCall) /\ q[i] \in SoundCall /\ i \in 1 .. Len(q)
  BY ServerParts, ArrivingCall
<1>2. RemoveAt(q, i) \in Seq(SoundCall)
  BY <1>1, RemoveAtType
<1>3. [q EXCEPT ![i].stage = "expired"] \in Seq(SoundCall)
  <2>1. c \in SoundCall
    BY <1>1 DEF SoundCall, OutCall
  <2>2. [q EXCEPT ![i] = c] \in Seq(SoundCall)
    BY <1>1, <2>1, ExceptSeq
  <2> QED
    BY <1>1, <2>2
<1>4. \E status, rest :
         rest \in Seq(SoundCall) /\ HandleRPCResponse(s, t, i, status, rest)
  BY <1>2, <1>3 DEF ReplyArrives, Unavailable, Expire
<1> QED
  BY <1>4, HandleRPCResponseInv

\* A server writes in its log what the coordinator decided.
LEMMA ProcessTpcDecisionInv ==
    ASSUME AtomicityInv, NEW d \in decisions, processTpcDecision(d),
           UNCHANGED clientVars
    PROVE  AtomicityInv'
<1> DEFINE s == d.to
<1>0. /\ ClientSide /\ StoreType /\ FlagsType /\ RoundsStarted
      /\ acceptor \in [Server -> Acceptor] /\ round \in [Server -> Round]
      /\ log \in [Server -> Seq(SoundEntry)]
      /\ chan \in [Server -> [Server -> Seq(SoundCall)]]
  BY ServerParts
<1>1. /\ d \in Decision /\ s \in Server /\ d.tid \in Tid
      /\ outcome[d.tid] = IF d.is_commit THEN "commit" ELSE "abort"
  BY <1>0 DEF ClientSide, RpcTypeOK, Decision, DecisionsFollowOutcome
<1>2. /\ inCalls' = inCalls /\ replies' = replies /\ decisions' \subseteq decisions
      /\ set_no' = set_no /\ to_inform' = to_inform /\ to_send' = to_send
      /\ forgotten' = forgotten /\ client_up' = client_up
      /\ processing' = processing /\ outcome' = outcome /\ acked' = acked
      /\ UNCHANGED <<acceptor, round, last_inserted, last_inserted_ballot,
                     in_sync, i_am_disconnected, crashed, chan>>
  BY DEF processTpcDecision, clientVars
<1>3. ClientSide'
  <2>1. RpcTypeOK' /\ ClientTypeOK'
    BY <1>0, <1>2 DEF ClientSide, RpcTypeOK, ClientTypeOK
  <2>2. VotesConserved'
    <3>1. /\ \A x, y : Outstanding(x, y)' <=> Outstanding(x, y)
          /\ \A x : VotesCounted(x)' = VotesCounted(x)
          /\ Issued' = Issued
      BY <1>2 DEF Outstanding, VotesCounted, Issued
    <3> QED
      BY <1>0, <1>2, <3>1 DEF ClientSide, VotesConserved
  <2>3. DecisionsFollowOutcome'
    BY <1>0, <1>2 DEF ClientSide, DecisionsFollowOutcome
  <2> QED
    BY <2>1, <2>2, <2>3 DEF ClientSide
<1>4. SoundEntry' = SoundEntry /\ SoundCall' = SoundCall
  BY <1>2 DEF SoundEntry, SoundCall
<1>5. RoundsStarted'
  BY <1>0, <1>2 DEF RoundsStarted
<1> HIDE DEF s
<1>6. StoreType' /\ log' \in [Server -> Seq(SoundEntry)] /\ locks' \in [Server -> SUBSET ClientId]
  <2>1. CASE UNCHANGED <<log, prepared, locks, balances>>
    BY <1>0, <1>2, <2>1 DEF StoreType, FlagsType
  <2>2. ASSUME NEW e \in prepared[s], e.tid = d.tid,
               log' = [log EXCEPT ![s] = Append(@,
                  [e EXCEPT !.status = IF d.is_commit THEN "COMMITTED" ELSE "ABORTED"])],
               prepared' = [prepared EXCEPT ![s] = @ \ {e}],
               locks' = [locks EXCEPT ![s] = @ \ HeldAccounts(s, d.tid)],
               balances' = IF d.is_commit
                           THEN [balances EXCEPT ![s] =
                                   [c \in Shard(s) |-> @[c] + Effect(d.tid, c)]]
                           ELSE balances
        PROVE  /\ StoreType' /\ log' \in [Server -> Seq(SoundEntry)]
               /\ locks' \in [Server -> SUBSET ClientId]
    <3> DEFINE st == IF d.is_commit THEN "COMMITTED" ELSE "ABORTED"
               n  == [e EXCEPT !.status = st]
    <3>1. e \in WALEntry
      BY <1>0, <1>1 DEF StoreType
    <3>2. st \in Status /\ (st = "COMMITTED" => d.is_commit) /\ (st = "ABORTED" => ~d.is_commit)
      BY DEF Status
    <3> HIDE DEF st
    <3>3. n \in WALEntry /\ n.tid = d.tid /\ n.status = st
      BY <2>2, <3>1, <3>2 DEF WALEntry
    <3> HIDE DEF n
    <3>4. n \in SoundEntry
      BY <1>1, <3>2, <3>3 DEF SoundEntry
    <3>5. log' \in [Server -> Seq(SoundEntry)]
      <4>1. Append(log[s], n) \in Seq(SoundEntry)
        BY <1>0, <1>1, <3>4
      <4> QED
        BY <1>0, <2>2, <4>1 DEF n, st
    <3>6. prepared' \in [Server -> SUBSET WALEntry]
      BY <1>0, <2>2 DEF StoreType
    <3>7. DOMAIN balances' = Server /\ \A x \in Server : DOMAIN balances'[x] = Shard(x)
      BY <1>0, <2>2 DEF StoreType
    <3>8. locks' \in [Server -> SUBSET ClientId]
      BY <1>0, <2>2 DEF FlagsType
    <3> QED
      BY <1>0, <1>2, <3>5, <3>6, <3>7, <3>8 DEF StoreType
  <2> QED
    BY <2>1, <2>2 DEF processTpcDecision, DecidedBalances, s
<1>7. FlagsType'
  BY <1>0, <1>2, <1>6 DEF FlagsType
<1> QED
  BY <1>0, <1>2, <1>3, <1>4, <1>5, <1>6, <1>7, ServerStep

\* A dead server changes nothing, and a call to it is one lost vote.
LEMMA CrashInv ==
    ASSUME AtomicityInv, NEW s \in Server, UNCHANGED clientVars,
           Crash(s) \/ \E tid \in Tid : CallFails(s, tid)
    PROVE  AtomicityInv'
<1>0. /\ ClientSide /\ ServerSide /\ StoreType /\ FlagsType /\ RoundsStarted
      /\ acceptor \in [Server -> Acceptor] /\ round \in [Server -> Round]
      /\ log \in [Server -> Seq(SoundEntry)]
      /\ chan \in [Server -> [Server -> Seq(SoundCall)]]
  BY ServerParts, TwoHalves
<1>1. CASE Crash(s)
  <2>1. ClientSide' /\ SoundEntry' = SoundEntry /\ SoundCall' = SoundCall
    BY <1>0, <1>1, ClientFrame DEF Crash
  <2>2. RoundsStarted' /\ StoreType' /\ FlagsType' /\ log' = log
    BY <1>0, <1>1 DEF Crash, RoundsStarted, StoreType, FlagsType, storeVars
  <2> QED
    BY <1>0, <1>1, <2>1, <2>2, ServerStep DEF Crash
<1>2. ASSUME NEW tid \in Tid, CallFails(s, tid)
      PROVE  AtomicityInv'
  <2>1. ClientSide' /\ SoundEntry' = SoundEntry
    BY <1>0, <1>2, CallEnds DEF CallFails
  <2>2. ServerSide'
    BY <1>0, <1>2, <2>1, ServerFrame DEF CallFails
  <2> QED
    BY <2>1, <2>2 DEF AtomicityInv, TypeOK, ClientSide, ServerSide
<1> QED
  BY <1>1, <1>2

\* The death of the coordinator takes no vote back and decides nothing.
LEMMA CoordinatorCrashInv ==
    ASSUME AtomicityInv, CoordinatorCrashes
    PROVE  AtomicityInv'
<1>0. ClientSide /\ ServerSide
  BY TwoHalves
<1>1. /\ inCalls' = inCalls /\ replies' = replies /\ decisions' = decisions
      /\ set_no' = set_no /\ to_inform' = to_inform /\ to_send' = to_send
      /\ forgotten' = forgotten /\ client_up' = FALSE
      /\ processing' = processing /\ outcome' = outcome /\ acked' = acked
      /\ UNCHANGED serverVars
  BY DEF CoordinatorCrashes, clientCrash, rpcVars
<1>2. RpcTypeOK' /\ ClientTypeOK'
  BY <1>0, <1>1 DEF ClientSide, RpcTypeOK, ClientTypeOK
<1>3. VotesConserved' /\ DecisionsFollowOutcome'
  BY <1>0, <1>1 DEF ClientSide, VotesConserved, Outstanding, VotesCounted, Issued,
                    DecisionsFollowOutcome
<1>4. ServerSide'
  BY <1>0, <1>1, ServerFrame DEF SoundEntry
<1> QED
  BY <1>2, <1>3, <1>4 DEF AtomicityInv, TypeOK, ServerSide

-----------------------------------------------------------------------------
(* The theorems *)

\* The state ServerImpl::ServerImpl and Client::Client leave.
LEMMA InitInv == Init => AtomicityInv
<1> SUFFICES ASSUME Init PROVE AtomicityInv
  OBVIOUS
<1>1. RpcTypeOK /\ DecisionsFollowOutcome
  BY DEF Init, RpcInit, RpcTypeOK, DecisionsFollowOutcome
<1>2. ClientTypeOK
  <2>1. Len(Sets) \in Nat /\ NoVotes \in Votes
    BY SetsAssumption, LenProperties DEF NoVotes, Votes
  <2>2. processing \in [Tid \cup {NoTid} -> Votes]
    BY <2>1 DEF Init, ClientInit
  <2>3. outcome \in [Tid -> {"none", "commit", "abort"}]
    BY DEF Init, ClientInit
  <2>4. /\ set_no \in 0 .. Len(Sets) /\ to_send = {} /\ to_inform = {}
        /\ forgotten = {} /\ client_up = TRUE /\ acked = {}
    BY <2>1 DEF Init, ClientInit
  <2> QED
    BY <2>2, <2>3, <2>4 DEF ClientTypeOK
<1>3. VotesConserved
  BY DEF Init, RpcInit, ClientInit, VotesConserved, Outstanding, VotesCounted, NoVotes
<1>4. NoBallot \in Ballot /\ -1 \in Index
  BY DEF NoBallot, Ballot, Index
<1>5. RoundsStarted
  BY DEF Init, ServerInit, RoundsStarted, NoBallot
<1>6. acceptor \in [Server -> Acceptor]
  BY <1>4 DEF Init, ServerInit, Acceptor
<1>7. round \in [Server -> Round]
  BY DEF Init, ServerInit, Round
<1>8. /\ log \in [Server -> Seq(SoundEntry)] /\ log \in [Server -> Seq(WALEntry)]
      /\ chan \in [Server -> [Server -> Seq(SoundCall)]]
      /\ chan \in [Server -> [Server -> Seq(OutCall)]]
  BY DEF Init, ServerInit
<1>9. ServerTypeOK
  BY <1>4, <1>6, <1>7, <1>8 DEF Init, ServerInit, ServerTypeOK
<1> QED
  BY <1>1, <1>2, <1>3, <1>5, <1>8, <1>9 DEF AtomicityInv, TypeOK

\* Every step of the system keeps the invariant.
LEMMA NextInv == AtomicityInv /\ [Next]_vars => AtomicityInv'
<1> SUFFICES ASSUME AtomicityInv, [Next]_vars PROVE AtomicityInv'
  OBVIOUS
<1>1. CASE NextSet
  BY <1>1, NextSetInv
<1>2. CASE MainThread
  BY <1>2, IssueTransactionInv, DisconnectCallInv DEF MainThread
<1>3. CASE ConsumerThread
  BY <1>3, ConsumePrepareReplyInv, ConsumeTransferReplyInv DEF ConsumerThread, consumeReplies
<1>4. ASSUME NEW s \in Server, HandleRPCs(s) PROVE AtomicityInv'
  <2>0. UNCHANGED clientVars /\ stubs(s) \subseteq Server
    BY <1>4, StubsAreServers DEF HandleRPCs
  <2>1. ASSUME NEW tid \in Tid, runPaxos(s, tid) PROVE AtomicityInv'
    BY <2>0, <2>1, StartRoundInv, RoundFailsInv, ProposeTransactionInv, ChooseTransactionInv
       DEF runPaxos
  <2>2. ASSUME NEW t \in stubs(s), NEW i \in DOMAIN chan[t][s],
               \/ processPrepareCall(t, s, i)
               \/ processAcceptCall(t, s, i)
               \/ processCommitCall(t, s, i)
               \/ processSyncCall(t, s, i)
        PROVE  AtomicityInv'
    BY <2>0, <2>2, ProcessPrepareCallInv, ProcessAcceptCallInv, ProcessCommitCallInv,
       ProcessSyncCallInv
  <2>3. ASSUME NEW d \in decisions, processTpcDecision(d) PROVE AtomicityInv'
    BY <2>0, <2>3, ProcessTpcDecisionInv
  <2>4. ASSUME NEW t \in stubs(s), NEW i \in DOMAIN chan[s][t],
               ReplyArrives(s, t, i) \/ Unavailable(s, t, i)
        PROVE  AtomicityInv'
    BY <2>0, <2>4, OutCallEndsInv
  <2> QED
    BY <1>4, <2>1, <2>2, <2>3, <2>4 DEF HandleRPCs
<1>5. ASSUME NEW s \in Server, CallExpires(s) PROVE AtomicityInv'
  BY <1>5, OutCallEndsInv, StubsAreServers DEF CallExpires
<1>6. ASSUME NEW s \in Server, CallRefused(s) \/ ServerCrashes(s) PROVE AtomicityInv'
  BY <1>6, CrashInv DEF CallRefused, ServerCrashes
<1>7. CASE CoordinatorCrashes
  BY <1>7, CoordinatorCrashInv
<1>8. CASE UNCHANGED vars
  <2>1. UNCHANGED <<rpcVars, clientVars>> /\ UNCHANGED serverVars
    BY <1>8 DEF vars
  <2>2. ClientSide' /\ SoundEntry' = SoundEntry
    BY <2>1, TwoHalves, ClientFrame
  <2>3. ServerSide'
    BY <2>1, <2>2, TwoHalves, ServerFrame
  <2> QED
    BY <2>2, <2>3 DEF AtomicityInv, TypeOK, ClientSide, ServerSide
<1> QED
  BY <1>1, <1>2, <1>3, <1>4, <1>5, <1>6, <1>7, <1>8 DEF Next

\* The invariant makes the outcomes in the logs agree.
LEMMA InvImpliesAtomic == AtomicityInv => AtomicOutcome
<1> SUFFICES ASSUME AtomicityInv,
                    NEW s \in Server, NEW t \in Server,
                    NEW i \in DOMAIN log[s], NEW j \in DOMAIN log[t],
                    log[s][i].tid = log[t][j].tid,
                    log[s][i].status = "COMMITTED", log[t][j].status = "ABORTED"
             PROVE  FALSE
  BY DEF AtomicOutcome, Holders, InLog
<1>1. log[s][i] \in SoundEntry /\ log[t][j] \in SoundEntry
  <2>1. log[s] \in Seq(SoundEntry) /\ log[t] \in Seq(SoundEntry)
    BY ServerParts
  <2> QED
    BY <2>1, ElementOfSeq
<1>2. outcome[log[t][j].tid] = "abort"
  BY <1>1 DEF SoundEntry
<1>3. log[t][j].tid \in Tid
  BY <1>1 DEF SoundEntry, WALEntry
<1>4. cross_shard(log[t][j].tid)
  BY <1>2, <1>3, ServerParts DEF ClientSide, VotesConserved
<1> QED
  BY <1>1, <1>2, <1>4 DEF SoundEntry

\* AtomicityInv holds in every reachable state: what any log, any Sync reply
\* or any TpcCommit or TpcAbort in flight says of a cross-shard transaction is
\* the one outcome the coordinator took from its two votes.
THEOREM AtomicityInvariance == Spec => []AtomicityInv
<1>1. Init => AtomicityInv
  BY InitInv
<1>2. AtomicityInv /\ [Next]_vars => AtomicityInv'
  BY NextInv
<1> QED
  BY <1>1, <1>2, PTL DEF Spec

\* The types of all variables are kept by every handler of the servers and by
\* both threads of the client.
THEOREM TypeCorrectness == Spec => []TypeOK
<1>1. AtomicityInv => TypeOK
  BY DEF AtomicityInv
<1> QED
  BY <1>1, AtomicityInvariance, PTL

\* Two-phase commit is atomic: no two servers, in whatever clusters, record
\* different outcomes of a transaction, whatever calls are lost, expire or are
\* reordered, whichever servers are disconnected, synchronise or crash, and
\* whatever the cluster size and MAJORITY are.
THEOREM Atomicity == Spec => []AtomicOutcome
<1>1. AtomicityInv => AtomicOutcome
  BY InvImpliesAtomic
<1> QED
  BY <1>1, AtomicityInvariance, PTL

=============================================================================
