------------------------- MODULE StableLeaderProofs -------------------------
(***************************************************************************)
(* The replicas of a shard agree, for any number of clusters and servers,  *)
(* whatever calls are lost, late or overtaken and whichever processes      *)
(* crash, as long as all sets name the same leaders, no transfer crosses   *)
(* shards and no replica has logged an entry twice (StableLeader).         *)
(***************************************************************************)
EXTENDS StableLeader, AnswerProofs

-----------------------------------------------------------------------------
(* Queues of calls *)

\* What is left when a call is taken out of a queue, in the same order.
LEMMA RemoveAtElements ==
    ASSUME NEW S, NEW q \in Seq(S), NEW i \in DOMAIN q
    PROVE  /\ DOMAIN RemoveAt(q, i) = 1 .. (Len(q) - 1)
           /\ \A j \in DOMAIN RemoveAt(q, i) :
                 RemoveAt(q, i)[j] = q[IF j < i THEN j ELSE j + 1]
<1> DEFINE a == SubSeq(q, 1, i - 1)
           b == SubSeq(q, i + 1, Len(q))
<1>0. i \in 1 .. Len(q) /\ Len(q) \in Nat
  OBVIOUS
<1>1. a \in Seq(S) /\ Len(a) = i - 1 /\ \A j \in 1 .. (i - 1) : a[j] = q[j]
  BY <1>0, SubSeqProperties
<1>2. b \in Seq(S) /\ Len(b) = Len(q) - i /\ \A j \in 1 .. (Len(q) - i) : b[j] = q[i + j]
  BY <1>0, SubSeqProperties
<1> HIDE DEF a, b
<1>3. /\ Len(a \o b) = Len(q) - 1
      /\ \A j \in 1 .. (Len(q) - 1) : (a \o b)[j] = IF j =< i - 1 THEN a[j] ELSE b[j - (i - 1)]
      /\ a \o b \in Seq(S)
  BY <1>0, <1>1, <1>2, ConcatProperties
<1>4. ASSUME NEW j \in 1 .. (Len(q) - 1)
      PROVE  (a \o b)[j] = q[IF j < i THEN j ELSE j + 1]
  <2>1. CASE j < i
    BY <1>0, <1>1, <1>3, <2>1
  <2>2. CASE ~(j < i)
    <3>1. j - (i - 1) \in 1 .. (Len(q) - i) /\ i + (j - (i - 1)) = j + 1 /\ ~(j =< i - 1)
      BY <1>0, <2>2
    <3>2. b[j - (i - 1)] = q[j + 1]
      BY <1>2, <3>1
    <3> QED
      BY <1>3, <2>2, <3>1, <3>2
  <2> QED
    BY <2>1, <2>2
<1>5. DOMAIN (a \o b) = 1 .. (Len(q) - 1)
  BY <1>3
<1> QED
  BY <1>4, <1>5 DEF RemoveAt, a, b

\* c is the call d, at the same stage or a later one.
Succeeds(c, d) ==
    /\ c.type = d.type /\ c.req = d.req
    /\ d.stage = "expired" => c.stage = "expired"

\* The queue r is q after its i-th call was taken out or became c.
Thinned(r, q, i, c) ==
    /\ \A j \in DOMAIN r : r[j] = c \/ \E k \in DOMAIN q \ {i} : r[j] = q[k]
    /\ \A j, m \in DOMAIN r : j < m =>
          \E k, n \in DOMAIN q : k < n /\ Succeeds(r[j], q[k]) /\ Succeeds(r[m], q[n])

LEMMA RemovedThins ==
    ASSUME NEW S, NEW q \in Seq(S), NEW i \in DOMAIN q, NEW c
    PROVE  /\ Thinned(RemoveAt(q, i), q, i, c)
           /\ \A j \in DOMAIN RemoveAt(q, i) : \E k \in DOMAIN q \ {i} : RemoveAt(q, i)[j] = q[k]
<1> DEFINE r == RemoveAt(q, i)
           at(j) == IF j < i THEN j ELSE j + 1
<1>1. DOMAIN r = 1 .. (Len(q) - 1) /\ \A j \in DOMAIN r : r[j] = q[at(j)]
  BY RemoveAtElements
<1>2. DOMAIN q = 1 .. Len(q) /\ Len(q) \in Nat /\ i \in 1 .. Len(q)
  OBVIOUS
<1> HIDE DEF r
<1>3. \A j \in DOMAIN r : at(j) \in DOMAIN q \ {i}
  BY <1>1, <1>2
<1>4. \A j, m \in DOMAIN r : j < m => at(j) < at(m)
  BY <1>1, <1>2
<1>5. \A j \in DOMAIN r : Succeeds(r[j], q[at(j)])
  BY <1>1 DEF Succeeds
<1> HIDE DEF at
<1>6. \A j \in DOMAIN r : \E k \in DOMAIN q \ {i} : r[j] = q[k]
  BY <1>1, <1>3
<1>7. Thinned(r, q, i, c)
  BY <1>3, <1>4, <1>5, <1>6 DEF Thinned
<1> QED
  BY <1>6, <1>7 DEF r

LEMMA ChangedThins ==
    ASSUME NEW S, NEW q \in Seq(S), NEW i \in DOMAIN q, NEW c, Succeeds(c, q[i])
    PROVE  Thinned([q EXCEPT ![i] = c], q, i, c)
<1> DEFINE r == [q EXCEPT ![i] = c]
<1>1. DOMAIN r = DOMAIN q /\ r[i] = c /\ \A j \in DOMAIN q \ {i} : r[j] = q[j]
  OBVIOUS
<1> HIDE DEF r
<1>2. \A j \in DOMAIN r : Succeeds(r[j], q[j])
  BY <1>1 DEF Succeeds
<1>3. Thinned(r, q, i, c)
  BY <1>1, <1>2 DEF Thinned
<1> QED
  BY <1>3 DEF r

-----------------------------------------------------------------------------
(* Leaders and followers *)

\* The clusters of servers and accounts.
LEMMA ClusterIsOne ==
    /\ \A s \in Server : \A f \in stubs(s) :
          /\ f \in Server /\ f # s /\ s \in stubs(f)
          /\ getClusterIdFromServerId(f) = getClusterIdFromServerId(s)
    /\ \A s \in Server : stubs(s) \subseteq Server
  BY DEF stubs, getServersInCluster

\* With one leader per cluster, no follower leads.
LEMMA FollowersDoNotLead ==
    ASSUME StableLeaders, NEW l \in Server, NEW f, Follows(f, l)
    PROVE  /\ f \in Server /\ f # l /\ ~Leads(f)
           /\ getClusterIdFromServerId(f) = getClusterIdFromServerId(l)
<1>1. f \in Server /\ f # l /\ getClusterIdFromServerId(f) = getClusterIdFromServerId(l)
  BY ClusterIsOne DEF Follows
<1>2. PICK i \in DOMAIN Sets : Sets[i].leaders[getClusterIdFromServerId(l)] = l
  BY DEF Follows, Leads
<1>3. ASSUME Leads(f) PROVE FALSE
  <2>1. PICK j \in DOMAIN Sets : Sets[j].leaders[getClusterIdFromServerId(f)] = f
    BY <1>3 DEF Leads
  <2>2. Sets[i].leaders = Sets[j].leaders
    BY DEF StableLeaders
  <2> QED
    BY <1>1, <1>2, <2>1, <2>2
<1> QED
  BY <1>1, <1>3

\* A local transfer is between two accounts of the server's shard.
LEMMA LocalIsHeld ==
    ASSUME IntraShard, NEW s \in Server, NEW tid \in Tid, IsLocal(s, tid)
    PROVE  BothHeld(s, tid)
  BY DEF IntraShard, cross_shard, SenderCluster, ReceiverCluster, IsLocal, BothHeld,
         HeldAccounts, Accounts, InClusterOf, isClientInCluster

\* Nothing is ever decided.
LEMMA NoDecisions ==
    ASSUME AtomicityInv, IntraShard
    PROVE  decisions = {}
<1> SUFFICES ASSUME NEW d \in decisions PROVE FALSE
  OBVIOUS
<1>1. d.tid \in Tid
  BY DEF AtomicityInv, TypeOK, RpcTypeOK, Decision
<1>2. outcome[d.tid] # "none"
  BY DEF AtomicityInv, DecisionsFollowOutcome
<1> QED
  BY <1>1, <1>2 DEF AtomicityInv, VotesConserved, IntraShard

-----------------------------------------------------------------------------
(* The types the arguments below rest on *)

AcceptorNumbers(s) ==
    /\ acceptor[s].ballot_num \in Nat
    /\ acceptor[s].promised_num.num \in Nat
    /\ acceptor[s].accept_num.num \in Nat

LogNumbers(s) ==
    /\ log[s] \in Seq(WALEntry)
    /\ Len(log[s]) \in Nat /\ DOMAIN log[s] = 1 .. Len(log[s])
    /\ \A k \in DOMAIN log[s] : log[s][k].ballot.num \in Nat

CallNumbers(c) ==
    /\ c.req.ballot.num \in Nat
    /\ c.req.last_inserted \in Int /\ c.req.last_inserted >= -1
    /\ c.res.latest_ballot_num \in Nat
    /\ c.res.last_inserted \in Int
    /\ c.res.last_inserted_ballot.num \in Nat
    /\ c.res.logs \in Seq(WALEntry)
    /\ Len(c.res.logs) \in Nat /\ DOMAIN c.res.logs = 1 .. Len(c.res.logs)

QueueNumbers(s, t) ==
    /\ chan[s][t] \in Seq(OutCall)
    /\ Len(chan[s][t]) \in Nat /\ DOMAIN chan[s][t] = 1 .. Len(chan[s][t])
    /\ \A i \in DOMAIN chan[s][t] : CallNumbers(chan[s][t][i])

LEMMA CallHasNumbers ==
    ASSUME NEW c \in OutCall
    PROVE  CallNumbers(c)
<1>1. c.req \in Request /\ c.res \in Response
  BY DEF OutCall
<1>2. c.req.ballot \in Ballot /\ c.req.last_inserted \in Index
  BY <1>1 DEF Request
<1>3. /\ c.res.latest_ballot_num \in Nat /\ c.res.last_inserted \in Index
      /\ c.res.logs \in Seq(WALEntry) /\ c.res.last_inserted_ballot \in Ballot
  BY <1>1 DEF Response
<1>4. Len(c.res.logs) \in Nat /\ DOMAIN c.res.logs = 1 .. Len(c.res.logs)
  BY <1>3
<1> QED
  BY <1>2, <1>3, <1>4 DEF CallNumbers, Ballot, Index

LEMMA Numbers ==
    ASSUME TypeOK
    PROVE  /\ \A s \in Server : AcceptorNumbers(s) /\ LogNumbers(s)
           /\ \A s, t \in Server : QueueNumbers(s, t)
           /\ acceptor \in [Server -> Acceptor] /\ round \in [Server -> Round]
           /\ log \in [Server -> Seq(WALEntry)]
           /\ last_inserted \in [Server -> Index]
           /\ last_inserted_ballot \in [Server -> Ballot]
           /\ in_sync \in [Server -> BOOLEAN]
           /\ chan \in [Server -> [Server -> Seq(OutCall)]]
<1>0. /\ acceptor \in [Server -> Acceptor] /\ round \in [Server -> Round]
      /\ log \in [Server -> Seq(WALEntry)]
      /\ last_inserted \in [Server -> Index]
      /\ last_inserted_ballot \in [Server -> Ballot]
      /\ in_sync \in [Server -> BOOLEAN]
      /\ chan \in [Server -> [Server -> Seq(OutCall)]]
  BY DEF TypeOK, ServerTypeOK
<1>1. ASSUME NEW s \in Server PROVE AcceptorNumbers(s)
  <2>1. acceptor[s] \in Acceptor
    BY <1>0
  <2>2. acceptor[s].ballot_num \in Nat /\ acceptor[s].promised_num \in Ballot
        /\ acceptor[s].accept_num \in Ballot
    BY <2>1 DEF Acceptor
  <2> QED
    BY <2>2 DEF AcceptorNumbers, Ballot
<1>2. ASSUME NEW s \in Server PROVE LogNumbers(s)
  <2>1. log[s] \in Seq(WALEntry) /\ Len(log[s]) \in Nat /\ DOMAIN log[s] = 1 .. Len(log[s])
    BY <1>0
  <2>2. ASSUME NEW k \in DOMAIN log[s] PROVE log[s][k].ballot.num \in Nat
    <3>1. log[s][k] \in WALEntry
      BY <2>1, ElementOfSeq
    <3> QED
      BY <3>1 DEF WALEntry, Ballot
  <2> QED
    BY <2>1, <2>2 DEF LogNumbers
<1>3. ASSUME NEW s \in Server, NEW t \in Server PROVE QueueNumbers(s, t)
  <2>1. chan[s][t] \in Seq(OutCall) /\ Len(chan[s][t]) \in Nat
        /\ DOMAIN chan[s][t] = 1 .. Len(chan[s][t])
    BY <1>0
  <2>2. ASSUME NEW k \in DOMAIN chan[s][t] PROVE CallNumbers(chan[s][t][k])
    <3>1. chan[s][t][k] \in OutCall
      BY <2>1, ElementOfSeq
    <3> QED
      BY <3>1, CallHasNumbers
  <2> QED
    BY <2>1, <2>2 DEF QueueNumbers
<1> QED
  BY <1>0, <1>1, <1>2, <1>3

-----------------------------------------------------------------------------
(* The links a step leaves alone, and the queues it thins *)

\* What the link of f to l depends on, but for the two queues.
EndsKept(l, f) ==
    /\ acceptor'[l] = acceptor[l] /\ acceptor'[f] = acceptor[f]
    /\ log'[l] = log[l] /\ log'[f] = log[f]
    /\ last_inserted'[l] = last_inserted[l]

\* The four parts of a link read nothing else.
LEMMA PartsKept ==
    ASSUME NEW l, NEW f, EndsKept(l, f)
    PROVE  /\ FollowerLog(l, f) => FollowerLog(l, f)'
           /\ FollowerBallots(l, f) => FollowerBallots(l, f)'
           /\ \A c : CallSound(l, f, c) => CallSound(l, f, c)'
           /\ \A c : SyncSound(l, f, c) => SyncSound(l, f, c)'
<1>1. FollowerLog(l, f) => FollowerLog(l, f)'
  BY DEF EndsKept, FollowerLog
<1>2. FollowerBallots(l, f) => FollowerBallots(l, f)'
  BY DEF EndsKept, FollowerBallots, IsProposal, HasBelow
<1>3. \A c : CallSound(l, f, c) => CallSound(l, f, c)'
  BY DEF EndsKept, CallSound, IsProposal, HasBelow
<1>4. \A c : SyncSound(l, f, c) => SyncSound(l, f, c)'
  BY DEF EndsKept, SyncSound
<1> QED
  BY <1>1, <1>2, <1>3, <1>4

LEMMA LinkKept ==
    ASSUME NEW l, NEW f, Link(l, f), EndsKept(l, f),
           chan'[l][f] = chan[l][f], chan'[f][l] = chan[f][l]
    PROVE  Link(l, f)'
<1>1. FollowerLog(l, f)' /\ FollowerBallots(l, f)'
  BY PartsKept DEF Link
<1>2. CallsSound(l, f)'
  BY PartsKept DEF Link, CallsSound, InOrder
<1>3. SyncsSound(l, f)'
  BY PartsKept DEF Link, SyncsSound
<1> QED
  BY <1>1, <1>2, <1>3 DEF Link

\* A call ends, or goes on to its next stage.
LEMMA CallsThin ==
    ASSUME NEW l, NEW f, CallsSound(l, f),
           NEW i \in DOMAIN chan[l][f], NEW c, Thinned(chan'[l][f], chan[l][f], i, c),
           \/ CallSound(l, f, c)'
           \/ \A j \in DOMAIN chan'[l][f] :
                 \E k \in DOMAIN chan[l][f] \ {i} : chan'[l][f][j] = chan[l][f][k],
           \A k \in DOMAIN chan[l][f] \ {i} : \A d :
               d = chan[l][f][k] => CallSound(l, f, d)'
    PROVE  CallsSound(l, f)'
<1>1. ASSUME NEW j \in DOMAIN chan'[l][f] PROVE CallSound(l, f, chan[l][f][j])'
  BY <1>1 DEF Thinned
<1>2. ASSUME NEW j \in DOMAIN chan'[l][f], NEW m \in DOMAIN chan'[l][f], j < m
      PROVE  InOrder(chan'[l][f][j], chan'[l][f][m])
  <2>1. PICK k \in DOMAIN chan[l][f], n \in DOMAIN chan[l][f] :
            /\ k < n /\ Succeeds(chan'[l][f][j], chan[l][f][k])
            /\ Succeeds(chan'[l][f][m], chan[l][f][n])
    BY <1>2 DEF Thinned
  <2>2. InOrder(chan[l][f][k], chan[l][f][n])
    BY <2>1 DEF CallsSound
  <2> QED
    BY <2>1, <2>2 DEF InOrder, Succeeds
<1> QED
  BY <1>1, <1>2 DEF CallsSound, InOrder

LEMMA SyncsThin ==
    ASSUME NEW l, NEW f, SyncsSound(l, f),
           NEW i \in DOMAIN chan[f][l], NEW c, Thinned(chan'[f][l], chan[f][l], i, c),
           \/ SyncSound(l, f, c)'
           \/ \A j \in DOMAIN chan'[f][l] :
                 \E k \in DOMAIN chan[f][l] \ {i} : chan'[f][l][j] = chan[f][l][k],
           \A k \in DOMAIN chan[f][l] \ {i} : \A d :
               d = chan[f][l][k] => SyncSound(l, f, d)'
    PROVE  SyncsSound(l, f)'
<1>1. ASSUME NEW j \in DOMAIN chan'[f][l] PROVE SyncSound(l, f, chan[f][l][j])'
  BY <1>1 DEF Thinned
<1> QED
  BY <1>1 DEF SyncsSound

\* A call is added at the end.
LEMMA CallsGrow ==
    ASSUME NEW l, NEW f, CallsSound(l, f), chan[l][f] \in Seq(OutCall), NEW c \in OutCall,
           chan'[l][f] = Append(chan[l][f], c),
           CallSound(l, f, c)',
           \A i \in DOMAIN chan[l][f] : \A d : d = chan[l][f][i] => CallSound(l, f, d)',
           \A i \in DOMAIN chan[l][f] : InOrder(chan[l][f][i], c)
    PROVE  CallsSound(l, f)'
<1> DEFINE n == Len(chan[l][f])
<1>1. /\ n \in Nat /\ DOMAIN chan[l][f] = 1 .. n /\ DOMAIN chan'[l][f] = 1 .. (n + 1)
      /\ chan'[l][f][n + 1] = c
      /\ \A j \in 1 .. n : chan'[l][f][j] = chan[l][f][j]
  BY AppendProperties
<1> HIDE DEF n
<1>2. ASSUME NEW j \in DOMAIN chan'[l][f] PROVE CallSound(l, f, chan[l][f][j])'
  <2>1. CASE j = n + 1
    BY <1>1, <2>1
  <2>2. CASE j \in 1 .. n
    BY <1>1, <2>2 DEF CallsSound
  <2> QED
    BY <1>1, <2>1, <2>2
<1>3. ASSUME NEW j \in DOMAIN chan'[l][f], NEW m \in DOMAIN chan'[l][f], j < m
      PROVE  InOrder(chan'[l][f][j], chan'[l][f][m])
  <2>1. j \in 1 .. n
    BY <1>1, <1>3
  <2>2. CASE m = n + 1
    BY <1>1, <2>1, <2>2
  <2>3. CASE m \in 1 .. n
    BY <1>1, <1>3, <2>1, <2>3 DEF CallsSound
  <2> QED
    BY <1>1, <2>2, <2>3
<1> QED
  BY <1>2, <1>3 DEF CallsSound, InOrder

-----------------------------------------------------------------------------
(* What one step may change *)

\* The state of s that other servers see the effects of.
ServerKept(s) ==
    /\ acceptor'[s] = acceptor[s] /\ log'[s] = log[s]
    /\ last_inserted'[s] = last_inserted[s]
    /\ last_inserted_ballot'[s] = last_inserted_ballot[s]
    /\ in_sync'[s] = in_sync[s]

\* The calls of the client and the answers of s to them.
AskedLess(s) ==
    \A tid \in Tid :
        <<s, tid>> \in inCalls' \/ SaidYes(s, tid)' => <<s, tid>> \in inCalls \/ SaidYes(s, tid)

\* A leader reads nothing but its own state.
LEMMA LeaderKept ==
    ASSUME NEW l, ServerKept(l), round'[l] = round[l]
    PROVE  (LeaderRound(l) => LeaderRound(l)') /\ (LeaderLog(l) => LeaderLog(l)')
  BY DEF ServerKept, LeaderRound, LeaderLog, HasBelow

\* A step between l and its follower f that changes the state of f, the round
\* of l and the calls between them.
PairChanges(l, f) ==
    /\ \A s \in Server \ {f} : ServerKept(s)
    /\ \A s \in Server \ {l} : round'[s] = round[s]
    /\ \A s, t \in Server : <<s, t>> \notin {<<l, f>>, <<f, l>>} => chan'[s][t] = chan[s][t]
    /\ \A s \in Server : AskedLess(s)
    /\ last_inserted'[f] = Len(log'[f]) - 1
    /\ \A j \in DOMAIN chan'[l][f] : chan'[l][f][j].type # "SYNC"
    /\ \A j \in DOMAIN chan'[f][l] : chan'[f][l][j].type = "SYNC"

LEMMA PairStep ==
    ASSUME StableLeaders, Replicated, NEW l \in Server, NEW f \in Server, Follows(f, l),
           PairChanges(l, f), LeaderRound(l)', Link(l, f)'
    PROVE  Replicated'
<1>0. f # l /\ ~Leads(f) /\ \A m \in Server : Follows(f, m) => m = l
  <2>1. f # l /\ ~Leads(f) /\ getClusterIdFromServerId(f) = getClusterIdFromServerId(l)
    BY FollowersDoNotLead
  <2>2. ASSUME NEW m \in Server, Follows(f, m), m # l PROVE FALSE
    <3>1. getClusterIdFromServerId(f) = getClusterIdFromServerId(m) /\ Leads(m) /\ Leads(l)
      BY <2>2, FollowersDoNotLead DEF Follows
    <3>2. m \in stubs(l)
      BY <2>1, <2>2, <3>1 DEF stubs, getServersInCluster
    <3> QED
      BY <3>1, <3>2, FollowersDoNotLead DEF Follows
  <2> QED
    BY <2>1, <2>2
<1>1. Roles'
  <2>1. \A s \in Server, tid \in Tid :
            <<s, tid>> \in inCalls' \/ SaidYes(s, tid)' => Leads(s) /\ IsLocal(s, tid)
    BY DEF PairChanges, AskedLess, Replicated, Roles
  <2>2. \A s \in Server :
            IF Leads(s) THEN ~in_sync'[s]
            ELSE ~round'[s].await_prepare_decision /\ ~round'[s].await_accept_decision
    BY <1>0 DEF PairChanges, ServerKept, Replicated, Roles, Follows
  <2>3. ASSUME NEW s \in Server, NEW t \in Server, NEW i \in DOMAIN chan'[s][t]
        PROVE  IF chan'[s][t][i].type = "SYNC" THEN Follows(s, t) ELSE Follows(t, s)
    <3>1. CASE <<s, t>> \in {<<l, f>>, <<f, l>>}
      BY <2>3, <3>1 DEF PairChanges
    <3>2. CASE <<s, t>> \notin {<<l, f>>, <<f, l>>}
      BY <2>3, <3>2 DEF PairChanges, Replicated, Roles
    <3> QED
      BY <3>1, <3>2
  <2> QED
    BY <2>1, <2>2, <2>3 DEF Roles, Follows, Leads, IsLocal
<1>2. \A s \in Server : last_inserted'[s] = Len(log'[s]) - 1
  BY DEF PairChanges, ServerKept, Replicated
<1>l. ASSUME NEW s \in Server PROVE Led(s)'
  <2>1. CASE s = f
    <3>1. l \in Replicas(f) /\ Leads(l)
      BY ClusterIsOne DEF Follows, Replicas
    <3> QED
      BY <2>1, <3>1 DEF Led, Leads
  <2>2. CASE s # f
    BY <2>2 DEF Led, Leads, PairChanges, ServerKept, Replicated
  <2> QED
    BY <2>1, <2>2
<1>3. ASSUME NEW m \in Server, Leads(m)
      PROVE  /\ LeaderRound(m)' /\ LeaderLog(m)'
             /\ \A g \in stubs(m) : Link(m, g)'
  <2>1. m # f /\ ServerKept(m) /\ LeaderRound(m) /\ LeaderLog(m)
    BY <1>0, <1>3 DEF PairChanges, Replicated
  <2>2. LeaderLog(m)'
    BY <2>1 DEF LeaderLog, ServerKept
  <2>3. LeaderRound(m)'
    <3>1. CASE m = l
      BY <3>1
    <3>2. CASE m # l
      BY <2>1, <3>2, LeaderKept DEF PairChanges
    <3> QED
      BY <3>1, <3>2
  <2>4. ASSUME NEW g \in stubs(m) PROVE Link(m, g)'
    <3>1. g \in Server /\ g # m /\ Follows(g, m) /\ Link(m, g)
      BY <1>3, <2>4, ClusterIsOne DEF Follows, Replicated
    <3>2. CASE g = f
      BY <1>0, <3>1, <3>2
    <3>3. CASE g # f
      <4>1. g # l
        BY <3>1, FollowersDoNotLead DEF Follows
      <4>2. EndsKept(m, g)
        BY <2>1, <3>1, <3>3 DEF PairChanges, EndsKept, ServerKept
      <4>3. chan'[m][g] = chan[m][g] /\ chan'[g][m] = chan[g][m]
        BY <2>1, <3>1, <3>3, <4>1 DEF PairChanges
      <4> QED
        BY <3>1, <4>2, <4>3, LinkKept
    <3> QED
      BY <3>2, <3>3
  <2> QED
    BY <2>2, <2>3, <2>4
<1> QED
  BY <1>1, <1>2, <1>l, <1>3 DEF Replicated, Leads

\* A step of the leader l alone, which may call all its followers.
LeaderChanges(l) ==
    /\ \A s \in Server \ {l} : ServerKept(s) /\ round'[s] = round[s]
    /\ \A s, t \in Server : s # l => chan'[s][t] = chan[s][t]
    /\ \A s \in Server : AskedLess(s)
    /\ ~in_sync'[l]
    /\ last_inserted'[l] = Len(log'[l]) - 1
    /\ \A t \in Server : t \notin stubs(l) => chan'[l][t] = chan[l][t]
    /\ \A t \in stubs(l) : \A j \in DOMAIN chan'[l][t] : chan'[l][t][j].type # "SYNC"

LEMMA LeaderStep ==
    ASSUME StableLeaders, Replicated, NEW l \in Server, Leads(l),
           LeaderChanges(l), LeaderRound(l)', LeaderLog(l)',
           \A f \in stubs(l) : Link(l, f)'
    PROVE  Replicated'
<1>1. Roles'
  <2>1. \A s \in Server, tid \in Tid :
            <<s, tid>> \in inCalls' \/ SaidYes(s, tid)' => Leads(s) /\ IsLocal(s, tid)
    BY DEF LeaderChanges, AskedLess, Replicated, Roles
  <2>2. \A s \in Server :
            IF Leads(s) THEN ~in_sync'[s]
            ELSE ~round'[s].await_prepare_decision /\ ~round'[s].await_accept_decision
    BY DEF LeaderChanges, ServerKept, Replicated, Roles
  <2>3. ASSUME NEW s \in Server, NEW t \in Server, NEW i \in DOMAIN chan'[s][t]
        PROVE  IF chan'[s][t][i].type = "SYNC" THEN Follows(s, t) ELSE Follows(t, s)
    <3>1. CASE s = l /\ t \in stubs(l)
      BY <2>3, <3>1 DEF LeaderChanges, Follows
    <3>2. CASE ~(s = l /\ t \in stubs(l))
      BY <2>3, <3>2 DEF LeaderChanges, Replicated, Roles
    <3> QED
      BY <3>1, <3>2
  <2> QED
    BY <2>1, <2>2, <2>3 DEF Roles, Follows, Leads, IsLocal
<1>2. \A s \in Server : last_inserted'[s] = Len(log'[s]) - 1
  BY DEF LeaderChanges, ServerKept, Replicated
<1>l. ASSUME NEW s \in Server PROVE Led(s)'
  <2>1. CASE s = l
    BY <2>1 DEF Led, Leads, Replicas
  <2>2. CASE s # l
    BY <2>2 DEF Led, Leads, LeaderChanges, ServerKept, Replicated
  <2> QED
    BY <2>1, <2>2
<1>3. ASSUME NEW m \in Server, Leads(m), m # l
      PROVE  /\ LeaderRound(m)' /\ LeaderLog(m)'
             /\ \A g \in stubs(m) : Link(m, g)'
  <2>1. ServerKept(m) /\ LeaderRound(m) /\ LeaderLog(m) /\ round'[m] = round[m]
    BY <1>3 DEF LeaderChanges, Replicated
  <2>2. LeaderLog(m)' /\ LeaderRound(m)'
    BY <2>1, LeaderKept
  <2>4. ASSUME NEW g \in stubs(m) PROVE Link(m, g)'
    <3>1. g \in Server /\ g # m /\ Follows(g, m) /\ Link(m, g)
      BY <1>3, <2>4, ClusterIsOne DEF Follows, Replicated
    <3>2. g # l
      BY <3>1, FollowersDoNotLead
    <3>3. EndsKept(m, g) /\ chan'[m][g] = chan[m][g] /\ chan'[g][m] = chan[g][m]
      BY <1>3, <2>1, <3>1, <3>2 DEF LeaderChanges, EndsKept, ServerKept
    <3> QED
      BY <3>1, <3>3, LinkKept
  <2> QED
    BY <2>2, <2>4
<1> QED
  BY <1>1, <1>2, <1>l, <1>3 DEF Replicated, Leads

-----------------------------------------------------------------------------
(* The leader runs a round *)

\* A server with a call to run is the leader of the cluster of the transfer.
LEMMA RunnerLeads ==
    ASSUME Replicated, NEW s \in Server, NEW tid \in Tid, MayRun(s, tid)
    PROVE  Leads(s) /\ IsLocal(s, tid) /\ ~in_sync[s]
  BY DEF Replicated, Roles, MayRun

\* What SendAll does to the queues.
LEMMA SentToAll ==
    ASSUME NEW l \in Server, NEW c, SendAll(l, c), chan \in [Server -> [Server -> Seq(OutCall)]]
    PROVE  /\ \A s, t \in Server : s # l => chan'[s][t] = chan[s][t]
           /\ \A t \in Server : t \notin stubs(l) => chan'[l][t] = chan[l][t]
           /\ \A t \in stubs(l) : chan'[l][t] = Append(chan[l][t], c)
  BY StubsAreServers DEF SendAll

\* The last call of a queue is no Sync, and the others were none before.
LEMMA SentNoSync ==
    ASSUME Replicated, StableLeaders, NEW l \in Server, Leads(l), NEW c \in OutCall,
           c.type # "SYNC", SendAll(l, c), chan \in [Server -> [Server -> Seq(OutCall)]]
    PROVE  \A t \in stubs(l) : \A j \in DOMAIN chan'[l][t] : chan'[l][t][j].type # "SYNC"
<1> SUFFICES ASSUME NEW t \in stubs(l), NEW j \in DOMAIN chan'[l][t]
             PROVE  chan'[l][t][j].type # "SYNC"
  OBVIOUS
<1>1. t \in Server /\ chan[l][t] \in Seq(OutCall) /\ chan'[l][t] = Append(chan[l][t], c)
  BY SentToAll, StubsAreServers
<1>2. \A i \in DOMAIN chan[l][t] : chan[l][t][i].type # "SYNC"
  <2>1. ~Leads(t)
    BY FollowersDoNotLead DEF Follows
  <2> QED
    BY <1>1, <2>1 DEF Replicated, Roles, Follows
<1> QED
  BY <1>1, <1>2, AppendProperties

\* The calls in a queue, one by one.
LEMMA QueuedCalls ==
    ASSUME TypeOK, NEW l \in Server, NEW f \in Server, Link(l, f), NEW i \in DOMAIN chan[l][f]
    PROVE  /\ chan[l][f][i] \in OutCall /\ CallNumbers(chan[l][f][i])
           /\ CallSound(l, f, chan[l][f][i])
           /\ chan[l][f][i].req.ballot.num \in Nat
           /\ chan[l][f][i].req.ballot.num =< acceptor[l].ballot_num
<1>1. QueueNumbers(l, f) /\ CallSound(l, f, chan[l][f][i])
  BY Numbers DEF Link, CallsSound
<1>2. chan[l][f][i] \in OutCall
  BY <1>1, ElementOfSeq DEF QueueNumbers
<1> QED
  BY <1>1, <1>2 DEF QueueNumbers, CallNumbers, CallSound

\* startRound: the ballot of the round is above all that was ever seen, and all
\* entries of the leader are below it.
LEMMA StartRoundReplicates ==
    ASSUME StableLeaders, TypeOK, Replicated, NEW l \in Server, NEW tid \in Tid,
           startRound(l, tid), acked' = acked
    PROVE  Replicated' /\ LeaderChanges(l) /\ Leads(l)
<1>b. PICK b : b = [num |-> acceptor[l].ballot_num + 1, server_id |-> l]
  OBVIOUS
<1>c. PICK c : c = prepareCall(b, last_inserted[l])
  OBVIOUS
<1>0. /\ Leads(l) /\ ~in_sync[l] /\ LeaderRound(l) /\ LeaderLog(l)
      /\ \A f \in stubs(l) : f \in Server /\ f # l /\ Link(l, f)
  BY RunnerLeads, ClusterIsOne DEF startRound, Replicated
<1>1. /\ acceptor' = [acceptor EXCEPT ![l].ballot_num = b.num, ![l].promised = TRUE,
                                      ![l].promised_num = b]
      /\ round' = [round EXCEPT ![l].paxos_tid = tid, ![l].await_prepare_decision = TRUE,
                                ![l].prepare_successes = 1, ![l].prepare_failures = 0]
      /\ ~round[l].await_accept_decision
  BY <1>b DEF startRound
<1>a. /\ log' = log /\ last_inserted' = last_inserted /\ in_sync' = in_sync
      /\ last_inserted_ballot' = last_inserted_ballot
      /\ inCalls' = inCalls /\ replies' = replies /\ SendAll(l, c)
  BY <1>b, <1>c DEF startRound, storeVars, rpcVars
<1>2. b \in Ballot /\ b.num = acceptor[l].ballot_num + 1 /\ b.num \in Nat
  BY <1>b, Numbers DEF AcceptorNumbers, Ballot
<1>3. /\ c \in OutCall /\ c.type = "PREPARE" /\ c.req.ballot = b
      /\ c.req.last_inserted = last_inserted[l]
      /\ c.res.latest_ballot_num = NoLatest /\ c.res.last_inserted = -1
  <2>1. last_inserted[l] \in Index /\ NoTid \in Tid \cup {NoTid} /\ "PREPARE" \in CallType
    BY Numbers DEF CallType
  <2>2. c \in SoundCall
    BY <1>c, <1>2, <2>1, NewCallSound DEF prepareCall
  <2> QED
    BY <1>c, <2>2 DEF prepareCall, NewCall, SoundCall, Nack, NoInserted
<1>4. /\ acceptor'[l].ballot_num = acceptor[l].ballot_num + 1 /\ acceptor'[l].promised_num = b
      /\ acceptor'[l].accept_num = acceptor[l].accept_num
      /\ acceptor'[l].accept_val = acceptor[l].accept_val
      /\ \A s \in Server \ {l} : acceptor'[s] = acceptor[s]
  BY <1>1, <1>2, Numbers DEF Acceptor
<1>5. /\ ~round'[l].await_accept_decision
      /\ \A s \in Server \ {l} : round'[s] = round[s]
  BY <1>1, Numbers DEF Round
<1>6. LeaderChanges(l)
  <2>1. \A s \in Server : AskedLess(s)
    BY <1>a DEF AskedLess, SaidYes
  <2>2. \A t \in stubs(l) : \A j \in DOMAIN chan'[l][t] : chan'[l][t][j].type # "SYNC"
    BY <1>0, <1>a, <1>3, SentNoSync, Numbers
  <2> QED
    BY <1>0, <1>a, <1>4, <1>5, <2>1, <2>2, SentToAll, Numbers
       DEF LeaderChanges, ServerKept, Replicated
<1>7. LeaderRound(l)'
  BY <1>0, <1>b, <1>4, <1>5, Numbers DEF LeaderRound, AcceptorNumbers
<1>8. LeaderLog(l)'
  BY <1>0, <1>a, <1>4 DEF LeaderLog
<1>9. ASSUME NEW f \in stubs(l) PROVE Link(l, f)'
  <2>0. f \in Server /\ f # l /\ Link(l, f) /\ AcceptorNumbers(l) /\ AcceptorNumbers(f)
        /\ LogNumbers(l) /\ LogNumbers(f)
    BY <1>0, Numbers
  <2>1. FollowerLog(l, f)'
    BY <1>a, <1>4, <2>0 DEF Link, FollowerLog
  <2>2. \A x, y : IsProposal(l, x, y) => IsProposal(l, x, y)'
    BY <1>a, <1>4 DEF IsProposal
  <2>3. FollowerBallots(l, f)'
    <3>1. acceptor'[f] = acceptor[f] /\ in_sync'[f] = in_sync[f]
      BY <1>a, <1>4, <2>0
    <3> QED
      BY <1>4, <2>0, <2>2, <3>1 DEF Link, FollowerBallots, AcceptorNumbers, IsLocal
  <2>4. ASSUME NEW d, CallNumbers(d), CallSound(l, f, d) PROVE CallSound(l, f, d)'
    <3>1. \A n, len : HasBelow(l, n, len) => HasBelow(l, n, len)'
      BY <1>a DEF HasBelow
    <3>2. acceptor'[f] = acceptor[f] /\ log'[f] = log[f] /\ log'[l] = log[l]
          /\ last_inserted'[l] = last_inserted[l] /\ in_sync'[f] = in_sync[f]
      BY <1>a, <1>4, <2>0
    <3> QED
      BY <1>4, <2>0, <2>2, <2>4, <3>1, <3>2 DEF CallSound, AcceptorNumbers, CallNumbers, IsLocal
  <2>5. CallSound(l, f, c)'
    <3>1. HasBelow(l, b.num, c.req.last_inserted + 1)'
      <4>1. last_inserted[l] + 1 = Len(log[l])
        BY <2>0 DEF Replicated, LogNumbers
      <4>2. \A k \in DOMAIN log[l] : log[l][k].ballot.num < b.num
        BY <1>0, <1>2, <2>0 DEF LeaderLog, LeaderRound, LogNumbers, AcceptorNumbers
      <4> QED
        BY <1>a, <1>2, <1>3, <2>0, <4>1, <4>2 DEF HasBelow, LogNumbers
    <3>2. -1 =< last_inserted'[l]
      BY <1>a, <2>0 DEF LogNumbers, Replicated
    <3> QED
      BY <1>2, <1>3, <1>4, <3>1, <3>2, <2>0 DEF CallSound, AcceptorNumbers
  <2>6. \A i \in DOMAIN chan[l][f] : InOrder(chan[l][f][i], c)
    <3> SUFFICES ASSUME NEW i \in DOMAIN chan[l][f] PROVE InOrder(chan[l][f][i], c)
      OBVIOUS
    <3> QED
      BY <1>2, <1>3, <2>0, QueuedCalls DEF InOrder, AcceptorNumbers
  <2>7. CallsSound(l, f)'
    <3>1. \A i \in DOMAIN chan[l][f] : \A d : d = chan[l][f][i] => CallSound(l, f, d)'
      BY <2>0, <2>4, QueuedCalls
    <3>2. chan'[l][f] = Append(chan[l][f], c) /\ chan[l][f] \in Seq(OutCall)
      BY <1>a, <2>0, SentToAll, Numbers DEF QueueNumbers
    <3> QED
      BY <1>3, <2>0, <2>5, <2>6, <3>1, <3>2, CallsGrow DEF Link
  <2>8. SyncsSound(l, f)'
    <3>1. chan'[f][l] = chan[f][l]
      BY <1>a, <2>0, SentToAll, Numbers
    <3>2. \A d : SyncSound(l, f, d) => SyncSound(l, f, d)'
      BY <1>a DEF SyncSound
    <3> QED
      BY <2>0, <3>1, <3>2 DEF Link, SyncsSound
  <2> QED
    BY <2>1, <2>3, <2>7, <2>8 DEF Link
<1> QED
  BY <1>0, <1>6, <1>7, <1>8, <1>9, LeaderStep

\* The round that waits is the one of the call that runs.
LEMMA WaitsForOwn ==
    ASSUME RoundsLogged, NEW s \in Server, NEW tid, MayRun(s, tid),
           round[s].await_prepare_decision \/ round[s].await_accept_decision
    PROVE  round[s].paxos_tid = tid
  BY DEF RoundsLogged, MayRun

\* proposeTransaction: nothing was proposed in the ballot before.
LEMMA ProposeReplicates ==
    ASSUME StableLeaders, IntraShard, TypeOK, RoundsLogged, Replicated,
           NEW l \in Server, NEW tid \in Tid, proposeTransaction(l, tid), acked' = acked
    PROVE  Replicated' /\ LeaderChanges(l) /\ Leads(l)
<1>b. PICK b : b = acceptor[l].promised_num
  OBVIOUS
<1>c. PICK c : c = acceptCall(b, tid)
  OBVIOUS
<1>0. /\ Leads(l) /\ ~in_sync[l] /\ LeaderRound(l) /\ LeaderLog(l) /\ IsLocal(l, tid)
      /\ \A f \in stubs(l) : f \in Server /\ f # l /\ Link(l, f) /\ IsLocal(f, tid)
      /\ round[l].await_prepare_decision /\ round[l].paxos_tid = tid
  <2>1. Leads(l) /\ ~in_sync[l] /\ round[l].await_prepare_decision /\ IsLocal(l, tid)
        /\ round[l].paxos_tid = tid
    BY RunnerLeads, WaitsForOwn DEF proposeTransaction, PrepareDecided
  <2> QED
    BY <2>1, ClusterIsOne DEF Replicated, IsLocal
<1>1. /\ acceptor' = [acceptor EXCEPT ![l].accepted = TRUE, ![l].accept_num = b,
                                      ![l].accept_val = tid]
      /\ round' = [round EXCEPT ![l].await_prepare_decision = FALSE,
                                ![l].await_accept_decision = TRUE,
                                ![l].accept_successes = 1, ![l].accept_failures = 0]
  BY <1>b DEF proposeTransaction
<1>a. /\ log' = log /\ last_inserted' = last_inserted /\ in_sync' = in_sync
      /\ last_inserted_ballot' = last_inserted_ballot
      /\ inCalls' = inCalls /\ replies' = replies /\ SendAll(l, c)
  BY <1>b, <1>c DEF proposeTransaction, storeVars, rpcVars, IntraShard
<1>2. /\ AcceptorNumbers(l) /\ LogNumbers(l)
      /\ b = [num |-> acceptor[l].ballot_num, server_id |-> l]
      /\ b \in Ballot /\ b.num = acceptor[l].ballot_num /\ b.num \in Nat /\ b.num # 0
      /\ acceptor[l].accept_num.num < b.num
  <2>1. AcceptorNumbers(l) /\ LogNumbers(l)
    BY Numbers
  <2>2. acceptor[l].accept_num.num < acceptor[l].ballot_num
    BY <1>0 DEF LeaderRound
  <2>3. b = [num |-> acceptor[l].ballot_num, server_id |-> l]
    BY <1>b, <1>0, <2>1, <2>2 DEF LeaderRound, AcceptorNumbers
  <2> QED
    BY <2>1, <2>2, <2>3 DEF AcceptorNumbers, Ballot
<1>3. c \in OutCall /\ c.type = "ACCEPT" /\ c.req.ballot = b /\ c.req.r = tid
  <2>1. NoInserted \in Index /\ "ACCEPT" \in CallType
    BY DEF CallType, Index, NoInserted
  <2>2. c \in SoundCall
    BY <1>c, <1>2, <2>1, NewCallSound DEF acceptCall
  <2> QED
    BY <1>c, <2>2 DEF acceptCall, NewCall, SoundCall
<1>4. /\ acceptor'[l].ballot_num = acceptor[l].ballot_num /\ acceptor'[l].promised_num = b
      /\ acceptor'[l].accept_num = b /\ acceptor'[l].accept_val = tid /\ acceptor'[l].accepted
      /\ \A s \in Server \ {l} : acceptor'[s] = acceptor[s]
  BY <1>1, <1>b, Numbers DEF Acceptor
<1>5. /\ ~round'[l].await_prepare_decision /\ round'[l].paxos_tid = tid
      /\ \A s \in Server \ {l} : round'[s] = round[s]
  BY <1>0, <1>1, Numbers DEF Round
<1>6. LeaderChanges(l)
  <2>1. \A s \in Server : AskedLess(s)
    BY <1>a DEF AskedLess, SaidYes
  <2>2. \A t \in stubs(l) : \A j \in DOMAIN chan'[l][t] : chan'[l][t][j].type # "SYNC"
    BY <1>0, <1>a, <1>3, SentNoSync, Numbers
  <2> QED
    BY <1>0, <1>a, <1>4, <1>5, <2>1, <2>2, SentToAll, Numbers
       DEF LeaderChanges, ServerKept, Replicated
<1>7. \A k \in DOMAIN log[l] : log[l][k].ballot.num \in Nat /\ log[l][k].ballot.num < b.num
  BY <1>0, <1>2 DEF LeaderLog, LogNumbers, AcceptorNumbers
<1>8. LeaderRound(l)'
  <2>1. HasBelow(l, b.num, Len(log[l]))'
    BY <1>a, <1>2, <1>7 DEF HasBelow, LogNumbers
  <2> QED
    BY <1>2, <1>4, <1>5, <2>1 DEF LeaderRound
<1>9. LeaderLog(l)'
  BY <1>0, <1>a, <1>2, <1>4, <1>7 DEF LeaderLog
<1>10. ASSUME NEW f \in stubs(l) PROVE Link(l, f)'
  <2>0. /\ f \in Server /\ f # l /\ Link(l, f) /\ IsLocal(f, tid)
        /\ AcceptorNumbers(f) /\ LogNumbers(f)
        /\ acceptor'[f] = acceptor[f] /\ in_sync'[f] = in_sync[f]
    BY <1>0, <1>a, <1>4, Numbers
  <2>1. FollowerLog(l, f)'
    BY <1>a, <2>0 DEF Link, FollowerLog
  <2>2. ASSUME NEW x, NEW y, x.num \in Nat, IsProposal(l, x, y) PROVE IsProposal(l, x, y)'
    BY <1>a, <1>2, <1>4, <2>2 DEF IsProposal, AcceptorNumbers
  <2>3. \A n, len : HasBelow(l, n, len) <=> HasBelow(l, n, len)'
    BY <1>a DEF HasBelow
  <2>4. FollowerBallots(l, f)'
    BY <1>a, <1>4, <2>0, <2>2, <2>3 DEF Link, FollowerBallots, AcceptorNumbers, IsLocal
  <2>5. ASSUME NEW d, CallNumbers(d), CallSound(l, f, d) PROVE CallSound(l, f, d)'
    BY <1>a, <1>4, <2>0, <2>2, <2>3, <2>5 DEF CallSound, CallNumbers, IsLocal
  <2>6. CallSound(l, f, c)'
    <3>1. IsProposal(l, b, tid)'
      BY <1>a, <1>2, <1>4, <1>7 DEF IsProposal
    <3> QED
      BY <1>2, <1>3, <1>4, <2>0, <3>1 DEF CallSound, IsLocal
  <2>7. ASSUME NEW i \in DOMAIN chan[l][f] PROVE InOrder(chan[l][f][i], c)
    <3>1. /\ CallSound(l, f, chan[l][f][i]) /\ chan[l][f][i].req.ballot.num \in Nat
          /\ chan[l][f][i].req.ballot.num =< b.num
      BY <1>2, <2>0, QueuedCalls
    <3>2. chan[l][f][i].type = "ACCEPT" => chan[l][f][i].req.ballot.num # b.num
      BY <1>2, <3>1 DEF CallSound, IsProposal, AcceptorNumbers
    <3> QED
      BY <1>3, <3>1, <3>2 DEF InOrder
  <2>8. CallsSound(l, f)'
    <3>1. \A i \in DOMAIN chan[l][f] : \A d : d = chan[l][f][i] => CallSound(l, f, d)'
      BY <2>0, <2>5, QueuedCalls
    <3>2. chan'[l][f] = Append(chan[l][f], c) /\ chan[l][f] \in Seq(OutCall)
      BY <1>a, <2>0, SentToAll, Numbers DEF QueueNumbers
    <3> QED
      BY <1>3, <2>0, <2>6, <2>7, <3>1, <3>2, CallsGrow DEF Link
  <2>9. SyncsSound(l, f)'
    <3>1. chan'[f][l] = chan[f][l]
      BY <1>a, <2>0, SentToAll, Numbers
    <3>2. \A d : SyncSound(l, f, d) => SyncSound(l, f, d)'
      BY <1>a DEF SyncSound
    <3> QED
      BY <2>0, <3>1, <3>2 DEF Link, SyncsSound
  <2> QED
    BY <2>1, <2>4, <2>8, <2>9 DEF Link
<1> QED
  BY <1>0, <1>6, <1>8, <1>9, <1>10, LeaderStep

\* An answer to a call of the client takes the place of the call.
LEMMA FinishAsksLess ==
    ASSUME NEW s \in Server, NEW tid \in Tid, <<s, tid>> \in inCalls, NEW ack \in BOOLEAN,
           Finish(s, tid, ack), acked' = acked
    PROVE  \A t \in Server : AskedLess(t)
<1> DEFINE n == [from |-> s, tid |-> tid, ok |-> TRUE, ack |-> ack]
<1>1. n.from = s /\ n.tid = tid /\ replies' = replies \cup {n} /\ inCalls' \subseteq inCalls
  BY DEF Finish
<1> HIDE DEF n
<1> QED
  BY <1>1 DEF AskedLess, SaidYes

\* The end of a round, with or without success.
LEMMA EndedRound ==
    ASSUME TypeOK, NEW s \in Server, EndRound(s)
    PROVE  /\ ~round'[s].await_prepare_decision /\ ~round'[s].await_accept_decision
           /\ \A t \in Server \ {s} : round'[t] = round[t]
  BY Numbers DEF EndRound, Round

\* chooseTransaction: the entry of the ballot goes to the end of the log, and the
\* followers that accepted it are the ones that have all entries before it.
LEMMA ChooseReplicates ==
    ASSUME StableLeaders, IntraShard, TypeOK, RoundsStarted, RoundsLogged, Replicated,
           NEW l \in Server, NEW tid \in Tid, chooseTransaction(l, tid), acked' = acked
    PROVE  Replicated' /\ LeaderChanges(l) /\ Leads(l)
<1>b. PICK b : b = acceptor[l].accept_num
  OBVIOUS
<1>c. PICK c : c = commitCall(b)
  OBVIOUS
<1>e. PICK e : e = Entry(tid, b, "COMMITTED")
  OBVIOUS
<1>0. /\ Leads(l) /\ ~in_sync[l] /\ LeaderRound(l) /\ LeaderLog(l)
      /\ \A f \in stubs(l) : f \in Server /\ f # l /\ Link(l, f)
      /\ round[l].await_accept_decision /\ round[l].paxos_tid = tid /\ <<l, tid>> \in inCalls
  <2>1. Leads(l) /\ ~in_sync[l] /\ round[l].await_accept_decision
        /\ round[l].paxos_tid = tid /\ <<l, tid>> \in inCalls
    BY RunnerLeads, WaitsForOwn DEF chooseTransaction, AcceptDecided, MayRun
  <2> QED
    BY <2>1, ClusterIsOne DEF Replicated
<1>1. /\ acceptor' = [acceptor EXCEPT ![l].promised = FALSE, ![l].accepted = FALSE]
      /\ EndRound(l) /\ Finish(l, tid, TRUE) /\ in_sync' = in_sync /\ SendAll(l, c)
  BY <1>b, <1>c DEF chooseTransaction
<1>a. /\ log' = [log EXCEPT ![l] = Append(@, e)]
      /\ last_inserted' = [last_inserted EXCEPT ![l] = Len(log[l])]
      /\ last_inserted_ballot' = [last_inserted_ballot EXCEPT ![l] = b]
  BY <1>b, <1>e DEF chooseTransaction, commitTransaction, IntraShard
<1>2. /\ AcceptorNumbers(l) /\ LogNumbers(l) /\ b \in Ballot
      /\ b.num = acceptor[l].ballot_num /\ b.num \in Nat /\ b.num # 0
      /\ acceptor[l].accept_val = tid /\ HasBelow(l, b.num, Len(log[l]))
  <2>1. AcceptorNumbers(l) /\ LogNumbers(l) /\ b \in Ballot
    BY <1>b, Numbers DEF Acceptor
  <2>2. /\ b = acceptor[l].promised_num /\ acceptor[l].accept_val = tid
        /\ HasBelow(l, acceptor[l].ballot_num, Len(log[l]))
        /\ b.num =< acceptor[l].ballot_num /\ b.num # 0
    BY <1>b, <1>0 DEF LeaderRound, RoundsStarted
  <2>3. acceptor[l].ballot_num # 0
    BY <1>b, <2>1, <2>2 DEF AcceptorNumbers
  <2>4. b = [num |-> acceptor[l].ballot_num, server_id |-> l]
    BY <1>0, <2>2, <2>3 DEF LeaderRound
  <2> QED
    BY <1>b, <2>1, <2>2, <2>4 DEF AcceptorNumbers
<1>3. c \in OutCall /\ c.type = "COMMIT" /\ c.req.ballot = b /\ c.stage = "request"
  <2>1. NoInserted \in Index /\ "COMMIT" \in CallType
    BY DEF CallType, Index, NoInserted
  <2>2. c \in SoundCall
    BY <1>c, <1>2, <2>1, NewCallSound DEF commitCall
  <2> QED
    BY <1>c, <2>2 DEF commitCall, NewCall, SoundCall
<1>4. /\ acceptor'[l].ballot_num = acceptor[l].ballot_num
      /\ acceptor'[l].promised_num = acceptor[l].promised_num
      /\ acceptor'[l].accept_num = b /\ acceptor'[l].accept_val = tid
      /\ \A s \in Server \ {l} : acceptor'[s] = acceptor[s]
  BY <1>1, <1>b, <1>2, Numbers DEF Acceptor
<1>5. /\ Len(log'[l]) = Len(log[l]) + 1 /\ DOMAIN log'[l] = 1 .. (Len(log[l]) + 1)
      /\ log'[l][Len(log[l]) + 1] = e
      /\ \A k \in DOMAIN log[l] : log'[l][k] = log[l][k]
      /\ e.tid = tid /\ e.ballot = b /\ e.status = "COMMITTED"
      /\ \A s \in Server \ {l} : log'[s] = log[s] /\ last_inserted'[s] = last_inserted[s]
                                 /\ last_inserted_ballot'[s] = last_inserted_ballot[s]
      /\ last_inserted'[l] = Len(log[l]) /\ last_inserted_ballot'[l] = b
  <2>1. e \in WALEntry
    BY <1>2, <1>e DEF Entry, WALEntry, Status
  <2>2. log'[l] = Append(log[l], e)
    BY <1>a, Numbers
  <2>3. /\ Len(log'[l]) = Len(log[l]) + 1 /\ DOMAIN log'[l] = 1 .. (Len(log[l]) + 1)
        /\ log'[l][Len(log[l]) + 1] = e
        /\ \A k \in DOMAIN log[l] : log'[l][k] = log[l][k]
    BY <1>2, <2>1, <2>2, AppendProperties DEF LogNumbers
  <2>4. e.tid = tid /\ e.ballot = b /\ e.status = "COMMITTED"
    BY <1>e DEF Entry
  <2> QED
    BY <1>a, <2>3, <2>4, Numbers
<1>6. LeaderChanges(l)
  <2>1. \A s \in Server : AskedLess(s)
    BY <1>0, <1>1, FinishAsksLess
  <2>2. \A t \in stubs(l) : \A j \in DOMAIN chan'[l][t] : chan'[l][t][j].type # "SYNC"
    BY <1>0, <1>1, <1>3, SentNoSync, Numbers
  <2>3. \A s \in Server \ {l} : ServerKept(s) /\ round'[s] = round[s]
    BY <1>1, <1>4, <1>5, EndedRound DEF ServerKept
  <2>4. ~in_sync'[l] /\ last_inserted'[l] = Len(log'[l]) - 1
    BY <1>0, <1>1, <1>2, <1>5 DEF LogNumbers
  <2> QED
    BY <1>1, <2>1, <2>2, <2>3, <2>4, SentToAll, Numbers DEF LeaderChanges
<1>7. \A k \in DOMAIN log[l] : log[l][k].ballot.num \in Nat /\ log[l][k].ballot.num < b.num
  BY <1>2 DEF HasBelow, LogNumbers
<1>n. /\ Len(log[l]) \in Nat /\ Len(log[l]) + 1 \in DOMAIN log'[l]
      /\ DOMAIN log[l] \subseteq DOMAIN log'[l]
      /\ \A k \in DOMAIN log'[l] : \/ k \in DOMAIN log[l] /\ k < Len(log[l]) + 1
                                   \/ k = Len(log[l]) + 1
  BY <1>2, <1>5 DEF LogNumbers
<1>8. LeaderRound(l)'
  <2>1. ~round'[l].await_prepare_decision /\ ~round'[l].await_accept_decision
    BY <1>1, EndedRound
  <2> QED
    BY <1>0, <1>b, <1>4, <2>1 DEF LeaderRound
<1>9. LeaderLog(l)'
  <2>1. ASSUME NEW k \in DOMAIN log'[l]
        PROVE  /\ log'[l][k].ballot.num =< b.num /\ log'[l][k].status = "COMMITTED"
               /\ log'[l][k].ballot.num = b.num =>
                     log'[l][k].ballot = b /\ log'[l][k].tid = tid
    <3>1. CASE k \in DOMAIN log[l]
      BY <1>0, <1>2, <1>5, <1>7, <3>1 DEF LeaderLog
    <3>2. CASE k = Len(log[l]) + 1
      BY <1>2, <1>5, <3>2
    <3> QED
      BY <1>n, <3>1, <3>2
  <2>2. ASSUME NEW j \in DOMAIN log'[l], NEW k \in DOMAIN log'[l], j < k
        PROVE  log'[l][j].ballot.num < log'[l][k].ballot.num
    <3>1. j \in DOMAIN log[l]
      BY <1>n, <1>5, <2>2
    <3>2. CASE k \in DOMAIN log[l]
      BY <1>0, <1>5, <2>2, <3>1, <3>2 DEF LeaderLog
    <3>3. CASE k = Len(log[l]) + 1
      BY <1>5, <1>7, <3>1, <3>3
    <3> QED
      BY <1>n, <3>2, <3>3
  <2> QED
    BY <1>4, <1>5, <2>1, <2>2 DEF LeaderLog
<1>10. ASSUME NEW f \in stubs(l) PROVE Link(l, f)'
  <2>0. /\ f \in Server /\ f # l /\ Link(l, f) /\ AcceptorNumbers(f) /\ LogNumbers(f)
        /\ acceptor'[f] = acceptor[f] /\ in_sync'[f] = in_sync[f] /\ log'[f] = log[f]
    BY <1>0, <1>1, <1>4, <1>5, Numbers
  <2>1. FollowerLog(l, f)'
    <3>1. /\ FollowerLog(l, f) /\ acceptor[f].ballot_num =< b.num
          /\ Len(log[f]) \in Nat /\ DOMAIN log[f] \subseteq DOMAIN log[l]
      BY <1>2, <2>0 DEF Link, FollowerLog, FollowerBallots, LogNumbers
    <3>2. ASSUME NEW k \in DOMAIN log'[l], k > Len(log[f])
          PROVE  log'[l][k].ballot.num >= acceptor[f].ballot_num
      <4>1. CASE k \in DOMAIN log[l]
        BY <1>5, <3>1, <3>2, <4>1 DEF FollowerLog
      <4>2. CASE k = Len(log[l]) + 1
        BY <1>2, <1>5, <2>0, <3>1, <4>2 DEF AcceptorNumbers
      <4> QED
        BY <1>n, <4>1, <4>2
    <3> QED
      BY <1>5, <1>n, <2>0, <3>1, <3>2 DEF FollowerLog
  <2>2. ASSUME NEW x, NEW y, IsProposal(l, x, y) PROVE IsProposal(l, x, y)'
    BY <1>b, <1>2, <1>4, <1>5, <2>2 DEF IsProposal, LogNumbers
  <2>3. ASSUME NEW n \in Nat, NEW len \in Int, n =< b.num, HasBelow(l, n, len)
        PROVE  HasBelow(l, n, len)'
    <3>1. ASSUME NEW k \in DOMAIN log'[l]
          PROVE  k > len <=> log'[l][k].ballot.num >= n
      <4>1. CASE k \in DOMAIN log[l]
        BY <1>5, <2>3, <4>1 DEF HasBelow
      <4>2. CASE k = Len(log[l]) + 1
        BY <1>2, <1>5, <1>n, <2>3, <4>2 DEF HasBelow
      <4> QED
        BY <1>n, <4>1, <4>2
    <3> QED
      BY <1>5, <1>n, <2>3, <3>1 DEF HasBelow
  <2>4. FollowerBallots(l, f)'
    BY <1>4, <2>0, <2>2 DEF Link, FollowerBallots, AcceptorNumbers, IsLocal
  <2>5. ASSUME NEW d, CallNumbers(d), CallSound(l, f, d) PROVE CallSound(l, f, d)'
    <3> DEFINE n == d.req.ballot.num
    <3>1. n \in Nat /\ n =< b.num /\ n =< acceptor'[l].ballot_num
      BY <1>2, <1>4, <2>5 DEF CallSound, CallNumbers
    <3>2. d.type = "PREPARE" =>
            /\ HasBelow(l, n, d.req.last_inserted + 1)'
            /\ d.res.latest_ballot_num # NoLatest =>
                  n =< d.res.latest_ballot_num
                  /\ d.res.latest_ballot_num =< acceptor'[l].ballot_num
            /\ d.res.last_inserted =< last_inserted'[l]
      <4> HAVE d.type = "PREPARE"
      <4>1. last_inserted[l] = Len(log[l]) - 1
        BY DEF Replicated
      <4> QED
        <5>1. HasBelow(l, n, d.req.last_inserted + 1)'
          BY <2>3, <2>5, <3>1 DEF CallSound, CallNumbers
        <5>2. d.res.last_inserted =< last_inserted'[l]
          BY <1>5, <1>n, <2>5, <4>1 DEF CallSound, CallNumbers
        <5> QED
          BY <1>4, <2>5, <5>1, <5>2 DEF CallSound
    <3>3. d.type = "ACCEPT" => IsProposal(l, d.req.ballot, d.req.r)' /\ IsLocal(f, d.req.r)
      BY <2>2, <2>5 DEF CallSound
    <3>4. d.type = "COMMIT" =>
            /\ d.stage = "request"
            /\ \E k \in DOMAIN log'[l] : log'[l][k].ballot.num = n
      <4> HAVE d.type = "COMMIT"
      <4>1. PICK k \in DOMAIN log[l] : log[l][k].ballot.num = n
        BY <2>5 DEF CallSound
      <4>2. k \in DOMAIN log'[l] /\ log'[l][k].ballot.num = n
        BY <1>2, <1>5, <4>1 DEF LogNumbers
      <4> QED
        BY <2>5, <4>2 DEF CallSound
    <3> QED
      BY <3>1, <3>2, <3>3, <3>4 DEF CallSound, IsLocal
  <2>6. CallSound(l, f, c)'
    <3>1. \E k \in DOMAIN log'[l] : log'[l][k].ballot.num = b.num
      BY <1>2, <1>5 DEF LogNumbers
    <3> QED
      BY <1>2, <1>3, <1>4, <2>0, <3>1 DEF CallSound
  <2>7. ASSUME NEW i \in DOMAIN chan[l][f] PROVE InOrder(chan[l][f][i], c)
    <3>1. /\ CallSound(l, f, chan[l][f][i]) /\ chan[l][f][i].req.ballot.num \in Nat
          /\ chan[l][f][i].req.ballot.num =< b.num
      BY <1>2, <2>0, QueuedCalls
    <3>2. chan[l][f][i].type = "COMMIT" => chan[l][f][i].req.ballot.num # b.num
      BY <1>2, <1>7, <3>1 DEF CallSound
    <3> QED
      BY <1>3, <3>1, <3>2 DEF InOrder
  <2>8. CallsSound(l, f)'
    <3>1. \A i \in DOMAIN chan[l][f] : \A d : d = chan[l][f][i] => CallSound(l, f, d)'
      BY <2>0, <2>5, QueuedCalls
    <3>2. chan'[l][f] = Append(chan[l][f], c) /\ chan[l][f] \in Seq(OutCall)
      BY <1>1, <2>0, SentToAll, Numbers DEF QueueNumbers
    <3> QED
      BY <1>3, <2>0, <2>6, <2>7, <3>1, <3>2, CallsGrow DEF Link
  <2>9. SyncsSound(l, f)'
    <3>1. chan'[f][l] = chan[f][l] /\ QueueNumbers(f, l)
      BY <1>1, <2>0, SentToAll, Numbers
    <3>2. ASSUME NEW d, CallNumbers(d), SyncSound(l, f, d) PROVE SyncSound(l, f, d)'
      <4>1. ASSUME d.stage = "reply", d.res.ack, d.res.logs # <<>>
            PROVE  Len(d.res.logs) > 0
        BY <3>2, <4>1 DEF CallNumbers
      <4>2. ASSUME d.stage = "reply", d.res.ack
            PROVE  /\ d.req.last_inserted + 1 + Len(d.res.logs) =< Len(log'[l])
                   /\ \A k \in DOMAIN d.res.logs :
                         d.res.logs[k] = log'[l][d.req.last_inserted + 1 + k]
                   /\ d.res.last_inserted_ballot =
                         log'[l][d.req.last_inserted + 1 + Len(d.res.logs)].ballot
        <5> DEFINE m == Len(d.res.logs)
                   n == d.req.last_inserted + 1
                   p == Len(log[l])
        <5>1. m \in Nat /\ n \in Nat /\ p \in Nat
          BY <1>2, <2>0, <3>2 DEF CallNumbers, LogNumbers
        <5>2. n + m =< p /\ m > 0 /\ Len(log'[l]) = p + 1
          BY <1>5, <3>2, <4>1, <4>2 DEF SyncSound
        <5>3. DOMAIN d.res.logs = 1 .. m /\ DOMAIN log[l] = 1 .. p
          BY <1>2, <3>2 DEF CallNumbers, LogNumbers
        <5> HIDE DEF m, n, p
        <5>4. /\ n + m =< p + 1 /\ m \in 1 .. m
              /\ \A k \in 1 .. m : n + k \in 1 .. p
          BY <5>1, <5>2
        <5>5. \A k \in 1 .. m : log'[l][n + k] = log[l][n + k]
          BY <1>5, <5>3, <5>4
        <5>6. \A k \in 1 .. m : d.res.logs[k] = log'[l][n + k]
          BY <3>2, <4>2, <5>3, <5>5 DEF SyncSound, n
        <5>7. d.res.last_inserted_ballot = log'[l][n + m].ballot
          BY <3>2, <4>2, <5>4, <5>5 DEF SyncSound, n, m
        <5> QED
          BY <5>2, <5>3, <5>4, <5>6, <5>7 DEF n, m
      <4> QED
        BY <2>0, <3>2, <4>2 DEF SyncSound
    <3> QED
      <4>1. \A i \in DOMAIN chan[f][l] : SyncSound(l, f, chan[f][l][i])'
        BY <2>0, <3>1, <3>2 DEF Link, SyncsSound, QueueNumbers
      <4> QED
        BY <2>0, <3>1, <4>1 DEF Link, SyncsSound
  <2> QED
    BY <2>1, <2>4, <2>8, <2>9 DEF Link
<1> QED
  BY <1>0, <1>6, <1>8, <1>9, <1>10, LeaderStep

\* A round that fails leaves nothing but the answer.
LEMMA FailedReplicates ==
    ASSUME StableLeaders, TypeOK, Replicated, NEW l \in Server, NEW tid \in Tid,
           rejectTransaction(l, tid) \/ prepareFailed(l, tid) \/ acceptFailed(l, tid),
           acked' = acked
    PROVE  Replicated' /\ LeaderChanges(l) /\ Leads(l)
<1>0. /\ MayRun(l, tid) /\ EndRound(l) /\ Finish(l, tid, FALSE)
      /\ acceptor' = acceptor /\ log' = log /\ last_inserted' = last_inserted
      /\ last_inserted_ballot' = last_inserted_ballot /\ in_sync' = in_sync /\ chan' = chan
  BY DEF rejectTransaction, PrepareDecided, prepareFailed, acceptFailed, storeVars
<1>1. /\ Leads(l) /\ ~in_sync[l] /\ LeaderRound(l) /\ LeaderLog(l) /\ <<l, tid>> \in inCalls
      /\ \A f \in stubs(l) : f \in Server /\ f # l /\ ~Leads(f) /\ Link(l, f)
  BY <1>0, RunnerLeads, ClusterIsOne, FollowersDoNotLead DEF MayRun, Replicated, Follows
<1>2. /\ ~round'[l].await_prepare_decision /\ ~round'[l].await_accept_decision
      /\ \A s \in Server \ {l} : round'[s] = round[s]
  BY <1>0, EndedRound
<1>3. LeaderChanges(l)
  <2>1. \A s \in Server : AskedLess(s)
    BY <1>0, <1>1, FinishAsksLess
  <2>2. \A t \in stubs(l) : \A j \in DOMAIN chan'[l][t] : chan'[l][t][j].type # "SYNC"
    BY <1>0, <1>1 DEF Replicated, Roles, Follows
  <2> QED
    BY <1>0, <1>1, <1>2, <2>1, <2>2 DEF LeaderChanges, ServerKept, Replicated
<1>4. LeaderRound(l)' /\ LeaderLog(l)'
  BY <1>0, <1>1, <1>2 DEF LeaderRound, LeaderLog
<1>5. \A f \in stubs(l) : Link(l, f)'
  BY <1>0, <1>1, LinkKept DEF EndsKept
<1> QED
  BY <1>1, <1>3, <1>4, <1>5, LeaderStep

-----------------------------------------------------------------------------
(* A follower answers its leader *)

\* Answering a call takes it out of the queue or moves it on.
LEMMA AnsweredThins ==
    ASSUME NEW s, NEW t, chan[s][t] \in Seq(OutCall), NEW i \in DOMAIN chan[s][t], NEW res
    PROVE  \E c : /\ c.type = chan[s][t][i].type /\ c.req = chan[s][t][i].req
                  /\ c.stage = "reply" /\ c.res = res
                  /\ Thinned(Answered(s, t, i, res), chan[s][t], i, c)
<1> DEFINE q == chan[s][t]
           c == [q[i] EXCEPT !.stage = "reply", !.res = res]
<1>1. q[i] \in OutCall
  BY ElementOfSeq
<1>2. c.type = q[i].type /\ c.req = q[i].req /\ c.stage = "reply" /\ c.res = res
  BY <1>1 DEF OutCall
<1>3. [q EXCEPT ![i].stage = "reply", ![i].res = res] = [q EXCEPT ![i] = c]
  OBVIOUS
<1> HIDE DEF c
<1>4. CASE q[i].stage = "expired"
  BY <1>2, <1>4, RemovedThins DEF Answered
<1>5. CASE q[i].stage # "expired"
  <2>1. Succeeds(c, q[i])
    BY <1>2, <1>5 DEF Succeeds
  <2>2. Thinned([q EXCEPT ![i] = c], q, i, c)
    BY <2>1, ChangedThins
  <2> QED
    BY <1>2, <1>3, <1>5, <2>2 DEF Answered
<1> QED
  BY <1>4, <1>5

\* The calls of a thinned queue are of the types they were.
LEMMA ThinnedTypes ==
    ASSUME NEW r, NEW q, NEW i \in DOMAIN q, NEW c, c.type = q[i].type, Thinned(r, q, i, c)
    PROVE  \A j \in DOMAIN r : \E k \in DOMAIN q : r[j].type = q[k].type
  BY DEF Thinned

\* Whose calls arrive where.
LEMMA CallsByRole ==
    ASSUME StableLeaders, Replicated, NEW s \in Server, NEW t \in Server,
           NEW i \in DOMAIN chan[s][t]
    PROVE  /\ chan[s][t][i].type # "SYNC" => Follows(t, s)
           /\ chan[s][t][i].type = "SYNC" => Follows(s, t)
           /\ Follows(t, s) => \A j \in DOMAIN chan[s][t] : chan[s][t][j].type # "SYNC"
           /\ Follows(s, t) => \A j \in DOMAIN chan[s][t] : chan[s][t][j].type = "SYNC"
<1>1. Follows(t, s) => ~Follows(s, t)
  BY FollowersDoNotLead DEF Follows
<1> QED
  BY <1>1 DEF Replicated, Roles

\* The pair of a follower and its leader.
LEMMA PairParts ==
    ASSUME StableLeaders, TypeOK, Replicated, NEW l \in Server, NEW f \in Server,
           Follows(f, l)
    PROVE  /\ f # l /\ Leads(l) /\ ~Leads(f) /\ ~in_sync[l]
           /\ Link(l, f) /\ LeaderRound(l) /\ LeaderLog(l)
           /\ AcceptorNumbers(l) /\ AcceptorNumbers(f) /\ LogNumbers(l) /\ LogNumbers(f)
           /\ QueueNumbers(l, f) /\ QueueNumbers(f, l)
           /\ last_inserted[l] = Len(log[l]) - 1 /\ last_inserted[f] = Len(log[f]) - 1
           /\ \A j \in DOMAIN chan[l][f] : chan[l][f][j].type # "SYNC"
           /\ \A j \in DOMAIN chan[f][l] : chan[f][l][j].type = "SYNC"
<1>1. f # l /\ Leads(l) /\ ~Leads(f) /\ ~in_sync[l] /\ f \in stubs(l)
  BY FollowersDoNotLead DEF Follows, Replicated, Roles
<1>2. Link(l, f) /\ LeaderRound(l) /\ LeaderLog(l)
  BY <1>1 DEF Replicated
<1>3. last_inserted[l] = Len(log[l]) - 1 /\ last_inserted[f] = Len(log[f]) - 1
  BY DEF Replicated
<1>4. /\ \A j \in DOMAIN chan[l][f] : chan[l][f][j].type # "SYNC"
      /\ \A j \in DOMAIN chan[f][l] : chan[f][l][j].type = "SYNC"
  BY <1>1, FollowersDoNotLead DEF Replicated, Roles, Follows
<1> QED
  BY <1>1, <1>2, <1>3, <1>4, Numbers

\* The follower's log is not longer than that of its leader.
LEMMA FollowerIsBehind ==
    ASSUME NEW l, NEW f, Link(l, f), LogNumbers(l), LogNumbers(f),
           last_inserted[l] = Len(log[l]) - 1, last_inserted[f] = Len(log[f]) - 1
    PROVE  /\ last_inserted[f] \in Int /\ last_inserted[l] \in Int
           /\ last_inserted[f] =< last_inserted[l] /\ -1 =< last_inserted[l]
           /\ last_inserted[f] + 1 = Len(log[f])
<1> DEFINE m == Len(log[f])
           n == Len(log[l])
<1>1. m \in Nat /\ n \in Nat /\ m =< n
  BY DEF LogNumbers, Link, FollowerLog
<1> HIDE DEF m, n
<1> QED
  BY <1>1 DEF m, n

\* processPrepareCall: a follower promises only when its log has all entries below
\* the ballot, and a Sync asks for what follows its log.
LEMMA PrepareCallReplicates ==
    ASSUME StableLeaders, TypeOK, Replicated,
           NEW l \in Server, NEW f \in Server, NEW i, processPrepareCall(l, f, i), acked' = acked
    PROVE  Replicated' /\ PairChanges(l, f) /\ Follows(f, l)
<1>v. PICK v : v = chan[l][f][i]
  OBVIOUS
<1>r. PICK r : r = v.req
  OBVIOUS
<1>n. PICK n : n = r.ballot.num
  OBVIOUS
<1>A. PICK ack : ack = Promises(f, r)
  OBVIOUS
<1>S. PICK sync : sync = (IsNewer(f, r) /\ r.last_inserted > last_inserted[f])
  OBVIOUS
<1>N. PICK num : num = IF ack THEN n ELSE acceptor[f].ballot_num
  OBVIOUS
<1>R. PICK res : res = [Nack EXCEPT
                          !.ack = ack,
                          !.latest_ballot_num =
                             IF ~ack /\ ~i_am_disconnected[f] /\ n =< num THEN num ELSE NoLatest,
                          !.last_inserted =
                             IF ~ack /\ ~i_am_disconnected[f]
                                  /\ r.last_inserted < last_inserted[f]
                             THEN last_inserted[f] ELSE NoInserted]
  OBVIOUS
<1>1. /\ Arrives(l, f, i, "PREPARE")
      /\ acceptor' = [acceptor EXCEPT ![f].promised = @ \/ ack,
                                      ![f].promised_num = IF ack THEN r.ballot ELSE @,
                                      ![f].ballot_num = num]
      /\ in_sync' = [in_sync EXCEPT ![f] = @ \/ sync]
      /\ chan' = [chan EXCEPT
                    ![l][f] = Answered(l, f, i, res),
                    ![f][l] = IF sync THEN Append(@, syncCall(last_inserted[f])) ELSE @]
  BY <1>v, <1>r, <1>n, <1>A, <1>S, <1>N, <1>R, Zenon DEF processPrepareCall
<1>a. /\ log' = log /\ last_inserted' = last_inserted /\ round' = round
      /\ last_inserted_ballot' = last_inserted_ballot
      /\ inCalls' = inCalls /\ replies' = replies
  BY DEF processPrepareCall, storeVars, rpcVars
<1>2. i \in DOMAIN chan[l][f] /\ v.type = "PREPARE" /\ Follows(f, l)
  <2>1. i \in DOMAIN chan[l][f] /\ v.type = "PREPARE"
    BY <1>v, <1>1 DEF Arrives
  <2> QED
    BY <1>v, <2>1, CallsByRole
<1>p. /\ f # l /\ Leads(l) /\ ~Leads(f) /\ ~in_sync[l]
      /\ Link(l, f) /\ LeaderRound(l) /\ LeaderLog(l)
      /\ AcceptorNumbers(l) /\ AcceptorNumbers(f) /\ LogNumbers(l) /\ LogNumbers(f)
      /\ QueueNumbers(l, f) /\ QueueNumbers(f, l)
      /\ last_inserted[l] = Len(log[l]) - 1 /\ last_inserted[f] = Len(log[f]) - 1
  BY <1>2, PairParts
<1>3. /\ CallSound(l, f, v) /\ CallNumbers(v) /\ n \in Nat /\ n =< acceptor[l].ballot_num
      /\ r \in Request /\ r.ballot \in Ballot /\ r.ballot.num = n /\ v.req = r
  <2>1. v \in OutCall /\ CallNumbers(v) /\ CallSound(l, f, v)
    BY <1>v, <1>2, <1>p, QueuedCalls
  <2>2. r \in Request
    BY <1>r, <2>1 DEF OutCall
  <2>3. r.ballot \in Ballot
    BY <2>2 DEF Request
  <2>4. n \in Nat
    BY <1>n, <2>3 DEF Ballot
  <2>5. n =< acceptor[l].ballot_num
    BY <1>r, <1>n, <2>1 DEF CallSound
  <2> QED
    BY <1>r, <1>n, <2>1, <2>2, <2>3, <2>4, <2>5
<1>4. PICK c : /\ c.type = "PREPARE" /\ c.req = r /\ c.stage = "reply" /\ c.res = res
               /\ Thinned(Answered(l, f, i, res), chan[l][f], i, c)
  <2>1. chan[l][f] \in Seq(OutCall)
    BY <1>p DEF QueueNumbers
  <2>2. \E c : /\ c.type = chan[l][f][i].type /\ c.req = chan[l][f][i].req
               /\ c.stage = "reply" /\ c.res = res
               /\ Thinned(Answered(l, f, i, res), chan[l][f], i, c)
    BY <1>2, <2>1, AnsweredThins
  <2> QED
    BY <1>v, <1>r, <1>2, <2>2
<1>5. /\ chan'[l][f] = Answered(l, f, i, res)
      /\ chan'[f][l] = IF sync THEN Append(chan[f][l], syncCall(last_inserted[f])) ELSE chan[f][l]
      /\ \A s, t \in Server : <<s, t>> \notin {<<l, f>>, <<f, l>>} => chan'[s][t] = chan[s][t]
  BY <1>1, <1>p, Numbers
<1>6. /\ ack => /\ n > acceptor[f].ballot_num /\ r.last_inserted = last_inserted[f] /\ ~sync
      /\ sync => n > acceptor[f].ballot_num
      /\ ack \in BOOLEAN /\ sync \in BOOLEAN
  <2>1. /\ ack => /\ n > acceptor[f].ballot_num /\ r.last_inserted = last_inserted[f]
        /\ sync => n > acceptor[f].ballot_num /\ r.last_inserted > last_inserted[f]
        /\ ack \in BOOLEAN /\ sync \in BOOLEAN
    BY <1>n, <1>A, <1>S DEF Promises, IsNewer
  <2>2. last_inserted[f] \in Int /\ r.last_inserted \in Int
    BY <1>3, <1>p, FollowerIsBehind DEF CallNumbers
  <2> QED
    BY <2>1, <2>2
<1>7. /\ acceptor'[f].promised_num = IF ack THEN r.ballot ELSE acceptor[f].promised_num
      /\ acceptor'[f].ballot_num = num
      /\ acceptor'[f].accept_num = acceptor[f].accept_num
      /\ acceptor'[f].accept_val = acceptor[f].accept_val
      /\ \A s \in Server \ {f} : acceptor'[s] = acceptor[s] /\ in_sync'[s] = in_sync[s]
  <2>1. /\ acceptor'[f].promised_num = IF ack THEN r.ballot ELSE acceptor[f].promised_num
        /\ acceptor'[f].ballot_num = num
        /\ acceptor'[f].accept_num = acceptor[f].accept_num
        /\ acceptor'[f].accept_val = acceptor[f].accept_val
        /\ \A s \in Server \ {f} : acceptor'[s] = acceptor[s]
    BY <1>1, Numbers DEF Acceptor
  <2>2. \A s \in Server \ {f} : in_sync'[s] = in_sync[s]
    BY <1>1, Numbers
  <2> QED
    BY <2>1, <2>2
<1>8. /\ HasBelow(l, n, r.last_inserted + 1) /\ r.last_inserted \in Int
      /\ ack => HasBelow(l, n, Len(log[f]))
  <2>1. HasBelow(l, n, r.last_inserted + 1) /\ r.last_inserted \in Int
    BY <1>2, <1>3 DEF CallSound, CallNumbers
  <2> QED
    BY <1>6, <1>p, <2>1, FollowerIsBehind
<1>b. \A m, len : HasBelow(l, m, len) <=> HasBelow(l, m, len)'
  BY <1>a DEF HasBelow
<1>c. \A x, y : IsProposal(l, x, y) => IsProposal(l, x, y)'
  BY <1>a, <1>7, <1>p DEF IsProposal
<1>9. CallSound(l, f, c)'
  <2>1. /\ res.latest_ballot_num =
             IF ~ack /\ ~i_am_disconnected[f] /\ n =< num THEN num ELSE NoLatest
        /\ res.last_inserted =
             IF ~ack /\ ~i_am_disconnected[f] /\ r.last_inserted < last_inserted[f]
             THEN last_inserted[f] ELSE NoInserted
    BY <1>R DEF Nack
  <2>2. res.latest_ballot_num # NoLatest =>
           n =< res.latest_ballot_num /\ res.latest_ballot_num =< acceptor[l].ballot_num
    <3>1. acceptor[f].ballot_num =< acceptor[l].ballot_num
      BY <1>p DEF Link, FollowerBallots
    <3> QED
      BY <1>N, <2>1, <3>1
  <2>3. res.last_inserted =< last_inserted[l]
    BY <1>p, <2>1, FollowerIsBehind DEF NoInserted
  <2>4. acceptor'[l] = acceptor[l] /\ last_inserted'[l] = last_inserted[l]
    BY <1>a, <1>7, <1>p
  <2> QED
    BY <1>3, <1>4, <1>8, <1>b, <2>2, <2>3, <2>4 DEF CallSound
<1>10. FollowerLog(l, f)'
  <2>1. \A k \in DOMAIN log[l] : k > Len(log[f]) => log[l][k].ballot.num >= num
    BY <1>8, <1>N, <1>p DEF HasBelow, Link, FollowerLog
  <2> QED
    BY <1>a, <1>7, <1>p, <2>1 DEF Link, FollowerLog
<1>11. FollowerBallots(l, f)'
  <2>1. FollowerBallots(l, f)
    BY <1>p DEF Link
  <2>2. acceptor'[l] = acceptor[l]
    BY <1>7, <1>p
  <2>3. CASE ack
    <3>1. acceptor'[f].promised_num.num = n /\ acceptor'[f].ballot_num = n
      BY <1>N, <1>3, <1>7, <2>3
    <3>2. acceptor[f].accept_num.num =< n
      BY <1>3, <1>6, <1>p, <2>1, <2>3 DEF FollowerBallots, AcceptorNumbers
    <3> QED
      BY <1>3, <1>7, <1>c, <2>1, <2>2, <3>1, <3>2 DEF FollowerBallots, IsLocal
  <2>4. CASE ~ack
    <3>1. acceptor'[f].promised_num = acceptor[f].promised_num
          /\ acceptor'[f].ballot_num = acceptor[f].ballot_num
      BY <1>N, <1>7, <2>4
    <3> QED
      BY <1>7, <1>c, <2>1, <2>2, <3>1 DEF FollowerBallots, IsLocal
  <2> QED
    BY <1>6, <2>3, <2>4
<1>12. CallsSound(l, f)'
  <2>1. ASSUME NEW k \in DOMAIN chan[l][f] \ {i}, NEW d, d = chan[l][f][k]
        PROVE  CallSound(l, f, d)'
    <3>1. CallSound(l, f, d) /\ CallNumbers(d)
      BY <1>p, <2>1, QueuedCalls
    <3>2. acceptor'[l] = acceptor[l] /\ log' = log /\ last_inserted' = last_inserted
      BY <1>a, <1>7, <1>p
    <3> QED
      BY <1>b, <1>c, <3>1, <3>2 DEF CallSound, IsLocal
  <2> QED
    BY <1>2, <1>4, <1>5, <1>9, <1>p, <2>1, CallsThin DEF Link
<1>13. SyncsSound(l, f)' /\ \A j \in DOMAIN chan'[f][l] : chan'[f][l][j].type = "SYNC"
  <2>0. SyncsSound(l, f) /\ \A j \in DOMAIN chan[f][l] : chan[f][l][j].type = "SYNC"
    BY <1>2, <1>p, PairParts DEF Link
  <2>1. \A d : SyncSound(l, f, d) => SyncSound(l, f, d)'
    BY <1>a DEF SyncSound
  <2>2. CASE ~sync
    BY <1>5, <2>0, <2>1, <2>2 DEF SyncsSound
  <2>3. CASE sync
    <3>1. PICK d : d = syncCall(last_inserted[f])
      OBVIOUS
    <3>2. d \in OutCall /\ d.type = "SYNC" /\ d.stage = "request"
          /\ d.req.last_inserted = last_inserted[f]
      <4>1. last_inserted[f] \in Index /\ "SYNC" \in CallType /\ NoBallot \in Ballot
        BY Numbers DEF CallType, NoBallot, Ballot
      <4>2. d \in SoundCall
        BY <3>1, <4>1, NewCallSound DEF syncCall
      <4> QED
        BY <3>1, <4>2 DEF syncCall, NewCall, SoundCall
    <3> DEFINE m == Len(chan[f][l])
    <3>3. /\ m \in Nat /\ DOMAIN chan[f][l] = 1 .. m /\ DOMAIN chan'[f][l] = 1 .. (m + 1)
          /\ chan'[f][l][m + 1] = d
          /\ \A j \in 1 .. m : chan'[f][l][j] = chan[f][l][j]
      BY <1>5, <1>p, <2>3, <3>1, <3>2, AppendProperties DEF QueueNumbers
    <3> HIDE DEF m
    <3>4. SyncSound(l, f, d)'
      <4>1. d.req.last_inserted + 1 =< Len(log'[f])
        BY <1>a, <1>p, <3>2 DEF LogNumbers
      <4> QED
        BY <3>2, <4>1 DEF SyncSound
    <3>5. ASSUME NEW j \in DOMAIN chan'[f][l] PROVE SyncSound(l, f, chan[f][l][j])'
      <4>1. CASE j = m + 1
        BY <3>3, <3>4, <4>1
      <4>2. CASE j \in 1 .. m
        BY <2>0, <2>1, <3>3, <4>2 DEF SyncsSound
      <4> QED
        BY <3>3, <4>1, <4>2
    <3>6. \A j \in DOMAIN chan'[f][l] : chan'[f][l][j].type = "SYNC"
      BY <2>0, <3>2, <3>3
    <3> QED
      BY <3>5, <3>6 DEF SyncsSound
  <2> QED
    BY <1>6, <2>2, <2>3
<1>14. PairChanges(l, f)
  <2>1. \A s \in Server : AskedLess(s)
    BY <1>a DEF AskedLess, SaidYes
  <2>2. \A j \in DOMAIN chan'[l][f] : chan'[l][f][j].type # "SYNC"
    <3>1. \A j \in DOMAIN chan[l][f] : chan[l][f][j].type # "SYNC"
      BY <1>2, PairParts
    <3> QED
      BY <1>4, <1>5, <3>1 DEF Thinned
  <2> QED
    BY <1>5, <1>7, <1>13, <1>a, <1>p, <2>1, <2>2 DEF PairChanges, ServerKept
<1>15. LeaderRound(l)'
  BY <1>7, <1>a, <1>p, LeaderKept DEF ServerKept
<1>16. Link(l, f)'
  BY <1>10, <1>11, <1>12, <1>13 DEF Link
<1> QED
  BY <1>2, <1>14, <1>15, <1>16, PairStep

\* processAcceptCall: what a follower accepts is what its leader proposed.
LEMMA AcceptCallReplicates ==
    ASSUME StableLeaders, IntraShard, AtomicityInv, Replicated,
           NEW l \in Server, NEW f \in Server, NEW i, processAcceptCall(l, f, i), acked' = acked
    PROVE  Replicated' /\ PairChanges(l, f) /\ Follows(f, l)
<1>t. TypeOK /\ chan \in [Server -> [Server -> Seq(SoundCall)]]
  BY DEF AtomicityInv
<1>v. PICK v : v = chan[l][f][i]
  OBVIOUS
<1>r. PICK r : r = v.req
  OBVIOUS
<1>A. PICK ack : ack = /\ ~i_am_disconnected[f]
                       /\ acceptor[f].promised
                       /\ acceptor[f].promised_num.num = r.ballot.num
  OBVIOUS
<1>R. PICK res : res = IF ack THEN Ack ELSE Nack
  OBVIOUS
<1>1. i \in DOMAIN chan[l][f] /\ v.type = "ACCEPT" /\ Follows(f, l)
  <2>1. i \in DOMAIN chan[l][f] /\ v.type = "ACCEPT"
    BY <1>v DEF processAcceptCall, Arrives
  <2> QED
    BY <1>v, <2>1, CallsByRole
<1>p. /\ f # l /\ Leads(l) /\ ~Leads(f) /\ ~in_sync[l]
      /\ Link(l, f) /\ LeaderRound(l) /\ LeaderLog(l)
      /\ AcceptorNumbers(l) /\ AcceptorNumbers(f) /\ LogNumbers(l) /\ LogNumbers(f)
      /\ QueueNumbers(l, f) /\ QueueNumbers(f, l)
      /\ last_inserted[l] = Len(log[l]) - 1 /\ last_inserted[f] = Len(log[f]) - 1
  BY <1>1, <1>t, PairParts
<1>2. /\ CallSound(l, f, v) /\ r.r \in Tid /\ v.req = r
      /\ IsProposal(l, r.ballot, r.r) /\ IsLocal(f, r.r)
  <2>1. CallSound(l, f, v)
    BY <1>v, <1>t, <1>1, <1>p, QueuedCalls
  <2>2. v \in SoundCall
    BY <1>v, <1>t, <1>1, ArrivingCall
  <2> QED
    BY <1>r, <1>1, <2>1, <2>2 DEF CallSound, SoundCall
<1>3. BothHeld(f, r.r)
  BY <1>2, LocalIsHeld
<1>4. /\ \/ ack /\ acceptor' = [acceptor EXCEPT ![f].accepted = TRUE,
                                                ![f].accept_num = r.ballot,
                                                ![f].accept_val = r.r]
         \/ ~ack /\ acceptor' = acceptor
      /\ chan' = [chan EXCEPT ![l][f] = Answered(l, f, i, res)]
  BY <1>v, <1>r, <1>A, <1>R, Zenon DEF processAcceptCall
<1>a. /\ log' = log /\ last_inserted' = last_inserted /\ round' = round
      /\ last_inserted_ballot' = last_inserted_ballot /\ in_sync' = in_sync
      /\ inCalls' = inCalls /\ replies' = replies
  BY <1>v, <1>r, <1>3 DEF processAcceptCall, storeVars, rpcVars
<1>5. PICK c : /\ c.type = "ACCEPT" /\ c.req = r /\ c.stage = "reply" /\ c.res = res
               /\ Thinned(Answered(l, f, i, res), chan[l][f], i, c)
  <2>1. chan[l][f] \in Seq(OutCall)
    BY <1>p DEF QueueNumbers
  <2>2. \E c : /\ c.type = chan[l][f][i].type /\ c.req = chan[l][f][i].req
               /\ c.stage = "reply" /\ c.res = res
               /\ Thinned(Answered(l, f, i, res), chan[l][f], i, c)
    BY <1>1, <2>1, AnsweredThins
  <2> QED
    BY <1>v, <1>r, <1>1, <2>2
<1>6. /\ chan'[l][f] = Answered(l, f, i, res) /\ chan'[f][l] = chan[f][l]
      /\ \A s, t \in Server : <<s, t>> \notin {<<l, f>>, <<f, l>>} => chan'[s][t] = chan[s][t]
  BY <1>4, <1>p, <1>t, Numbers
<1>7. /\ acceptor'[f].promised_num = acceptor[f].promised_num
      /\ acceptor'[f].ballot_num = acceptor[f].ballot_num
      /\ ack => acceptor'[f].accept_num = r.ballot /\ acceptor'[f].accept_val = r.r
      /\ ~ack => acceptor'[f] = acceptor[f]
      /\ \A s \in Server \ {f} : acceptor'[s] = acceptor[s]
  BY <1>4, <1>t, Numbers DEF Acceptor
<1>b. \A m, len : HasBelow(l, m, len) <=> HasBelow(l, m, len)'
  BY <1>a DEF HasBelow
<1>c. \A x, y : IsProposal(l, x, y) => IsProposal(l, x, y)'
  BY <1>a, <1>7, <1>p DEF IsProposal
<1>8. FollowerLog(l, f)'
  BY <1>a, <1>7, <1>p DEF Link, FollowerLog
<1>9. FollowerBallots(l, f)'
  <2>1. FollowerBallots(l, f) /\ acceptor'[l] = acceptor[l] /\ in_sync' = in_sync /\ log' = log
    BY <1>7, <1>a, <1>p DEF Link
  <2>2. CASE ack
    <3>0. acceptor[f].promised_num.num = r.ballot.num
      BY <1>A, <2>2, Zenon
    <3>1. acceptor'[f].accept_num.num =< acceptor[f].promised_num.num
      BY <1>7, <1>p, <2>2, <3>0 DEF AcceptorNumbers
    <3>2. IsProposal(l, acceptor[f].accept_num, acceptor[f].accept_val)'
      BY <1>2, <1>7, <1>c, <2>2
    <3>3. IsLocal(f, acceptor'[f].accept_val)
      BY <1>2, <1>7, <2>2
    <3> QED
      BY <1>7, <1>b, <2>1, <3>1, <3>2, <3>3 DEF FollowerBallots, IsLocal
  <2>3. CASE ~ack
    BY <1>7, <1>b, <1>c, <2>1, <2>3 DEF FollowerBallots, IsLocal
  <2> QED
    BY <2>2, <2>3
<1>10. CallsSound(l, f)'
  <2>1. ASSUME NEW d, CallSound(l, f, d) PROVE CallSound(l, f, d)'
    <3>1. /\ acceptor'[l] = acceptor[l] /\ last_inserted' = last_inserted /\ log' = log
          /\ acceptor'[f].promised_num = acceptor[f].promised_num /\ in_sync' = in_sync
      BY <1>7, <1>a, <1>p
    <3> QED
      BY <1>b, <1>c, <2>1, <3>1 DEF CallSound, IsLocal
  <2>2. CallSound(l, f, c)
    BY <1>1, <1>2, <1>5 DEF CallSound
  <2>3. \A k \in DOMAIN chan[l][f] \ {i} : \A d : d = chan[l][f][k] => CallSound(l, f, d)'
    BY <1>p, <1>t, <2>1, QueuedCalls
  <2> QED
    BY <1>1, <1>5, <1>6, <1>p, <2>1, <2>2, <2>3, CallsThin DEF Link
<1>11. SyncsSound(l, f)'
  <2>1. \A d : SyncSound(l, f, d) => SyncSound(l, f, d)'
    BY <1>a DEF SyncSound
  <2> QED
    BY <1>6, <1>p, <2>1 DEF Link, SyncsSound
<1>12. PairChanges(l, f)
  <2>1. \A s \in Server : AskedLess(s)
    BY <1>a DEF AskedLess, SaidYes
  <2>2. /\ \A j \in DOMAIN chan[l][f] : chan[l][f][j].type # "SYNC"
        /\ \A j \in DOMAIN chan[f][l] : chan[f][l][j].type = "SYNC"
    BY <1>1, <1>t, PairParts
  <2>3. \A j \in DOMAIN chan'[l][f] : chan'[l][f][j].type # "SYNC"
    BY <1>5, <1>6, <2>2 DEF Thinned
  <2> QED
    BY <1>6, <1>7, <1>a, <1>p, <2>1, <2>2, <2>3 DEF PairChanges, ServerKept
<1>13. LeaderRound(l)'
  BY <1>7, <1>a, <1>p, LeaderKept DEF ServerKept
<1>14. Link(l, f)'
  BY <1>8, <1>9, <1>10, <1>11 DEF Link
<1> QED
  BY <1>1, <1>12, <1>13, <1>14, PairStep

\* A step that only ends a call of a leader, or moves it on, without a change of
\* the state of either end.
LEMMA QueueReplicates ==
    ASSUME StableLeaders, TypeOK, Replicated, NEW l \in Server, NEW f \in Server,
           Follows(f, l), NEW i \in DOMAIN chan[l][f], NEW c,
           c.type = chan[l][f][i].type, Thinned(chan'[l][f], chan[l][f], i, c),
           \/ CallSound(l, f, c)
           \/ \A j \in DOMAIN chan'[l][f] :
                 \E k \in DOMAIN chan[l][f] \ {i} : chan'[l][f][j] = chan[l][f][k],
           \A s \in Server : ServerKept(s) /\ AskedLess(s),
           \A s \in Server \ {l} : round'[s] = round[s],
           \A s, t \in Server : <<s, t>> # <<l, f>> => chan'[s][t] = chan[s][t],
           LeaderRound(l)'
    PROVE  Replicated' /\ PairChanges(l, f)
<1>p. /\ f # l /\ Link(l, f) /\ last_inserted[f] = Len(log[f]) - 1
      /\ \A j \in DOMAIN chan[l][f] : chan[l][f][j].type # "SYNC"
      /\ \A j \in DOMAIN chan[f][l] : chan[f][l][j].type = "SYNC"
  BY PairParts
<1>1. EndsKept(l, f) /\ chan'[f][l] = chan[f][l]
  BY <1>p DEF EndsKept, ServerKept
<1>2. /\ FollowerLog(l, f)' /\ FollowerBallots(l, f)'
      /\ \A d : CallSound(l, f, d) => CallSound(l, f, d)'
      /\ \A d : SyncSound(l, f, d) => SyncSound(l, f, d)'
  BY <1>1, <1>p, PartsKept DEF Link
<1>3. CallsSound(l, f)'
  <2>1. CallSound(l, f, c) => CallSound(l, f, c)'
    BY <1>2
  <2>2. \A k \in DOMAIN chan[l][f] \ {i} : \A d : d = chan[l][f][k] => CallSound(l, f, d)'
    BY <1>2, <1>p DEF Link, CallsSound
  <2> QED
    BY <1>p, <2>1, <2>2, CallsThin DEF Link
<1>4. SyncsSound(l, f)'
  BY <1>1, <1>2, <1>p DEF Link, SyncsSound
<1>5. PairChanges(l, f)
  <2>1. \A j \in DOMAIN chan'[l][f] : chan'[l][f][j].type # "SYNC"
    BY <1>p, ThinnedTypes
  <2> QED
    BY <1>1, <1>p, <2>1 DEF PairChanges, ServerKept
<1> QED
  BY <1>2, <1>3, <1>4, <1>5, PairStep DEF Link

\* The Commit a follower applies is for the next entry of its log, or for one it has.
LEMMA CommitIsNext ==
    ASSUME NEW l, NEW f, Link(l, f), LeaderLog(l), LogNumbers(l), LogNumbers(f),
           AcceptorNumbers(f), log[l] \in Seq(WALEntry),
           NEW c, CallSound(l, f, c), c.type = "COMMIT",
           NEW n \in Nat, n # 0, c.req.ballot.num = n,
           acceptor[f].promised_num.num = n, acceptor[f].accept_num.num = n,
           NEW e, e = Entry(acceptor[f].accept_val, acceptor[f].accept_num, "COMMITTED")
    PROVE  /\ \/ Len(log[f]) + 1 \in DOMAIN log[l] /\ log[l][Len(log[f]) + 1] = e
              \/ \E k \in DOMAIN log[f] : log[f][k] = e
           /\ e \in WALEntry
           /\ IsLocal(f, acceptor[f].accept_val)
<1> DEFINE p == Len(log[f])
           q == Len(log[l])
<1>1. PICK k \in DOMAIN log[l] : log[l][k].ballot.num = n
  BY DEF CallSound
<1>2. /\ IsProposal(l, acceptor[f].accept_num, acceptor[f].accept_val)
      /\ IsLocal(f, acceptor[f].accept_val)
  BY DEF Link, FollowerBallots
<1>3. n =< acceptor[f].ballot_num /\ acceptor[f].ballot_num \in Nat
  BY DEF Link, FollowerBallots, AcceptorNumbers
<1>4. /\ log[l][k].ballot = acceptor[f].accept_num /\ log[l][k].tid = acceptor[f].accept_val
      /\ log[l][k].status = "COMMITTED" /\ log[l][k] \in WALEntry
  BY <1>1, <1>2, ElementOfSeq DEF IsProposal, LeaderLog
<1>5. log[l][k] = e
  BY <1>4 DEF WALEntry, Entry
<1>6. /\ p \in Nat /\ q \in Nat /\ DOMAIN log[l] = 1 .. q /\ DOMAIN log[f] = 1 .. p
      /\ \A j \in 1 .. q : log[l][j].ballot.num \in Nat
      /\ \A j \in 1 .. q : j > p => log[l][j].ballot.num >= acceptor[f].ballot_num
      /\ \A j \in 1 .. p : log[f][j] = log[l][j]
      /\ \A i, j \in 1 .. q : i < j => log[l][i].ballot.num < log[l][j].ballot.num
  BY DEF LogNumbers, LeaderLog, Link, FollowerLog
<1> HIDE DEF p, q
<1>7. CASE k =< p
  BY <1>1, <1>2, <1>4, <1>5, <1>6, <1>7 DEF p
<1>8. CASE k > p
  <2>1. p + 1 \in 1 .. q /\ p + 1 > p
    BY <1>1, <1>6, <1>8
  <2>2. ~(p + 1 < k)
    BY <1>1, <1>3, <1>6, <2>1
  <2>3. k = p + 1
    BY <1>1, <1>6, <1>8, <2>2
  <2> QED
    BY <1>1, <1>2, <1>4, <1>5, <2>3 DEF p
<1> QED
  BY <1>1, <1>6, <1>7, <1>8

\* processCommitCall: a follower appends the next entry of its leader's log or
\* nothing, unless it appends one that it has.
LEMMA CommitCallReplicates ==
    ASSUME StableLeaders, IntraShard, AtomicityInv, Replicated, LoggedOnce',
           NEW l \in Server, NEW f \in Server, NEW i, processCommitCall(l, f, i), acked' = acked
    PROVE  Replicated' /\ PairChanges(l, f) /\ Follows(f, l)
<1>t. TypeOK /\ RoundsStarted /\ chan \in [Server -> [Server -> Seq(SoundCall)]]
  BY DEF AtomicityInv
<1>v. PICK v : v = chan[l][f][i]
  OBVIOUS
<1>n. PICK n : n = v.req.ballot.num
  OBVIOUS
<1>x. PICK tid : tid = acceptor[f].accept_val
  OBVIOUS
<1>b. PICK b : b = acceptor[f].accept_num
  OBVIOUS
<1>1. i \in DOMAIN chan[l][f] /\ v.type = "COMMIT" /\ Follows(f, l)
  <2>1. i \in DOMAIN chan[l][f] /\ v.type = "COMMIT"
    BY <1>v DEF processCommitCall, Arrives
  <2> QED
    BY <1>v, <2>1, CallsByRole
<1>p. /\ f # l /\ Leads(l) /\ ~Leads(f) /\ ~in_sync[l]
      /\ Link(l, f) /\ LeaderRound(l) /\ LeaderLog(l)
      /\ AcceptorNumbers(l) /\ AcceptorNumbers(f) /\ LogNumbers(l) /\ LogNumbers(f)
      /\ QueueNumbers(l, f) /\ QueueNumbers(f, l)
      /\ last_inserted[l] = Len(log[l]) - 1 /\ last_inserted[f] = Len(log[f]) - 1
      /\ \A j \in DOMAIN chan[l][f] : chan[l][f][j].type # "SYNC"
      /\ \A j \in DOMAIN chan[f][l] : chan[f][l][j].type = "SYNC"
  BY <1>1, <1>t, PairParts
<1>2. CallSound(l, f, v) /\ n \in Nat /\ n # 0
  <2>1. CallSound(l, f, v) /\ CallNumbers(v)
    BY <1>v, <1>t, <1>1, <1>p, QueuedCalls
  <2>2. v \in SoundCall
    BY <1>v, <1>t, <1>1, ArrivingCall
  <2> QED
    BY <1>n, <1>1, <2>1, <2>2 DEF CallNumbers, SoundCall
<1>a. /\ round' = round /\ in_sync' = in_sync /\ inCalls' = inCalls /\ replies' = replies
      /\ chan' = [chan EXCEPT ![l][f] = RemoveAt(@, i)]
  BY DEF processCommitCall, rpcVars
<1>3. /\ chan'[l][f] = RemoveAt(chan[l][f], i)
      /\ \A s, t \in Server : <<s, t>> # <<l, f>> => chan'[s][t] = chan[s][t]
  BY <1>a, <1>t, Numbers
<1>4. /\ Thinned(chan'[l][f], chan[l][f], i, v)
      /\ \A j \in DOMAIN chan'[l][f] :
            \E k \in DOMAIN chan[l][f] \ {i} : chan'[l][f][j] = chan[l][f][k]
  <2>1. chan[l][f] \in Seq(OutCall)
    BY <1>p DEF QueueNumbers
  <2>2. /\ Thinned(RemoveAt(chan[l][f], i), chan[l][f], i, v)
        /\ \A j \in DOMAIN RemoveAt(chan[l][f], i) :
              \E k \in DOMAIN chan[l][f] \ {i} : RemoveAt(chan[l][f], i)[j] = chan[l][f][k]
    BY <1>1, <2>1, RemovedThins
  <2> QED
    BY <1>3, <2>2
<1>5. \A s \in Server : AskedLess(s)
  BY <1>a DEF AskedLess, SaidYes
<1>6. CASE UNCHANGED <<acceptor, storeVars>>
  <2>1. \A s \in Server : ServerKept(s)
    BY <1>6, <1>a DEF ServerKept, storeVars
  <2>2. LeaderRound(l)'
    BY <1>a, <1>p, <2>1, LeaderKept
  <2>3. v.type = chan[l][f][i].type /\ round' = round
    BY <1>v, <1>a
  <2> QED
    BY <1>t, <1>1, <1>3, <1>4, <1>5, <2>1, <2>2, <2>3, QueueReplicates
<1>7. ASSUME acceptor[f].promised_num.num = n, acceptor[f].accept_num.num = n,
             \/ BothHeld(f, tid) /\ commitTransaction(f, tid, b)
             \/ ~BothHeld(f, tid),
             acceptor' = [acceptor EXCEPT ![f].promised = FALSE, ![f].accepted = FALSE]
      PROVE  Replicated' /\ PairChanges(l, f)
  <2>1. PICK e : e = Entry(tid, b, "COMMITTED")
    OBVIOUS
  <2>2. /\ \/ Len(log[f]) + 1 \in DOMAIN log[l] /\ log[l][Len(log[f]) + 1] = e
           \/ \E k \in DOMAIN log[f] : log[f][k] = e
        /\ e \in WALEntry /\ IsLocal(f, tid)
    <3>1. log[l] \in Seq(WALEntry)
      BY <1>t, Numbers
    <3>2. e = Entry(acceptor[f].accept_val, acceptor[f].accept_num, "COMMITTED")
      BY <1>x, <1>b, <2>1
    <3>3. v.req.ballot.num = n /\ v.type = "COMMIT" /\ CallSound(l, f, v) /\ n \in Nat /\ n # 0
      BY <1>n, <1>1, <1>2
    <3> QED
      BY <1>x, <1>p, <1>7, <3>1, <3>2, <3>3, CommitIsNext
  <2>3. commitTransaction(f, tid, b)
    <3>1. tid \in Tid
      BY <1>x, <1>2, <1>7, <1>t DEF RoundsStarted
    <3> QED
      BY <1>7, <2>2, <3>1, LocalIsHeld
  <2>5. /\ log'[f] = Append(log[f], e) /\ \A s \in Server \ {f} : log'[s] = log[s]
        /\ last_inserted'[f] = Len(log[f])
        /\ \A s \in Server \ {f} : last_inserted'[s] = last_inserted[s]
        /\ \A s \in Server \ {f} : last_inserted_ballot'[s] = last_inserted_ballot[s]
    BY <1>t, <2>3, <2>1, Numbers DEF commitTransaction
  <2>6. /\ acceptor'[f].promised_num = acceptor[f].promised_num
        /\ acceptor'[f].accept_num = acceptor[f].accept_num
        /\ acceptor'[f].accept_val = acceptor[f].accept_val
        /\ acceptor'[f].ballot_num = acceptor[f].ballot_num
        /\ \A s \in Server \ {f} : acceptor'[s] = acceptor[s]
    BY <1>7, <1>t, Numbers DEF Acceptor
  <2>7. PICK p : p = Len(log[f])
    OBVIOUS
  <2>8. /\ p \in Nat /\ Len(log'[f]) = p + 1 /\ DOMAIN log'[f] = 1 .. (p + 1)
        /\ log'[f][p + 1] = e /\ DOMAIN log[f] = 1 .. p
        /\ \A k \in 1 .. p : log'[f][k] = log[f][k]
    <3>1. log[f] \in Seq(WALEntry) /\ e \in WALEntry
      BY <1>t, <2>2, Numbers
    <3> QED
      BY <2>5, <2>7, <3>1, AppendProperties
  <2>4. p + 1 \in DOMAIN log[l] /\ log[l][p + 1] = e
    <3> SUFFICES ASSUME NEW k \in DOMAIN log[f], log[f][k] = e PROVE FALSE
      BY <2>2, <2>7
    <3>1. log'[f][k] = log'[f][p + 1] /\ k \in DOMAIN log'[f] /\ p + 1 \in DOMAIN log'[f]
      BY <2>8
    <3>2. k = p + 1
      BY <3>1 DEF LoggedOnce, IsInjective
    <3> QED
      BY <2>8, <3>2
  <2>9. /\ acceptor'[l] = acceptor[l] /\ log'[l] = log[l] /\ last_inserted'[l] = last_inserted[l]
        /\ in_sync' = in_sync
    BY <1>a, <1>p, <2>5, <2>6
  <2>h. /\ \A m, len : HasBelow(l, m, len) <=> HasBelow(l, m, len)'
        /\ \A x, y : IsProposal(l, x, y) => IsProposal(l, x, y)'
    BY <2>9 DEF HasBelow, IsProposal
  <2>10. FollowerLog(l, f)'
    <3>1. /\ p =< Len(log[l]) /\ \A k \in 1 .. p : log[f][k] = log[l][k]
          /\ \A k \in DOMAIN log[l] : k > p => log[l][k].ballot.num >= acceptor[f].ballot_num
          /\ p + 1 \in DOMAIN log[l] /\ log[l][p + 1] = e
          /\ Len(log[l]) \in Nat /\ DOMAIN log[l] = 1 .. Len(log[l])
      BY <1>p, <2>4, <2>7, <2>8 DEF Link, FollowerLog, LogNumbers
    <3>2. p + 1 =< Len(log[l])
      BY <3>1
    <3>3. ASSUME NEW k \in 1 .. (p + 1) PROVE log'[f][k] = log[l][k]
      <4>1. CASE k = p + 1
        BY <2>8, <3>1, <4>1
      <4>2. CASE k \in 1 .. p
        BY <2>8, <3>1, <4>2
      <4> QED
        BY <2>8, <4>1, <4>2
    <3>4. \A k \in DOMAIN log[l] : k > p + 1 => log[l][k].ballot.num >= acceptor[f].ballot_num
      BY <2>8, <3>1
    <3> QED
      BY <2>6, <2>8, <2>9, <3>2, <3>3, <3>4 DEF FollowerLog
  <2>11. FollowerBallots(l, f)'
    BY <1>p, <2>6, <2>9, <2>h DEF Link, FollowerBallots, IsLocal
  <2>12. CallsSound(l, f)'
    <3>1. ASSUME NEW k \in DOMAIN chan[l][f] \ {i}, NEW d, d = chan[l][f][k]
          PROVE  CallSound(l, f, d)'
      <4>1. CallSound(l, f, d)
        BY <1>p, <3>1 DEF Link, CallsSound
      <4> QED
        BY <2>9, <2>h, <4>1 DEF CallSound, IsLocal
    <3> QED
      BY <1>1, <1>4, <1>p, <3>1, CallsThin DEF Link
  <2>13. SyncsSound(l, f)'
    <3>1. chan'[f][l] = chan[f][l] /\ QueueNumbers(f, l)
      BY <1>3, <1>p
    <3>2. ASSUME NEW d, CallNumbers(d), SyncSound(l, f, d) PROVE SyncSound(l, f, d)'
      BY <2>7, <2>8, <2>9, <3>2 DEF SyncSound, CallNumbers
    <3> QED
      BY <1>p, <3>1, <3>2 DEF Link, SyncsSound, QueueNumbers
  <2>14. PairChanges(l, f)
    <3>1. \A j \in DOMAIN chan'[l][f] : chan'[l][f][j].type # "SYNC"
      BY <1>4, <1>p
    <3>2. \A s \in Server \ {f} : ServerKept(s)
      BY <1>a, <2>5, <2>6 DEF ServerKept
    <3>3. last_inserted'[f] = Len(log'[f]) - 1
      BY <2>5, <2>7, <2>8
    <3> QED
      BY <1>3, <1>5, <1>a, <1>p, <3>1, <3>2, <3>3 DEF PairChanges
  <2>15. LeaderRound(l)'
    BY <1>a, <1>p, <2>14, LeaderKept DEF PairChanges
  <2> QED
    BY <1>1, <2>10, <2>11, <2>12, <2>13, <2>14, <2>15, PairStep DEF Link
<1> QED
  BY <1>1, <1>6, <1>7, <1>v, <1>n, <1>x, <1>b DEF processCommitCall

\* A step that ends a Sync of a follower, or moves it on.
LEMMA SyncQueueReplicates ==
    ASSUME StableLeaders, TypeOK, Replicated, NEW l \in Server, NEW f \in Server,
           Follows(f, l), NEW i \in DOMAIN chan[f][l], NEW c,
           c.type = chan[f][l][i].type, Thinned(chan'[f][l], chan[f][l], i, c),
           \/ SyncSound(l, f, c)
           \/ \A j \in DOMAIN chan'[f][l] :
                 \E k \in DOMAIN chan[f][l] \ {i} : chan'[f][l][j] = chan[f][l][k],
           \A s \in Server : ServerKept(s) /\ AskedLess(s), round' = round,
           \A s, t \in Server : <<s, t>> # <<f, l>> => chan'[s][t] = chan[s][t]
    PROVE  Replicated' /\ PairChanges(l, f)
<1>p. /\ f # l /\ Link(l, f) /\ LeaderRound(l) /\ last_inserted[f] = Len(log[f]) - 1
      /\ \A j \in DOMAIN chan[l][f] : chan[l][f][j].type # "SYNC"
      /\ \A j \in DOMAIN chan[f][l] : chan[f][l][j].type = "SYNC"
  BY PairParts
<1>1. EndsKept(l, f) /\ chan'[l][f] = chan[l][f]
  BY <1>p DEF EndsKept, ServerKept
<1>2. /\ FollowerLog(l, f)' /\ FollowerBallots(l, f)'
      /\ \A d : CallSound(l, f, d) => CallSound(l, f, d)'
      /\ \A d : SyncSound(l, f, d) => SyncSound(l, f, d)'
  BY <1>1, <1>p, PartsKept DEF Link
<1>3. SyncsSound(l, f)'
  <2>1. SyncSound(l, f, c) => SyncSound(l, f, c)'
    BY <1>2
  <2>2. \A k \in DOMAIN chan[f][l] \ {i} : \A d : d = chan[f][l][k] => SyncSound(l, f, d)'
    BY <1>2, <1>p DEF Link, SyncsSound
  <2> QED
    BY <1>p, <2>1, <2>2, SyncsThin DEF Link
<1>4. CallsSound(l, f)'
  BY <1>1, <1>2, <1>p DEF Link, CallsSound, InOrder
<1>5. PairChanges(l, f)
  <2>1. \A j \in DOMAIN chan'[f][l] : chan'[f][l][j].type = "SYNC"
    BY <1>p, ThinnedTypes
  <2> QED
    BY <1>1, <1>p, <2>1 DEF PairChanges, ServerKept
<1>6. LeaderRound(l)'
  BY <1>p, LeaderKept
<1> QED
  BY <1>2, <1>3, <1>4, <1>5, <1>6, PairStep DEF Link

\* What is left of a sequence after its first m elements.
LEMMA SuffixElements ==
    ASSUME NEW S, NEW q \in Seq(S), NEW m \in Nat, m < Len(q)
    PROVE  /\ SubSeq(q, m + 1, Len(q)) # <<>>
           /\ m + Len(SubSeq(q, m + 1, Len(q))) = Len(q)
           /\ \A k \in DOMAIN SubSeq(q, m + 1, Len(q)) : SubSeq(q, m + 1, Len(q))[k] = q[m + k]
<1> DEFINE r == SubSeq(q, m + 1, Len(q))
           n == Len(q)
<1>0. n \in Nat /\ m < n
  OBVIOUS
<1>1. /\ r \in Seq(S) /\ Len(r) = Len(q) - m
      /\ \A k \in 1 .. (Len(q) - m) : r[k] = q[m + k]
  BY <1>0, SubSeqProperties
<1>2. DOMAIN r = 1 .. Len(r) /\ (r = <<>> => Len(r) = 0)
  <2>1. r \in Seq(S)
    BY <1>1
  <2> HIDE DEF r
  <2> QED
    BY <2>1
<1>3. Len(r) = n - m /\ \A k \in 1 .. (n - m) : r[k] = q[m + k]
  BY <1>1
<1> SUFFICES r # <<>> /\ m + Len(r) = n /\ \A k \in DOMAIN r : r[k] = q[m + k]
  OBVIOUS
<1> HIDE DEF r, n
<1> QED
  BY <1>0, <1>2, <1>3

\* processSyncCall: the leader answers with what the follower does not have.
LEMMA SyncCallReplicates ==
    ASSUME StableLeaders, TypeOK, Replicated,
           NEW f \in Server, NEW l \in Server, NEW i, processSyncCall(f, l, i), acked' = acked
    PROVE  Replicated' /\ PairChanges(l, f) /\ Follows(f, l)
<1>v. PICK v : v = chan[f][l][i]
  OBVIOUS
<1>r. PICK from : from = v.req.last_inserted
  OBVIOUS
<1>R. PICK res : res = IF last_inserted[l] > from
                       THEN [Ack EXCEPT !.logs = SubSeq(log[l], from + 2, Len(log[l])),
                                        !.last_inserted_ballot = last_inserted_ballot[l]]
                       ELSE Nack
  OBVIOUS
<1>1. i \in DOMAIN chan[f][l] /\ v.type = "SYNC" /\ Follows(f, l)
  <2>1. i \in DOMAIN chan[f][l] /\ v.type = "SYNC"
    BY <1>v DEF processSyncCall, Arrives
  <2> QED
    BY <1>v, <2>1, CallsByRole
<1>p. /\ f # l /\ Link(l, f) /\ LeaderLog(l) /\ LogNumbers(l) /\ LogNumbers(f)
      /\ QueueNumbers(f, l)
      /\ last_inserted[l] = Len(log[l]) - 1 /\ last_inserted[f] = Len(log[f]) - 1
  BY <1>1, PairParts
<1>a. /\ acceptor' = acceptor /\ log' = log /\ last_inserted' = last_inserted
      /\ last_inserted_ballot' = last_inserted_ballot /\ in_sync' = in_sync
      /\ round' = round /\ inCalls' = inCalls /\ replies' = replies
      /\ chan' = [chan EXCEPT ![f][l] = Answered(f, l, i, res)]
  BY <1>v, <1>r, <1>R DEF processSyncCall, storeVars, rpcVars
<1>2. /\ chan'[f][l] = Answered(f, l, i, res)
      /\ \A s, t \in Server : <<s, t>> # <<f, l>> => chan'[s][t] = chan[s][t]
  BY <1>a, Numbers
<1>3. \A s \in Server : ServerKept(s) /\ AskedLess(s)
  BY <1>a DEF ServerKept, AskedLess, SaidYes
<1>q. chan[f][l] \in Seq(OutCall)
  BY <1>p DEF QueueNumbers
<1>4. CASE v.stage = "expired"
  <2>1. chan'[f][l] = RemoveAt(chan[f][l], i)
    BY <1>v, <1>2, <1>4 DEF Answered
  <2>2. /\ Thinned(RemoveAt(chan[f][l], i), chan[f][l], i, v)
        /\ \A j \in DOMAIN RemoveAt(chan[f][l], i) :
              \E k \in DOMAIN chan[f][l] \ {i} : RemoveAt(chan[f][l], i)[j] = chan[f][l][k]
    BY <1>1, <1>q, RemovedThins
  <2> QED
    BY <1>v, <1>a, <1>1, <1>2, <1>3, <2>1, <2>2, SyncQueueReplicates
<1>5. CASE v.stage # "expired"
  <2>1. PICK c : /\ c.type = chan[f][l][i].type /\ c.req = chan[f][l][i].req
                 /\ c.stage = "reply" /\ c.res = res
                 /\ Thinned(Answered(f, l, i, res), chan[f][l], i, c)
    BY <1>1, <1>q, AnsweredThins
  <2>2. /\ from + 1 =< Len(log[f]) /\ c.req.last_inserted = from
        /\ from \in Int /\ from >= -1
    <3>1. SyncSound(l, f, v) /\ CallNumbers(v)
      BY <1>v, <1>1, <1>p DEF Link, SyncsSound, QueueNumbers
    <3> QED
      BY <1>v, <1>r, <2>1, <3>1 DEF SyncSound, CallNumbers
  <2>3. SyncSound(l, f, c)
    <3>1. CASE last_inserted[l] > from
      <4>1. PICK m : m = from + 1
        OBVIOUS
      <4>2. m \in Nat /\ m < Len(log[l]) /\ from + 2 = m + 1 /\ Len(log[l]) \in Nat
        BY <1>p, <2>2, <3>1, <4>1 DEF LogNumbers
      <4>3. PICK logs : /\ logs = SubSeq(log[l], m + 1, Len(log[l]))
                        /\ logs # <<>>
                        /\ m + Len(logs) = Len(log[l])
                        /\ \A k \in DOMAIN logs : logs[k] = log[l][m + k]
        <5>1. log[l] \in Seq(WALEntry)
          BY <1>p DEF LogNumbers
        <5>2. /\ SubSeq(log[l], m + 1, Len(log[l])) # <<>>
              /\ m + Len(SubSeq(log[l], m + 1, Len(log[l]))) = Len(log[l])
              /\ \A k \in DOMAIN SubSeq(log[l], m + 1, Len(log[l])) :
                    SubSeq(log[l], m + 1, Len(log[l]))[k] = log[l][m + k]
          BY <4>2, <5>1, SuffixElements
        <5> QED
          BY <5>2, Zenon
      <4>4. res.logs = logs /\ res.last_inserted_ballot = last_inserted_ballot[l]
        BY <1>R, <3>1, <4>2, <4>3 DEF Ack, Nack
      <4>5. last_inserted_ballot[l] = log[l][Len(log[l])].ballot
        <5>1. log[l] # <<>>
          BY <1>p, <4>2 DEF LogNumbers
        <5> QED
          BY <1>p, <5>1 DEF LeaderLog
      <4>6. /\ logs # <<>> /\ m + Len(logs) =< Len(log[l])
            /\ \A k \in DOMAIN logs : logs[k] = log[l][m + k]
            /\ last_inserted_ballot[l] = log[l][m + Len(logs)].ballot
        BY <4>2, <4>3, <4>5
      <4> QED
        BY <2>1, <2>2, <4>1, <4>4, <4>6 DEF SyncSound
    <3>2. CASE ~(last_inserted[l] > from)
      <4>1. ~res.ack
        BY <1>R, <3>2 DEF Nack
      <4> QED
        BY <2>1, <2>2, <4>1 DEF SyncSound
    <3> QED
      BY <3>1, <3>2
  <2>4. Thinned(chan'[f][l], chan[f][l], i, c)
    BY <1>2, <2>1
  <2> QED
    BY <1>a, <1>1, <1>2, <1>3, <2>1, <2>3, <2>4, SyncQueueReplicates
<1> QED
  BY <1>1, <1>4, <1>5

-----------------------------------------------------------------------------
(* The end of a call at its caller *)

\* The i-th call of s to t, that s still waits for, ends with that status: it is
\* taken out of the queue, or stays there as one s has given up.
CallOver(s, t, i, status, rest) ==
    /\ i \in DOMAIN chan[s][t]
    /\ chan[s][t][i].stage # "expired"
    /\ status = "OK" => chan[s][t][i].stage = "reply"
    /\ status \notin {"OK", "DEADLINE_EXCEEDED"} => crashed[t]
    /\ \/ rest = RemoveAt(chan[s][t], i)
       \/ /\ chan[s][t][i].type # "COMMIT"
          /\ status # "OK"
          /\ rest = [chan[s][t] EXCEPT ![i].stage = "expired"]

LEMMA EndsOfCalls ==
    ASSUME NEW s, NEW t, NEW i, ReplyArrives(s, t, i) \/ Expire(s, t, i) \/ Unavailable(s, t, i)
    PROVE  \E status, rest : CallOver(s, t, i, status, rest)
                             /\ HandleRPCResponse(s, t, i, status, rest)
<1>1. CASE ReplyArrives(s, t, i)
  <2>1. CallOver(s, t, i, "OK", RemoveAt(chan[s][t], i))
    BY <1>1 DEF ReplyArrives, CallOver
  <2> QED
    BY <1>1, <2>1 DEF ReplyArrives
<1>2. CASE Expire(s, t, i)
  <2>1. CallOver(s, t, i, "DEADLINE_EXCEEDED", RemoveAt(chan[s][t], i))
    BY <1>2 DEF Expire, CallOver
  <2>2. chan[s][t][i].type # "COMMIT" =>
           CallOver(s, t, i, "DEADLINE_EXCEEDED", [chan[s][t] EXCEPT ![i].stage = "expired"])
    BY <1>2 DEF Expire, CallOver
  <2> QED
    BY <1>2, <2>1, <2>2 DEF Expire
<1>3. CASE Unavailable(s, t, i)
  <2>1. CallOver(s, t, i, "UNAVAILABLE", RemoveAt(chan[s][t], i))
    BY <1>3 DEF Unavailable, CallOver
  <2> QED
    BY <1>3, <2>1 DEF Unavailable
<1> QED
  BY <1>1, <1>2, <1>3

LEMMA EndedThins ==
    ASSUME NEW s, NEW t, chan[s][t] \in Seq(OutCall), NEW i, NEW status, NEW rest,
           CallOver(s, t, i, status, rest)
    PROVE  \E c : /\ c.type = chan[s][t][i].type /\ c.req = chan[s][t][i].req
                  /\ c.res = chan[s][t][i].res /\ c.stage = "expired"
                  /\ Thinned(rest, chan[s][t], i, c)
                  /\ c.type = "COMMIT" \/ status = "OK" =>
                        \A j \in DOMAIN rest :
                           \E k \in DOMAIN chan[s][t] \ {i} : rest[j] = chan[s][t][k]
<1> DEFINE q == chan[s][t]
           c == [q[i] EXCEPT !.stage = "expired"]
<1>1. i \in DOMAIN q /\ q \in Seq(OutCall)
  BY DEF CallOver
<1>2. q[i] \in OutCall
  BY <1>1, ElementOfSeq
<1>3. /\ c.type = q[i].type /\ c.req = q[i].req /\ c.res = q[i].res /\ c.stage = "expired"
  BY <1>2 DEF OutCall
<1>4. Succeeds(c, q[i])
  BY <1>3 DEF Succeeds
<1>5. CASE rest = RemoveAt(q, i)
  <2>1. /\ Thinned(rest, q, i, c)
        /\ \A j \in DOMAIN rest : \E k \in DOMAIN q \ {i} : rest[j] = q[k]
    BY <1>1, <1>5, RemovedThins
  <2> QED
    BY <1>3, <2>1
<1>6. CASE /\ q[i].type # "COMMIT" /\ status # "OK"
           /\ rest = [q EXCEPT ![i].stage = "expired"]
  <2>1. rest = [q EXCEPT ![i] = c]
    BY <1>6
  <2>2. Thinned(rest, q, i, c)
    BY <1>1, <1>4, <2>1, ChangedThins
  <2>3. ~(c.type = "COMMIT" \/ status = "OK")
    BY <1>3, <1>6
  <2> QED
    BY <1>3, <2>2, <2>3
<1> QED
  BY <1>5, <1>6 DEF CallOver

\* handlePrepareReply: with one leader no peer knows a later ballot or more entries.
LEMMA PrepareReplyKeeps ==
    ASSUME StableLeaders, TypeOK, Replicated, NEW l \in Server, NEW f \in Server,
           Follows(f, l), NEW v, CallSound(l, f, v), CallNumbers(v), v.type = "PREPARE",
           NEW status, NEW rest, handlePrepareReply(l, f, v, status, rest)
    PROVE  /\ acceptor' = acceptor /\ in_sync' = in_sync
           /\ chan' = [chan EXCEPT ![l][f] = rest]
           /\ \A s \in Server \ {l} : round'[s] = round[s]
           /\ round'[l].paxos_tid = round[l].paxos_tid
           /\ round'[l].await_prepare_decision => round[l].await_prepare_decision
           /\ round'[l].await_accept_decision = round[l].await_accept_decision
<1>p. /\ LeaderRound(l) /\ ~in_sync[l] /\ AcceptorNumbers(l)
  BY PairParts
<1>N. PICK new : new = /\ round[l].await_prepare_decision
                       /\ v.req.ballot.num = acceptor[l].promised_num.num
                       /\ v.req.ballot.server_id = l
                       /\ status = "OK"
                       /\ v.res.latest_ballot_num # NoLatest
  OBVIOUS
<1>1. new \in BOOLEAN /\ (new => v.res.latest_ballot_num = acceptor[l].ballot_num)
  <2>1. new \in BOOLEAN
    BY <1>N
  <2>2. ASSUME new PROVE v.res.latest_ballot_num = acceptor[l].ballot_num
    <3>1. /\ v.req.ballot.num = acceptor[l].promised_num.num
          /\ v.res.latest_ballot_num # NoLatest
      BY <1>N, <2>2, Zenon
    <3>2. /\ v.req.ballot.num =< v.res.latest_ballot_num
          /\ v.res.latest_ballot_num =< acceptor[l].ballot_num
      BY <3>1 DEF CallSound
    <3>3. acceptor[l].ballot_num # 0
      BY <1>p, <3>1, <3>2 DEF NoLatest, AcceptorNumbers, CallNumbers
    <3>4. acceptor[l].promised_num.num = acceptor[l].ballot_num
      BY <1>p, <3>3 DEF LeaderRound
    <3> QED
      BY <1>p, <3>1, <3>2, <3>4 DEF AcceptorNumbers, CallNumbers
  <2> QED
    BY <2>1, <2>2
<1>2. ~(v.res.last_inserted > last_inserted[l])
  <2>1. v.res.last_inserted =< last_inserted[l] /\ v.res.last_inserted \in Int
    BY DEF CallSound, CallNumbers
  <2>2. last_inserted[l] \in Int
    BY Numbers DEF Index
  <2> QED
    BY <2>1, <2>2
<1>3. /\ acceptor' = [acceptor EXCEPT ![l].ballot_num =
                        IF new THEN v.res.latest_ballot_num ELSE @]
      /\ in_sync' = [in_sync EXCEPT ![l] = @ \/ FALSE]
      /\ chan' = [chan EXCEPT ![l][f] = rest]
  BY <1>N, <1>2 DEF handlePrepareReply
<1>4. acceptor' = acceptor
  <2>1. acceptor' = [acceptor EXCEPT ![l].ballot_num = acceptor[l].ballot_num]
    BY <1>1, <1>3
  <2> QED
    BY <2>1, Numbers DEF Acceptor
<1>5. in_sync' = in_sync
  BY <1>3, Numbers
<1>6. \E x, y, w :
        round' = [round EXCEPT ![l].prepare_successes = x, ![l].prepare_failures = y,
                               ![l].await_prepare_decision = @ /\ w]
  BY <1>2 DEF handlePrepareReply
<1>7. PICK x, y, w :
        round' = [round EXCEPT ![l].prepare_successes = x, ![l].prepare_failures = y,
                               ![l].await_prepare_decision = @ /\ w]
  BY <1>6
<1>8. /\ \A s \in Server \ {l} : round'[s] = round[s]
      /\ round'[l].paxos_tid = round[l].paxos_tid
      /\ round'[l].await_prepare_decision = (round[l].await_prepare_decision /\ w)
      /\ round'[l].await_accept_decision = round[l].await_accept_decision
  BY <1>7, Numbers DEF Round
<1> QED
  BY <1>3, <1>4, <1>5, <1>8

\* LeaderRound asks nothing of the tallies.
LEMMA TalliesKeepRound ==
    ASSUME NEW l, LeaderRound(l), ServerKept(l),
           round'[l].paxos_tid = round[l].paxos_tid,
           round'[l].await_prepare_decision => round[l].await_prepare_decision,
           round'[l].await_accept_decision = round[l].await_accept_decision
    PROVE  LeaderRound(l)'
<1>1. HasBelow(l, acceptor[l].ballot_num, Len(log[l]))
         => HasBelow(l, acceptor[l].ballot_num, Len(log[l]))'
  BY DEF ServerKept, HasBelow
<1>2. acceptor'[l] = acceptor[l]
  BY DEF ServerKept
<1> QED
  BY <1>1, <1>2 DEF LeaderRound

\* The end of a Prepare, an Accept or a Commit at the leader.
LEMMA EndedCallReplicates ==
    ASSUME StableLeaders, TypeOK, Replicated, NEW l \in Server, NEW f \in Server, NEW i,
           NEW status, NEW rest, CallOver(l, f, i, status, rest),
           HandleRPCResponse(l, f, i, status, rest), chan[l][f][i].type # "SYNC", acked' = acked
    PROVE  Replicated' /\ PairChanges(l, f) /\ Follows(f, l) /\ acceptor' = acceptor
<1>v. PICK v : v = chan[l][f][i]
  OBVIOUS
<1>1. i \in DOMAIN chan[l][f] /\ v.type # "SYNC" /\ Follows(f, l)
  BY <1>v, CallsByRole DEF CallOver
<1>p. LeaderRound(l) /\ Link(l, f) /\ chan[l][f] \in Seq(OutCall)
  BY <1>1, PairParts DEF QueueNumbers
<1>2. CallSound(l, f, v) /\ CallNumbers(v)
  BY <1>v, <1>1, <1>p, QueuedCalls
<1>3. \/ v.type = "PREPARE" /\ handlePrepareReply(l, f, v, status, rest)
      \/ v.type = "ACCEPT" /\ handleAcceptReply(l, f, v, status, rest)
      \/ /\ v.type = "COMMIT" /\ chan' = [chan EXCEPT ![l][f] = rest]
         /\ UNCHANGED <<acceptor, round, storeVars, in_sync>>
  BY <1>v, <1>1 DEF HandleRPCResponse
<1>4. /\ inCalls' = inCalls /\ replies' = replies
      /\ log' = log /\ last_inserted' = last_inserted
      /\ last_inserted_ballot' = last_inserted_ballot
  <2>1. inCalls' = inCalls /\ replies' = replies
    BY DEF HandleRPCResponse, rpcVars
  <2>2. UNCHANGED storeVars
    BY <1>3 DEF handlePrepareReply, handleAcceptReply
  <2> QED
    BY <2>1, <2>2 DEF storeVars
<1>5. /\ acceptor' = acceptor /\ in_sync' = in_sync
      /\ chan' = [chan EXCEPT ![l][f] = rest]
      /\ \A s \in Server \ {l} : round'[s] = round[s]
      /\ round'[l].paxos_tid = round[l].paxos_tid
      /\ round'[l].await_prepare_decision => round[l].await_prepare_decision
      /\ round'[l].await_accept_decision = round[l].await_accept_decision
  <2>1. CASE v.type = "PREPARE" /\ handlePrepareReply(l, f, v, status, rest)
    BY <1>1, <1>2, <2>1, PrepareReplyKeeps
  <2>2. CASE v.type = "ACCEPT" /\ handleAcceptReply(l, f, v, status, rest)
    <3>1. \E x, y : round' = [round EXCEPT ![l].accept_successes = x, ![l].accept_failures = y]
      BY <2>2 DEF handleAcceptReply
    <3>2. /\ \A s \in Server \ {l} : round'[s] = round[s]
          /\ round'[l].paxos_tid = round[l].paxos_tid
          /\ round'[l].await_prepare_decision = round[l].await_prepare_decision
          /\ round'[l].await_accept_decision = round[l].await_accept_decision
      BY <3>1, Numbers DEF Round
    <3> QED
      BY <2>2, <3>2 DEF handleAcceptReply
  <2>3. CASE /\ v.type = "COMMIT" /\ chan' = [chan EXCEPT ![l][f] = rest]
             /\ UNCHANGED <<acceptor, round, storeVars, in_sync>>
    BY <2>3
  <2> QED
    BY <1>3, <2>1, <2>2, <2>3
<1>6. /\ chan'[l][f] = rest
      /\ \A s, t \in Server : <<s, t>> # <<l, f>> => chan'[s][t] = chan[s][t]
  BY <1>5, Numbers
<1>7. \A s \in Server : ServerKept(s) /\ AskedLess(s)
  BY <1>4, <1>5 DEF ServerKept, AskedLess, SaidYes
<1>8. LeaderRound(l)'
  BY <1>5, <1>7, <1>p, TalliesKeepRound
<1>9. PICK c : /\ c.type = chan[l][f][i].type /\ c.req = chan[l][f][i].req
               /\ c.res = chan[l][f][i].res /\ c.stage = "expired"
               /\ Thinned(rest, chan[l][f], i, c)
               /\ c.type = "COMMIT" \/ status = "OK" =>
                     \A j \in DOMAIN rest :
                        \E k \in DOMAIN chan[l][f] \ {i} : rest[j] = chan[l][f][k]
  BY <1>p, EndedThins
<1>10. \/ CallSound(l, f, c)
       \/ \A j \in DOMAIN chan'[l][f] :
             \E k \in DOMAIN chan[l][f] \ {i} : chan'[l][f][j] = chan[l][f][k]
  <2>1. c.type # "COMMIT" => CallSound(l, f, c)
    BY <1>v, <1>2, <1>9 DEF CallSound
  <2> QED
    BY <1>6, <1>9, <2>1
<1>11. Thinned(chan'[l][f], chan[l][f], i, c) /\ c.type = chan[l][f][i].type
  BY <1>6, <1>9
<1> QED
  BY <1>1, <1>5, <1>6, <1>7, <1>8, <1>10, <1>11, QueueReplicates

\* What follows the first sequence in a concatenation.
LEMMA ConcatElements ==
    ASSUME NEW S, NEW p \in Seq(S), NEW q \in Seq(S)
    PROVE  /\ Len(p \o q) = Len(p) + Len(q)
           /\ DOMAIN (p \o q) = 1 .. (Len(p) + Len(q))
           /\ \A k \in 1 .. (Len(p) + Len(q)) :
                 (p \o q)[k] = IF k =< Len(p) THEN p[k] ELSE q[k - Len(p)]
<1> DEFINE r == p \o q
<1>1. /\ r \in Seq(S) /\ Len(r) = Len(p) + Len(q)
      /\ \A k \in 1 .. (Len(p) + Len(q)) : r[k] = IF k =< Len(p) THEN p[k] ELSE q[k - Len(p)]
  BY ConcatProperties
<1> HIDE DEF r
<1>2. DOMAIN r = 1 .. (Len(p) + Len(q))
  <2>1. DOMAIN r = 1 .. Len(r)
    BY <1>1
  <2> QED
    BY <1>1, <2>1
<1>3. Len(r) = Len(p) + Len(q) /\ DOMAIN r = 1 .. (Len(p) + Len(q))
      /\ \A k \in 1 .. (Len(p) + Len(q)) : r[k] = IF k =< Len(p) THEN p[k] ELSE q[k - Len(p)]
  BY <1>1, <1>2
<1> QED
  BY <1>3 DEF r

\* The log of a follower after it has appended what its leader sent: x entries that
\* follow the m it had.
LEMMA LogCatchesUp ==
    ASSUME NEW l, NEW f, FollowerLog(l, f), LeaderRound(l), LeaderLog(l),
           LogNumbers(l), LogNumbers(f), AcceptorNumbers(l), AcceptorNumbers(f),
           NEW m \in Nat, m = Len(log[f]), NEW x \in Nat, x # 0, m + x =< Len(log[l]),
           Len(log'[f]) = m + x, DOMAIN log'[f] = 1 .. (m + x), log'[l] = log[l],
           \A k \in 1 .. (m + x) : k =< m => log'[f][k] = log[f][k],
           \A k \in 1 .. (m + x) : k > m => log'[f][k] = log[l][k],
           acceptor'[f].ballot_num = log[l][m + x].ballot.num
    PROVE  /\ FollowerLog(l, f)'
           /\ acceptor[f].ballot_num =< acceptor'[f].ballot_num
           /\ acceptor'[f].ballot_num =< acceptor[l].ballot_num
           /\ acceptor'[f].ballot_num \in Int
<1>n. PICK n : n = Len(log[l])
  OBVIOUS
<1>1. /\ n \in Nat /\ m + x =< n /\ DOMAIN log[l] = 1 .. n /\ DOMAIN log[f] = 1 .. m
  BY <1>n DEF LogNumbers
<1>3. ASSUME NEW k \in 1 .. (m + x) PROVE log'[f][k] = log[l][k]
  <2>1. CASE k =< m
    <3>1. k \in DOMAIN log[f]
      BY <1>1, <2>1
    <3> QED
      BY <2>1, <3>1 DEF FollowerLog
  <2>2. CASE k > m
    BY <2>2
  <2> QED
    BY <2>1, <2>2
<1>4. m + x \in DOMAIN log[l] /\ m + x > m
  BY <1>1
<1>5. PICK b : b = log[l][m + x].ballot.num
  OBVIOUS
<1>6. b \in Nat /\ acceptor'[f].ballot_num = b
  BY <1>4, <1>5 DEF LogNumbers
<1>7. acceptor[f].ballot_num =< b
  BY <1>4, <1>5, <1>6 DEF FollowerLog, AcceptorNumbers
<1>8. b =< acceptor[l].ballot_num
  <2>1. b =< acceptor[l].accept_num.num
    BY <1>4, <1>5 DEF LeaderLog
  <2>2. acceptor[l].accept_num.num =< acceptor[l].ballot_num
    BY DEF LeaderRound
  <2> QED
    BY <1>6, <2>1, <2>2 DEF AcceptorNumbers
<1>9. ASSUME NEW k \in DOMAIN log[l], k > m + x PROVE log[l][k].ballot.num >= b
  <2>1. log[l][m + x].ballot.num < log[l][k].ballot.num /\ log[l][k].ballot.num \in Nat
    BY <1>1, <1>4, <1>9 DEF LeaderLog, LogNumbers
  <2> QED
    BY <1>5, <1>6, <2>1
<1>10. FollowerLog(l, f)'
  BY <1>n, <1>1, <1>3, <1>6, <1>9 DEF FollowerLog
<1> QED
  BY <1>6, <1>7, <1>8, <1>10

\* What the end of a Sync changes at a follower.
SyncMoves(l, f) ==
    /\ \A s \in Server \ {f} : /\ acceptor'[s] = acceptor[s] /\ log'[s] = log[s]
                               /\ last_inserted'[s] = last_inserted[s]
                               /\ last_inserted_ballot'[s] = last_inserted_ballot[s]
    /\ acceptor'[f].promised_num = acceptor[f].promised_num
    /\ acceptor'[f].accept_num = acceptor[f].accept_num
    /\ acceptor'[f].accept_val = acceptor[f].accept_val
    /\ acceptor'[f].accepted = acceptor[f].accepted
    /\ Len(log[f]) =< Len(log'[f])
    /\ FollowerLog(l, f)' /\ last_inserted'[f] = Len(log'[f]) - 1
    /\ acceptor[f].ballot_num =< acceptor'[f].ballot_num
    /\ acceptor'[f].ballot_num =< acceptor[l].ballot_num
    /\ acceptor'[f].ballot_num \in Int

LEMMA SyncReplyMoves ==
    ASSUME StableLeaders, TypeOK, Replicated, NEW f \in Server, NEW l \in Server,
           Follows(f, l), NEW c, SyncSound(l, f, c), CallNumbers(c),
           NEW status, status = "OK" => c.stage = "reply", NEW rest,
           handleSyncReply(f, l, c, status, rest), LoggedOnce'
    PROVE  SyncMoves(l, f)
<1>p. /\ f # l /\ FollowerLog(l, f) /\ FollowerBallots(l, f) /\ LeaderRound(l) /\ LeaderLog(l)
      /\ AcceptorNumbers(l) /\ AcceptorNumbers(f) /\ LogNumbers(l) /\ LogNumbers(f)
      /\ last_inserted[f] = Len(log[f]) - 1
  BY PairParts DEF Link
<1>1. CASE UNCHANGED <<acceptor, storeVars>>
  <2>1. /\ acceptor' = acceptor /\ log' = log /\ last_inserted' = last_inserted
        /\ last_inserted_ballot' = last_inserted_ballot
    BY <1>1 DEF storeVars
  <2>2. FollowerLog(l, f)'
    BY <1>p, <2>1 DEF FollowerLog
  <2>3. acceptor[f].ballot_num =< acceptor[l].ballot_num
    BY <1>p DEF FollowerBallots
  <2> QED
    BY <1>p, <2>1, <2>2, <2>3 DEF AcceptorNumbers, LogNumbers, SyncMoves
<1>2. ASSUME status = "OK", c.res.ack,
             log' = [log EXCEPT ![f] = @ \o c.res.logs],
             acceptor' = [acceptor EXCEPT ![f].ballot_num = c.res.last_inserted_ballot.num],
             last_inserted' = [last_inserted EXCEPT ![f] = @ + Len(c.res.logs)],
             last_inserted_ballot' = [last_inserted_ballot EXCEPT
                                        ![f] = c.res.last_inserted_ballot]
      PROVE  SyncMoves(l, f)
  <2>m. PICK m : m = Len(log[f])
    OBVIOUS
  <2>L. PICK logs : logs = c.res.logs
    OBVIOUS
  <2>x. PICK x : x = Len(logs)
    OBVIOUS
  <2>g. PICK g : g = c.req.last_inserted + 1
    OBVIOUS
  <2>1. /\ logs # <<>> /\ g + x =< Len(log[l]) /\ g =< m
        /\ \A k \in DOMAIN logs : logs[k] = log[l][g + k]
        /\ c.res.last_inserted_ballot = log[l][g + x].ballot
        /\ logs \in Seq(WALEntry) /\ log[f] \in Seq(WALEntry)
    BY <1>2, <1>p, <2>g, <2>m, <2>L, <2>x DEF SyncSound, CallNumbers, LogNumbers
  <2>2. m \in Nat /\ x \in Nat /\ x # 0 /\ DOMAIN logs = 1 .. x /\ g \in Nat
    <3>1. g \in Nat
      BY <2>g DEF CallNumbers
    <3> QED
      BY <2>1, <2>m, <2>x, <3>1, EmptySeq
  <2>3. /\ \A s \in Server \ {f} : /\ acceptor'[s] = acceptor[s] /\ log'[s] = log[s]
                                   /\ last_inserted'[s] = last_inserted[s]
                                   /\ last_inserted_ballot'[s] = last_inserted_ballot[s]
        /\ acceptor'[f].promised_num = acceptor[f].promised_num
        /\ acceptor'[f].accept_num = acceptor[f].accept_num
        /\ acceptor'[f].accept_val = acceptor[f].accept_val
        /\ acceptor'[f].accepted = acceptor[f].accepted
        /\ acceptor'[f].ballot_num = c.res.last_inserted_ballot.num
        /\ log'[f] = log[f] \o logs
        /\ last_inserted'[f] = last_inserted[f] + x
    BY <1>2, <2>L, <2>x, Numbers DEF Acceptor
  <2>4. /\ Len(log'[f]) = m + x /\ DOMAIN log'[f] = 1 .. (m + x)
        /\ \A k \in 1 .. (m + x) : log'[f][k] = IF k =< m THEN log[f][k] ELSE logs[k - m]
    BY <2>1, <2>3, <2>m, <2>x, ConcatElements
  <2>n. g = m
    <3> SUFFICES ASSUME g < m PROVE FALSE
      BY <2>1, <2>2
    <3>1. g + 1 \in 1 .. m /\ m + 1 \in 1 .. (m + x) /\ g + 1 \in 1 .. (m + x) /\ 1 \in 1 .. x
          /\ ~(m + 1 =< m) /\ g + 1 =< m /\ (m + 1) - m = 1 /\ g + 1 # m + 1
      BY <2>2
    <3>2. log'[f][m + 1] = logs[1] /\ log'[f][g + 1] = log[f][g + 1]
      BY <2>4, <3>1
    <3>3. log[f][g + 1] = log[l][g + 1] /\ logs[1] = log[l][g + 1]
      BY <1>p, <2>1, <2>2, <2>m, <3>1 DEF FollowerLog, LogNumbers
    <3>4. m + 1 = g + 1
      BY <2>4, <3>1, <3>2, <3>3 DEF LoggedOnce, IsInjective
    <3> QED
      BY <3>1, <3>4
  <2>5. ASSUME NEW k \in 1 .. (m + x), k > m PROVE log'[f][k] = log[l][k]
    <3>1. k - m \in 1 .. x /\ m + (k - m) = k /\ ~(k =< m)
      BY <2>2, <2>5
    <3>2. log'[f][k] = logs[k - m]
      BY <2>4, <3>1
    <3>3. logs[k - m] = log[l][m + (k - m)]
      BY <2>1, <2>2, <2>n, <3>1
    <3> QED
      BY <3>1, <3>2, <3>3
  <2>6. \A k \in 1 .. (m + x) : k =< m => log'[f][k] = log[f][k]
    BY <2>4
  <2>7. log'[l] = log[l] /\ acceptor'[f].ballot_num = log[l][m + x].ballot.num
    BY <1>p, <2>1, <2>3, <2>n
  <2>8. /\ FollowerLog(l, f)'
        /\ acceptor[f].ballot_num =< acceptor'[f].ballot_num
        /\ acceptor'[f].ballot_num =< acceptor[l].ballot_num
        /\ acceptor'[f].ballot_num \in Int
    <3>1. /\ Len(log'[f]) = m + x /\ DOMAIN log'[f] = 1 .. (m + x) /\ m = Len(log[f])
      BY <2>4, <2>m
    <3> QED
      BY <1>p, <2>1, <2>2, <2>5, <2>6, <2>7, <2>n, <3>1, LogCatchesUp
  <2>9. last_inserted'[f] = Len(log'[f]) - 1 /\ Len(log[f]) =< Len(log'[f])
    BY <1>p, <2>2, <2>3, <2>4, <2>m
  <2> QED
    BY <2>3, <2>8, <2>9 DEF SyncMoves
<1> QED
  BY <1>1, <1>2 DEF handleSyncReply

\* handleSyncReply: unless it appends entries that it has, a follower appends what
\* follows them in the log of its leader, and goes to the ballot of the last entry,
\* which is not below its own.
LEMMA SyncReplyReplicates ==
    ASSUME StableLeaders, TypeOK, Replicated, LoggedOnce', NEW f \in Server, NEW l \in Server, NEW i,
           NEW status, NEW rest, CallOver(f, l, i, status, rest),
           HandleRPCResponse(f, l, i, status, rest), chan[f][l][i].type = "SYNC", acked' = acked
    PROVE  /\ Replicated' /\ PairChanges(l, f) /\ Follows(f, l) /\ SyncMoves(l, f)
           /\ \A s \in Server : acceptor[s].ballot_num =< acceptor'[s].ballot_num
<1>v. PICK v : v = chan[f][l][i]
  OBVIOUS
<1>1. i \in DOMAIN chan[f][l] /\ v.type = "SYNC" /\ Follows(f, l) /\ v.stage # "expired"
  BY <1>v, CallsByRole DEF CallOver
<1>p. /\ f # l /\ Leads(l) /\ ~Leads(f)
      /\ Link(l, f) /\ LeaderRound(l) /\ LeaderLog(l)
      /\ AcceptorNumbers(l) /\ AcceptorNumbers(f) /\ LogNumbers(l) /\ LogNumbers(f)
      /\ QueueNumbers(f, l)
      /\ last_inserted[f] = Len(log[f]) - 1
      /\ \A j \in DOMAIN chan[l][f] : chan[l][f][j].type # "SYNC"
      /\ \A j \in DOMAIN chan[f][l] : chan[f][l][j].type = "SYNC"
  BY <1>1, PairParts
<1>q. /\ FollowerLog(l, f) /\ FollowerBallots(l, f) /\ CallsSound(l, f) /\ SyncsSound(l, f)
  BY <1>p DEF Link
<1>2. SyncSound(l, f, v) /\ CallNumbers(v)
  BY <1>v, <1>1, <1>p, <1>q DEF SyncsSound, QueueNumbers
<1>4. handleSyncReply(f, l, v, status, rest) /\ inCalls' = inCalls /\ replies' = replies
  BY <1>v, <1>1 DEF HandleRPCResponse, rpcVars
<1>5. /\ round' = round /\ in_sync' = [in_sync EXCEPT ![f] = FALSE]
      /\ chan' = [chan EXCEPT ![f][l] = rest]
  BY <1>4 DEF handleSyncReply
<1>6. /\ chan'[f][l] = rest
      /\ \A s, t \in Server : <<s, t>> # <<f, l>> => chan'[s][t] = chan[s][t]
      /\ \A s \in Server \ {f} : in_sync'[s] = in_sync[s]
  BY <1>5, Numbers
<1>7. PICK c : /\ c.type = "SYNC" /\ c.stage = "expired" /\ c.req = v.req
               /\ Thinned(rest, chan[f][l], i, c)
  <2>1. chan[f][l] \in Seq(OutCall)
    BY <1>p DEF QueueNumbers
  <2>2. \E c : /\ c.type = chan[f][l][i].type /\ c.req = chan[f][l][i].req
               /\ c.stage = "expired" /\ Thinned(rest, chan[f][l], i, c)
    BY <2>1, EndedThins
  <2> QED
    BY <1>v, <1>1, <2>2
<1>8. SyncMoves(l, f)
  <2>1. status = "OK" => v.stage = "reply"
    BY <1>v DEF CallOver
  <2> QED
    BY <1>1, <1>2, <1>4, <2>1, SyncReplyMoves
<1>9. /\ acceptor'[l] = acceptor[l] /\ log'[l] = log[l] /\ last_inserted'[l] = last_inserted[l]
      /\ acceptor'[f].promised_num = acceptor[f].promised_num
      /\ acceptor'[f].accept_num = acceptor[f].accept_num
      /\ acceptor'[f].accept_val = acceptor[f].accept_val
      /\ acceptor[f].ballot_num =< acceptor'[f].ballot_num
      /\ acceptor'[f].ballot_num =< acceptor[l].ballot_num
      /\ acceptor'[f].ballot_num \in Int
  BY <1>8, <1>p DEF SyncMoves
<1>h. /\ \A m, len : HasBelow(l, m, len) <=> HasBelow(l, m, len)'
      /\ \A x, y : IsProposal(l, x, y) => IsProposal(l, x, y)'
  BY <1>9 DEF HasBelow, IsProposal
<1>10. FollowerBallots(l, f)'
  <2>1. acceptor[f].promised_num.num =< acceptor'[f].ballot_num
    BY <1>9, <1>p, <1>q DEF FollowerBallots, AcceptorNumbers
  <2> QED
    BY <1>9, <1>h, <1>q, <2>1 DEF FollowerBallots, IsLocal
<1>11. CallsSound(l, f)'
  <2>1. chan'[l][f] = chan[l][f]
    BY <1>6, <1>p
  <2>2. ASSUME NEW d, CallSound(l, f, d) PROVE CallSound(l, f, d)'
    BY <1>9, <1>h, <2>2 DEF CallSound, IsLocal
  <2> QED
    BY <1>q, <2>1, <2>2 DEF CallsSound, InOrder
<1>12. SyncsSound(l, f)'
  <2>1. /\ log'[l] = log[l] /\ Len(log[f]) =< Len(log'[f]) /\ Len(log[f]) \in Nat
        /\ Len(log'[f]) \in Nat
    <3>1. TypeOK => Len(log[f]) \in Nat
      BY Numbers DEF LogNumbers
    <3> QED
      BY <1>8, <1>9, <1>p DEF SyncMoves, LogNumbers
  <2>2. ASSUME NEW d, CallNumbers(d), SyncSound(l, f, d) PROVE SyncSound(l, f, d)'
    BY <2>1, <2>2 DEF SyncSound, CallNumbers
  <2>3. SyncSound(l, f, c)'
    BY <1>2, <1>7, <2>1 DEF SyncSound, CallNumbers
  <2>4. \A k \in DOMAIN chan[f][l] \ {i} : \A d : d = chan[f][l][k] => SyncSound(l, f, d)'
    BY <1>p, <1>q, <2>2 DEF SyncsSound, QueueNumbers
  <2> QED
    BY <1>1, <1>6, <1>7, <1>q, <2>3, <2>4, SyncsThin
<1>13. PairChanges(l, f)
  <2>1. \A s \in Server : AskedLess(s)
    BY <1>4 DEF AskedLess, SaidYes
  <2>2. \A s \in Server \ {f} : ServerKept(s)
    BY <1>6, <1>8 DEF SyncMoves, ServerKept
  <2>3. chan'[l][f] = chan[l][f]
    BY <1>6, <1>p
  <2>4. \A j \in DOMAIN chan'[f][l] : chan'[f][l][j].type = "SYNC"
    BY <1>6, <1>7, <1>p DEF Thinned
  <2> QED
    BY <1>5, <1>6, <1>8, <1>p, <2>1, <2>2, <2>3, <2>4 DEF PairChanges, SyncMoves
<1>14. LeaderRound(l)'
  BY <1>5, <1>13, <1>p, LeaderKept DEF PairChanges
<1>15. Replicated'
  <2>1. Link(l, f)'
    BY <1>8, <1>10, <1>11, <1>12 DEF Link, SyncMoves
  <2> QED
    BY <1>1, <1>13, <1>14, <2>1, PairStep
<1>16. ASSUME NEW s \in Server PROVE acceptor[s].ballot_num =< acceptor'[s].ballot_num
  <2>1. acceptor[s].ballot_num \in Nat
    BY Numbers DEF AcceptorNumbers
  <2> QED
    BY <1>8, <1>9, <2>1 DEF SyncMoves
<1> QED
  BY <1>1, <1>8, <1>13, <1>15, <1>16

-----------------------------------------------------------------------------
(* The other steps *)

\* A step that changes no server, and gives calls to the right leaders only.
LEMMA ServersKept ==
    ASSUME StableLeaders, Replicated, UNCHANGED <<acceptor, round, storeVars, in_sync, chan>>,
           \A s \in Server, tid \in Tid :
               <<s, tid>> \in inCalls' \/ SaidYes(s, tid)' =>
                   \/ <<s, tid>> \in inCalls \/ SaidYes(s, tid)
                   \/ Leads(s) /\ IsLocal(s, tid)
    PROVE  Replicated'
<1>1. \A s \in Server : ServerKept(s)
  BY DEF ServerKept, storeVars
<1>2. round' = round /\ chan' = chan /\ in_sync' = in_sync
  OBVIOUS
<1>3. Roles'
  <2>1. \A s \in Server, tid \in Tid :
            <<s, tid>> \in inCalls' \/ SaidYes(s, tid)' => Leads(s) /\ IsLocal(s, tid)
    BY DEF Replicated, Roles
  <2>2. \A s \in Server :
            IF Leads(s) THEN ~in_sync'[s]
            ELSE ~round'[s].await_prepare_decision /\ ~round'[s].await_accept_decision
    BY <1>2 DEF Replicated, Roles
  <2>3. \A s, t \in Server : \A i \in DOMAIN chan'[s][t] :
            IF chan'[s][t][i].type = "SYNC" THEN Follows(s, t) ELSE Follows(t, s)
    BY <1>2 DEF Replicated, Roles
  <2> QED
    BY <2>1, <2>2, <2>3 DEF Roles, Follows, Leads, IsLocal
<1>4. \A s \in Server : last_inserted'[s] = Len(log'[s]) - 1 /\ Led(s)'
  BY <1>1 DEF ServerKept, Replicated, Led, Leads
<1>5. ASSUME NEW m \in Server, Leads(m)
      PROVE  LeaderRound(m)' /\ LeaderLog(m)' /\ \A g \in stubs(m) : Link(m, g)'
  <2>1. LeaderRound(m)' /\ LeaderLog(m)'
    BY <1>1, <1>2, <1>5, LeaderKept DEF Replicated
  <2>2. ASSUME NEW g \in stubs(m) PROVE Link(m, g)'
    <3>1. EndsKept(m, g) /\ Link(m, g)
      BY <1>1, <1>5, <2>2, ClusterIsOne DEF EndsKept, ServerKept, Replicated
    <3> QED
      BY <1>2, <3>1, LinkKept
  <2> QED
    BY <2>1, <2>2
<1> QED
  BY <1>3, <1>4, <1>5 DEF Replicated, Leads

\* The client sends a transfer to the leader of the cluster of its accounts.
LEMMA SentToLeader ==
    ASSUME IntraShard, TypeOK, NEW t \in to_send, sendTransaction(t),
           NEW s \in Server, NEW tid \in Tid, <<s, tid>> \in inCalls' \ inCalls
    PROVE  Leads(s) /\ IsLocal(s, tid)
<1>1. t \in Tid /\ set_no \in DOMAIN Sets
  BY SetsAssumption DEF TypeOK, ClientTypeOK
<1>2. SenderCluster(t) \in 1 .. NumClusters /\ ReceiverCluster(t) = SenderCluster(t)
  <2>1. Txn[t].sender \in ClientId
    BY <1>1, TxnAssumption DEF Transaction
  <2> QED
    BY <1>1, <2>1, ClusterOfClient DEF SenderCluster, IntraShard, cross_shard
<1>3. tid = t /\ s = Sets[set_no].leaders[SenderCluster(t)]
  BY <1>2 DEF sendTransaction
<1>4. getClusterIdFromServerId(s) = SenderCluster(t)
  BY <1>1, <1>2, <1>3, SetsAssumption
<1> QED
  BY <1>1, <1>3, <1>4 DEF Leads, IsLocal

BallotsGrow == \A s \in Server : acceptor'[s].ballot_num >= acceptor[s].ballot_num

LEMMA SameBallots ==
    ASSUME TypeOK, acceptor' = acceptor
    PROVE  BallotsGrow
<1>1. \A s \in Server : acceptor[s].ballot_num \in Nat
  BY Numbers DEF AcceptorNumbers
<1> QED
  BY <1>1 DEF BallotsGrow

\* runPaxos: ballot_num only changes by the increment of startRound.
LEMMA RunPaxosReplicates ==
    ASSUME StableLeaders, IntraShard, AtomicityInv, RoundsLogged, Replicated,
           NEW l \in Server, NEW tid \in Tid, runPaxos(l, tid), acked' = acked
    PROVE  Replicated' /\ BallotsGrow
<1>t. TypeOK /\ RoundsStarted
  BY DEF AtomicityInv
<1>n. /\ acceptor \in [Server -> Acceptor]
      /\ \A s \in Server : acceptor[s].ballot_num \in Nat
  BY <1>t, Numbers DEF AcceptorNumbers
<1>1. CASE startRound(l, tid)
  <2>1. \E b : acceptor' = [acceptor EXCEPT ![l].ballot_num = acceptor[l].ballot_num + 1,
                                            ![l].promised = TRUE, ![l].promised_num = b]
    BY <1>1 DEF startRound
  <2>2. /\ acceptor'[l].ballot_num = acceptor[l].ballot_num + 1
        /\ \A s \in Server \ {l} : acceptor'[s] = acceptor[s]
    BY <1>n, <2>1 DEF Acceptor
  <2>3. BallotsGrow
    BY <1>n, <2>2 DEF BallotsGrow
  <2> QED
    BY <1>1, <1>t, <2>3, StartRoundReplicates
<1>2. CASE proposeTransaction(l, tid)
  <2>1. \A s \in Server : acceptor'[s].ballot_num = acceptor[s].ballot_num
    BY <1>2, <1>n DEF proposeTransaction, Acceptor
  <2>2. BallotsGrow
    BY <1>n, <2>1 DEF BallotsGrow
  <2> QED
    BY <1>2, <1>t, <2>2, ProposeReplicates
<1>3. CASE chooseTransaction(l, tid)
  <2>1. \A s \in Server : acceptor'[s].ballot_num = acceptor[s].ballot_num
    BY <1>3, <1>n DEF chooseTransaction, Acceptor
  <2>2. BallotsGrow
    BY <1>n, <2>1 DEF BallotsGrow
  <2> QED
    BY <1>3, <1>t, <2>2, ChooseReplicates
<1>4. CASE rejectTransaction(l, tid) \/ prepareFailed(l, tid) \/ acceptFailed(l, tid)
  <2>1. acceptor' = acceptor
    BY <1>4 DEF rejectTransaction, prepareFailed, acceptFailed
  <2> QED
    BY <1>4, <1>t, <2>1, FailedReplicates, SameBallots
<1> QED
  BY <1>1, <1>2, <1>3, <1>4 DEF runPaxos

\* The calls of a peer: only a promise changes ballot_num, to a larger one.
LEMMA InCallReplicates ==
    ASSUME StableLeaders, IntraShard, AtomicityInv, Replicated, LoggedOnce',
           NEW s \in Server, NEW t \in Server, NEW i,
           \/ processPrepareCall(t, s, i) \/ processAcceptCall(t, s, i)
           \/ processCommitCall(t, s, i) \/ processSyncCall(t, s, i),
           acked' = acked
    PROVE  Replicated' /\ BallotsGrow
<1>t. TypeOK
  BY DEF AtomicityInv
<1>n. /\ acceptor \in [Server -> Acceptor]
      /\ \A x \in Server : acceptor[x].ballot_num \in Nat
  BY <1>t, Numbers DEF AcceptorNumbers
<1>1. CASE processPrepareCall(t, s, i)
  <2>1. i \in DOMAIN chan[t][s] /\ chan[t][s][i].req.ballot.num \in Nat
    <3>1. i \in DOMAIN chan[t][s]
      BY <1>1 DEF processPrepareCall, Arrives
    <3> QED
      BY <1>t, <3>1, Numbers DEF QueueNumbers, CallNumbers
  <2>2. \E a, b : acceptor' = [acceptor EXCEPT
             ![s].promised = a, ![s].promised_num = b,
             ![s].ballot_num = IF Promises(s, chan[t][s][i].req)
                               THEN chan[t][s][i].req.ballot.num ELSE acceptor[s].ballot_num]
    BY <1>1 DEF processPrepareCall
  <2>3. /\ acceptor'[s].ballot_num = IF Promises(s, chan[t][s][i].req)
                                     THEN chan[t][s][i].req.ballot.num ELSE acceptor[s].ballot_num
        /\ \A x \in Server \ {s} : acceptor'[x] = acceptor[x]
    BY <1>n, <2>2 DEF Acceptor
  <2>4. acceptor'[s].ballot_num >= acceptor[s].ballot_num
    <3>1. CASE Promises(s, chan[t][s][i].req)
      BY <1>n, <2>1, <2>3, <3>1 DEF Promises, IsNewer
    <3>2. CASE ~Promises(s, chan[t][s][i].req)
      BY <1>n, <2>3, <3>2
    <3> QED
      BY <3>1, <3>2
  <2>5. BallotsGrow
    BY <1>n, <2>3, <2>4 DEF BallotsGrow
  <2> QED
    BY <1>1, <1>t, <2>5, PrepareCallReplicates
<1>2. CASE processAcceptCall(t, s, i)
  <2>1. \A x \in Server : acceptor'[x].ballot_num = acceptor[x].ballot_num
    <3>1. CASE acceptor' = acceptor
      BY <3>1
    <3>2. CASE \E b, v : acceptor' = [acceptor EXCEPT ![s].accepted = TRUE, ![s].accept_num = b,
                                                      ![s].accept_val = v]
      <4>1. acceptor \in [Server -> Acceptor]
        BY <1>n
      <4>2. /\ acceptor'[s].ballot_num = acceptor[s].ballot_num
            /\ \A x \in Server \ {s} : acceptor'[x] = acceptor[x]
        BY <3>2, <4>1 DEF Acceptor
      <4> QED
        BY <4>2
    <3> QED
      BY <1>2, <3>1, <3>2 DEF processAcceptCall
  <2>2. BallotsGrow
    BY <1>n, <2>1 DEF BallotsGrow
  <2> QED
    BY <1>2, <2>2, AcceptCallReplicates
<1>3. CASE processCommitCall(t, s, i)
  <2>1. \A x \in Server : acceptor'[x].ballot_num = acceptor[x].ballot_num
    <3>1. CASE acceptor' = acceptor
      BY <3>1
    <3>2. CASE acceptor' = [acceptor EXCEPT ![s].promised = FALSE, ![s].accepted = FALSE]
      <4>1. acceptor \in [Server -> Acceptor]
        BY <1>n
      <4>2. /\ acceptor'[s].ballot_num = acceptor[s].ballot_num
            /\ \A x \in Server \ {s} : acceptor'[x] = acceptor[x]
        BY <3>2, <4>1 DEF Acceptor
      <4> QED
        BY <4>2
    <3> QED
      BY <1>3, <3>1, <3>2 DEF processCommitCall
  <2>2. BallotsGrow
    BY <1>n, <2>1 DEF BallotsGrow
  <2> QED
    BY <1>3, <2>2, CommitCallReplicates
<1>4. CASE processSyncCall(t, s, i)
  <2>1. acceptor' = acceptor
    BY <1>4 DEF processSyncCall
  <2> QED
    BY <1>4, <1>t, <2>1, SyncCallReplicates, SameBallots
<1> QED
  BY <1>1, <1>2, <1>3, <1>4

\* The end of a call that a server made.
LEMMA OutCallReplicates ==
    ASSUME StableLeaders, AtomicityInv, Replicated, LoggedOnce',
           NEW s \in Server, NEW t \in Server, NEW i,
           ReplyArrives(s, t, i) \/ Expire(s, t, i) \/ Unavailable(s, t, i), acked' = acked
    PROVE  Replicated' /\ BallotsGrow
<1>t. TypeOK
  BY DEF AtomicityInv
<1>1. PICK status, rest : CallOver(s, t, i, status, rest)
                          /\ HandleRPCResponse(s, t, i, status, rest)
  BY EndsOfCalls
<1>2. CASE chan[s][t][i].type = "SYNC"
  <2>1. /\ Replicated'
        /\ \A x \in Server : acceptor[x].ballot_num =< acceptor'[x].ballot_num
    BY <1>t, <1>1, <1>2, SyncReplyReplicates
  <2> QED
    BY <2>1 DEF BallotsGrow
<1>3. CASE chan[s][t][i].type # "SYNC"
  BY <1>t, <1>1, <1>3, EndedCallReplicates, SameBallots
<1> QED
  BY <1>2, <1>3

-----------------------------------------------------------------------------
(* The theorems *)

LEMMA InitReplicates == Init => Replicated
<1> SUFFICES ASSUME Init PROVE Replicated
  OBVIOUS
<1>1. /\ inCalls = {} /\ \A s \in Server, tid \in Tid : ~SaidYes(s, tid)
      /\ \A s \in Server :
            /\ acceptor[s].ballot_num = 0 /\ acceptor[s].promised_num.num = 0
            /\ acceptor[s].accept_num.num = 0
            /\ ~round[s].await_prepare_decision /\ ~round[s].await_accept_decision
            /\ log[s] = <<>> /\ last_inserted[s] = -1 /\ ~in_sync[s]
            /\ \A t \in Server : chan[s][t] = <<>>
  BY DEF Init, RpcInit, ServerInit, ClientInit, SaidYes, NoBallot
<1>2. Len(<<>>) = 0 /\ DOMAIN <<>> = {}
  OBVIOUS
<1>3. Roles
  BY <1>1, <1>2 DEF Roles
<1>4. ASSUME NEW l \in Server
      PROVE  LeaderRound(l) /\ LeaderLog(l) /\ \A f \in stubs(l) : Link(l, f)
  <2>1. LeaderRound(l)
    BY <1>1 DEF LeaderRound
  <2>2. LeaderLog(l)
    BY <1>1, <1>2 DEF LeaderLog
  <2>3. ASSUME NEW f \in stubs(l) PROVE Link(l, f)
    <3>0. f \in Server
      BY <2>3, ClusterIsOne
    <3>1. FollowerLog(l, f)
      BY <1>1, <1>2, <3>0 DEF FollowerLog
    <3>2. FollowerBallots(l, f)
      BY <1>1, <1>2, <3>0 DEF FollowerBallots
    <3>3. CallsSound(l, f) /\ SyncsSound(l, f)
      BY <1>1, <1>2, <3>0 DEF CallsSound, SyncsSound
    <3> QED
      BY <3>1, <3>2, <3>3 DEF Link
  <2> QED
    BY <2>1, <2>2, <2>3
<1>5. \A s \in Server : last_inserted[s] = Len(log[s]) - 1 /\ Led(s)
  BY <1>1, <1>2 DEF Led
<1> QED
  BY <1>3, <1>4, <1>5 DEF Replicated

\* An entry that is in a log twice stays there.
LEMMA RepeatsStay == AtomicityInv /\ [Next]_vars /\ LoggedOnce' => LoggedOnce
<1> SUFFICES ASSUME AtomicityInv, [Next]_vars, LoggedOnce' PROVE LoggedOnce
  OBVIOUS
<1>1. CASE log' = log
  BY <1>1 DEF LoggedOnce
<1>2. CASE OneLogGrows
  <2>1. ASSUME NEW s \in Server
        PROVE  \A i \in DOMAIN log[s] : i \in DOMAIN log'[s] /\ log'[s][i] = log[s][i]
    BY <1>2 DEF OneLogGrows
  <2> QED
    BY <2>1 DEF LoggedOnce, IsInjective
<1>3. CASE NextSet \/ MainThread \/ ConsumerThread \/ CoordinatorCrashes \/ UNCHANGED vars
  BY <1>1, <1>3 DEF NextSet, MainThread, IssueTransaction, DisconnectCall, ConsumerThread,
                    CoordinatorCrashes, vars, serverVars, storeVars
<1>4. ASSUME NEW s \in Server,
             HandleRPCs(s) \/ CallExpires(s) \/ CallRefused(s) \/ ServerCrashes(s)
      PROVE  OneLogGrows
  BY <1>4, ServerSeen DEF ClientSees
<1> QED
  BY <1>2, <1>3, <1>4 DEF Next

\* Every step of the system that repeats no entry keeps the invariant, and no ballot
\* number shrinks.
LEMMA NextReplicates ==
    ASSUME StableLeaders, IntraShard
    PROVE  AtomicityInv /\ RoundsLogged /\ Replicated /\ [Next]_vars /\ LoggedOnce'
               => Replicated' /\ BallotsGrow
<1> SUFFICES ASSUME AtomicityInv, RoundsLogged, Replicated, [Next]_vars, LoggedOnce'
             PROVE  Replicated' /\ BallotsGrow
  OBVIOUS
<1>t. TypeOK
  BY DEF AtomicityInv
<1>1. CASE NextSet \/ MainThread \/ ConsumerThread \/ CoordinatorCrashes \/ UNCHANGED vars
  <2>1. UNCHANGED <<acceptor, round, storeVars, in_sync, chan>>
    BY <1>1 DEF NextSet, MainThread, IssueTransaction, DisconnectCall, ConsumerThread,
                CoordinatorCrashes, vars, serverVars, storeVars
  <2>2. BallotsGrow
    BY <1>t, <2>1, SameBallots
  <2>3. CASE ConsumerThread
    <3>1. \A s \in Server : AskedLess(s)
      BY <2>3 DEF ConsumerThread, consumeReplies, consumePrepareReply, consumeTransferReply,
                  SaidYes, AskedLess
    <3> QED
      BY <1>t, <2>1, <2>2, <3>1, ServersKept DEF AskedLess
  <2>4. CASE NextSet \/ MainThread \/ CoordinatorCrashes \/ UNCHANGED vars
    <3>1. replies' = replies /\ acked' = acked
      BY <2>4 DEF NextSet, processNextSet, MainThread, IssueTransaction,
                  processTransactions, sendTransaction, DisconnectCall, updateDisconnected,
                  CoordinatorCrashes, clientCrash, vars, rpcVars, clientVars
    <3>2. inCalls' = inCalls \/ \E t \in to_send : sendTransaction(t)
      BY <2>4 DEF NextSet, processNextSet, MainThread, IssueTransaction,
                  processTransactions, DisconnectCall, updateDisconnected,
                  CoordinatorCrashes, clientCrash, vars, rpcVars
    <3>3. \A s \in Server, tid \in Tid :
             <<s, tid>> \in inCalls' => <<s, tid>> \in inCalls \/ (Leads(s) /\ IsLocal(s, tid))
      BY <1>t, <3>2, SentToLeader
    <3>4. \A s \in Server, tid \in Tid : SaidYes(s, tid)' => SaidYes(s, tid)
      BY <3>1 DEF SaidYes
    <3> QED
      BY <1>t, <2>1, <2>2, <3>3, <3>4, ServersKept
  <2> QED
    BY <1>1, <2>3, <2>4
<1>2. ASSUME NEW s \in Server,
             HandleRPCs(s) \/ CallExpires(s) \/ CallRefused(s) \/ ServerCrashes(s)
      PROVE  Replicated' /\ BallotsGrow
  <2>0. stubs(s) \subseteq Server /\ acked' = acked
    BY <1>2, ClusterIsOne
       DEF HandleRPCs, CallExpires, CallRefused, ServerCrashes, clientVars
  <2>1. ASSUME NEW tid \in Tid, runPaxos(s, tid) PROVE Replicated' /\ BallotsGrow
    BY <1>t, <2>0, <2>1, RunPaxosReplicates
  <2>2. ASSUME NEW t \in stubs(s), NEW i,
               ReplyArrives(s, t, i) \/ Unavailable(s, t, i) \/ Expire(s, t, i)
        PROVE  Replicated' /\ BallotsGrow
    BY <1>t, <2>0, <2>2, OutCallReplicates
  <2>3. ASSUME NEW t \in stubs(s), NEW i,
               \/ processPrepareCall(t, s, i) \/ processAcceptCall(t, s, i)
               \/ processCommitCall(t, s, i) \/ processSyncCall(t, s, i)
        PROVE  Replicated' /\ BallotsGrow
    BY <1>t, <2>0, <2>3, InCallReplicates
  <2>4. ASSUME NEW d \in decisions PROVE FALSE
    BY <1>t, <2>4, NoDecisions
  <2>5. CASE HandleRPCs(s)
    BY <2>1, <2>2, <2>3, <2>4, <2>5 DEF HandleRPCs
  <2>6. CASE CallExpires(s)
    BY <2>2, <2>6 DEF CallExpires
  <2>7. CASE ServerCrashes(s)
    <3>1. /\ UNCHANGED <<acceptor, round, storeVars, in_sync, chan>>
          /\ inCalls' = inCalls /\ replies' = replies
      BY <2>7 DEF ServerCrashes, Crash, rpcVars
    <3>2. \A x \in Server, tid \in Tid : SaidYes(x, tid)' => SaidYes(x, tid)
      BY <2>0, <3>1 DEF SaidYes
    <3> QED
      BY <1>t, <3>1, <3>2, ServersKept, SameBallots
  <2>8. CASE CallRefused(s)
    <3>1. PICK tid \in Tid : CallFails(s, tid)
      BY <2>8 DEF CallRefused
    <3> DEFINE n == [from |-> s, tid |-> tid, ok |-> FALSE, ack |-> FALSE]
    <3>2. /\ replies' = replies \cup {n} /\ n.ok = FALSE /\ inCalls' \subseteq inCalls
          /\ UNCHANGED <<acceptor, round, storeVars, in_sync, chan>>
      BY <3>1 DEF CallFails, serverVars
    <3> HIDE DEF n
    <3>3. \A t \in Server, u \in Tid : SaidYes(t, u)' => SaidYes(t, u)
      BY <2>0, <3>2 DEF SaidYes
    <3> QED
      BY <1>t, <3>2, <3>3, ServersKept, SameBallots
  <2> QED
    BY <1>2, <2>5, <2>6, <2>7, <2>8
<1> QED
  BY <1>1, <1>2 DEF Next

\* With one leader per cluster, and up to the moment a Commit or a Sync reply brings
\* a replica an entry it has, the replicas are at most the calls in flight behind it.
THEOREM ReplicationInvariance ==
    ASSUME StableLeaders, IntraShard
    PROVE  Spec => []ReplicationInv
<1>1. Init => ReplicationInv
  BY InitReplicates DEF ReplicationInv
<1>2. AtomicityInv /\ AnswerInv /\ ReplicationInv /\ [Next]_vars => ReplicationInv'
  BY NextReplicates, RepeatsStay DEF ReplicationInv, AnswerInv
<1> QED
  BY <1>1, <1>2, AnswersInvariance, PTL DEF Spec

\* The replicas of a shard hold beginnings of the log of their leader.
LEMMA ReplicaLogs ==
    ASSUME TypeOK, Replicated, NEW l \in Server, Leads(l), NEW s \in Replicas(l)
    PROVE  /\ s \in Server /\ Len(log[s]) =< Len(log[l])
           /\ \A k \in DOMAIN log[s] : log[s][k] = log[l][k]
<1>1. CASE s = l
  <2>1. Len(log[l]) \in Nat
    BY Numbers DEF LogNumbers
  <2> QED
    BY <1>1, <2>1
<1>2. CASE s \in stubs(l)
  BY <1>2, ClusterIsOne DEF Replicated, Link, FollowerLog
<1> QED
  BY <1>1, <1>2 DEF Replicas

\* Of two beginnings of the same sequence one is a beginning of the other.
LEMMA CommonPrefix ==
    ASSUME NEW S, NEW p \in Seq(S), NEW q \in Seq(S), Len(p) =< Len(q),
           \A k \in DOMAIN p : p[k] = q[k]
    PROVE  IsPrefix(p, q)
<1> DEFINE a == SubSeq(p, 1, Len(p))
           b == SubSeq(q, 1, Len(p))
<1>0. Len(p) \in Nat /\ Len(q) \in Nat /\ DOMAIN p = 1 .. Len(p)
  OBVIOUS
<1>1. a \in Seq(S) /\ Len(a) = Len(p) /\ \A k \in 1 .. Len(p) : a[k] = p[k]
  BY <1>0, SubSeqProperties
<1>2. b \in Seq(S) /\ Len(b) = Len(p) /\ \A k \in 1 .. Len(p) : b[k] = q[k]
  BY <1>0, SubSeqProperties
<1> HIDE DEF a, b
<1>3. a = b
  <2>1. \A k \in 1 .. Len(a) : a[k] = b[k]
    BY <1>0, <1>1, <1>2
  <2> QED
    BY <1>1, <1>2, <2>1, SeqEqual
<1> QED
  BY <1>3 DEF IsPrefix, a, b

\* All replicas of a shard agree on the order of its transfers: however many Commits
\* are lost, overtaken or late, and however many Syncs are under way, processCommitCall
\* and handleSyncReply put another entry where the leader has one only after a replica
\* has logged an entry twice.
THEOREM ReplicasAlwaysAgree ==
    ASSUME StableLeaders, IntraShard
    PROVE  Spec => []AgreeUnlessRepeated
<1>1. TypeOK /\ Replicated => ReplicasAgreeOnOrder
  <2> SUFFICES ASSUME TypeOK, Replicated, NEW s \in Server, NEW t \in stubs(s)
               PROVE  IsPrefix(log[s], log[t]) \/ IsPrefix(log[t], log[s])
    BY DEF ReplicasAgreeOnOrder
  <2>0. t \in Server /\ s \in stubs(t)
        /\ getClusterIdFromServerId(t) = getClusterIdFromServerId(s)
    BY ClusterIsOne
  <2>n. \A x \in Server : /\ log[x] \in Seq(WALEntry) /\ Len(log[x]) \in Nat
                          /\ DOMAIN log[x] = 1 .. Len(log[x])
    BY Numbers DEF LogNumbers
  <2>1. ASSUME NEW l \in Server, Leads(l), s \in Replicas(l), t \in Replicas(l)
        PROVE  IsPrefix(log[s], log[t]) \/ IsPrefix(log[t], log[s])
    <3>1. /\ \A k \in DOMAIN log[s] : log[s][k] = log[l][k]
          /\ \A k \in DOMAIN log[t] : log[t][k] = log[l][k]
      BY <2>1, ReplicaLogs
    <3>2. CASE Len(log[s]) =< Len(log[t])
      <4>1. \A k \in DOMAIN log[s] : log[s][k] = log[t][k]
        BY <2>0, <2>n, <3>1, <3>2
      <4> QED
        BY <2>0, <2>n, <3>2, <4>1, CommonPrefix
    <3>3. CASE Len(log[t]) =< Len(log[s])
      <4>1. \A k \in DOMAIN log[t] : log[t][k] = log[s][k]
        BY <2>0, <2>n, <3>1, <3>3
      <4> QED
        BY <2>0, <2>n, <3>3, <4>1, CommonPrefix
    <3> QED
      BY <2>0, <2>n, <3>2, <3>3
  <2>2. \A l \in Replicas(s) \cup Replicas(t) : l \in Server /\ s \in Replicas(l) /\ t \in Replicas(l)
    BY <2>0 DEF Replicas, stubs, getServersInCluster
  <2>3. CASE log[s] = <<>> /\ log[t] = <<>>
    <3>1. \A k \in DOMAIN log[s] : log[s][k] = log[t][k]
      BY <2>3
    <3> QED
      BY <2>0, <2>n, <2>3, <3>1, CommonPrefix
  <2>4. CASE ~(log[s] = <<>> /\ log[t] = <<>>)
    <3>1. PICK l \in Replicas(s) \cup Replicas(t) : Leads(l)
      BY <2>0, <2>4 DEF Replicated, Led
    <3> QED
      BY <2>1, <2>2, <3>1
  <2> QED
    BY <2>3, <2>4
<1>2. AtomicityInv /\ ReplicationInv => AgreeUnlessRepeated
  BY <1>1 DEF AtomicityInv, ReplicationInv, AgreeUnlessRepeated
<1> QED
  BY <1>2, ReplicationInvariance, AnswersInvariance, PTL

\* No server goes back to an earlier ballot but in a step that repeats an entry: the
\* numbers that handleSyncReply and handlePrepareReply copy from a peer, however old
\* the call, are otherwise not below their own.
THEOREM BallotsNeverRegress ==
    ASSUME StableLeaders, IntraShard
    PROVE  Spec => BallotsGrowUnlessRepeated
<1>1. AtomicityInv /\ AnswerInv /\ ReplicationInv /\ [Next]_vars
        => [LoggedOnce' =>
               \A s \in Server : acceptor'[s].ballot_num >= acceptor[s].ballot_num]_vars
  BY NextReplicates, RepeatsStay DEF ReplicationInv, AnswerInv, BallotsGrow
<1> QED
  BY <1>1, ReplicationInvariance, AnswersInvariance, PTL DEF Spec, BallotsGrowUnlessRepeated

=============================================================================
