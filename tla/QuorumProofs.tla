---------------------------- MODULE QuorumProofs ----------------------------
(***************************************************************************)
(* The votes of a round, for any number of servers and transfers.  First   *)
(* the quorums (StableLeader): with the same leader for a cluster in all   *)
(* sets, an acknowledged transfer is on a majority until a replica logs an *)
(* entry twice.  Then the polls (TpcSystem), of which nothing is assumed:  *)
(* a leader never waits for nothing, and nothing outlives its round.       *)
(***************************************************************************)
EXTENDS StableLeaderProofs, FiniteSetTheorems

-----------------------------------------------------------------------------
(* Sets of replicas *)

LEMMA ReplicasAreFinite ==
    ASSUME NEW l \in Server, NEW S \in SUBSET Replicas(l)
    PROVE  IsFiniteSet(S) /\ Cardinality(S) \in Nat
<1>1. IsFiniteSet(Server)
  <2>1. NumClusters * ClusterSize \in Int
    BY ShardingAssumption
  <2> QED
    BY <2>1, FS_Interval DEF Server
<1>2. S \subseteq Server
  BY ClusterIsOne DEF Replicas
<1> QED
  BY <1>1, <1>2, FS_Subset, FS_CardinalityType

\* A set of replicas with at least the same elements, with one more, or one fewer.
LEMMA CountReplicas ==
    ASSUME NEW l \in Server, NEW S \in SUBSET Replicas(l), NEW T \in SUBSET Replicas(l)
    PROVE  /\ Cardinality(S) \in Nat /\ Cardinality(T) \in Nat
           /\ S \subseteq T => Cardinality(S) =< Cardinality(T)
           /\ \A f \in T \ S : S \subseteq T => Cardinality(S) + 1 =< Cardinality(T)
           /\ \A f \in S : S \ {f} \subseteq T => Cardinality(S) =< Cardinality(T) + 1
<1>1. /\ IsFiniteSet(S) /\ Cardinality(S) \in Nat /\ IsFiniteSet(T) /\ Cardinality(T) \in Nat
  BY ReplicasAreFinite
<1>2. S \subseteq T => Cardinality(S) =< Cardinality(T)
  BY <1>1, FS_Subset
<1>3. ASSUME NEW f \in T \ S, S \subseteq T PROVE Cardinality(S) + 1 =< Cardinality(T)
  <2>1. Cardinality(S \cup {f}) = Cardinality(S) + 1
    BY <1>1, <1>3, FS_AddElement
  <2>2. Cardinality(S \cup {f}) =< Cardinality(T)
    BY <1>1, <1>3, FS_Subset
  <2> QED
    BY <2>1, <2>2
<1>4. ASSUME NEW f \in S, S \ {f} \subseteq T PROVE Cardinality(S) =< Cardinality(T) + 1
  <2>1. Cardinality(S \ {f}) = Cardinality(S) - 1
    BY <1>1, <1>4, FS_RemoveElement
  <2>2. Cardinality(S \ {f}) =< Cardinality(T)
    BY <1>1, <1>4, FS_Subset
  <2> QED
    BY <1>1, <2>1, <2>2
<1> QED
  BY <1>1, <1>2, <1>3, <1>4

\* A leader and all its followers.
LEMMA WholeCluster ==
    ASSUME NEW l \in Server
    PROVE  /\ Cardinality(Replicas(l)) = Cardinality(stubs(l)) + 1
           /\ Cardinality(stubs(l)) \in Nat
           /\ Replicas(l) = getServersInCluster(getClusterIdFromServerId(l))
<1>1. l \notin stubs(l) /\ Replicas(l) = stubs(l) \cup {l}
  BY DEF Replicas, stubs
<1>2. IsFiniteSet(stubs(l)) /\ Cardinality(stubs(l)) \in Nat
  BY <1>1, ReplicasAreFinite
<1>3. Replicas(l) = getServersInCluster(getClusterIdFromServerId(l))
  BY DEF Replicas, stubs, getServersInCluster
<1> QED
  BY <1>1, <1>2, <1>3, FS_AddElement

-----------------------------------------------------------------------------
(* Queues *)

\* The queue r is q after its i-th call was taken out or replaced: new is what it
\* became, if anything.
Becomes(r, q, i, new) ==
    /\ \A j \in DOMAIN r : r[j] \in new \/ \E k \in DOMAIN q \ {i} : r[j] = q[k]
    /\ \A k \in DOMAIN q \ {i} : \E j \in DOMAIN r : r[j] = q[k]
    /\ \A c \in new : \E j \in DOMAIN r : r[j] = c

LEMMA RemovedBecomes ==
    ASSUME NEW S, NEW q \in Seq(S), NEW i \in DOMAIN q
    PROVE  Becomes(RemoveAt(q, i), q, i, {})
<1> DEFINE r == RemoveAt(q, i)
           at(j) == IF j < i THEN j ELSE j + 1
           to(k) == IF k < i THEN k ELSE k - 1
<1>1. DOMAIN r = 1 .. (Len(q) - 1) /\ \A j \in DOMAIN r : r[j] = q[at(j)]
  BY RemoveAtElements
<1>2. DOMAIN q = 1 .. Len(q) /\ Len(q) \in Nat /\ i \in 1 .. Len(q)
  OBVIOUS
<1> HIDE DEF r
<1>3. \A j \in DOMAIN r : at(j) \in DOMAIN q \ {i}
  BY <1>1, <1>2
<1>4. \A k \in DOMAIN q \ {i} : to(k) \in DOMAIN r /\ at(to(k)) = k
  BY <1>1, <1>2
<1> HIDE DEF at, to
<1>5. Becomes(r, q, i, {})
  BY <1>1, <1>3, <1>4 DEF Becomes
<1> QED
  BY <1>5 DEF r

LEMMA ChangedBecomes ==
    ASSUME NEW S, NEW q \in Seq(S), NEW i \in DOMAIN q, NEW c
    PROVE  Becomes([q EXCEPT ![i] = c], q, i, {c})
<1> DEFINE r == [q EXCEPT ![i] = c]
<1>1. DOMAIN r = DOMAIN q /\ r[i] = c /\ \A j \in DOMAIN q \ {i} : r[j] = q[j]
  OBVIOUS
<1> HIDE DEF r
<1>2. Becomes(r, q, i, {c})
  BY <1>1 DEF Becomes
<1> QED
  BY <1>2 DEF r

\* A call that its caller waits for is answered, an expired one disappears.
LEMMA AnsweredBecomes ==
    ASSUME NEW s, NEW t, chan[s][t] \in Seq(OutCall), NEW i \in DOMAIN chan[s][t], NEW res
    PROVE  \E new : /\ Becomes(Answered(s, t, i, res), chan[s][t], i, new)
                    /\ \A c \in new : /\ c.type = chan[s][t][i].type /\ c.req = chan[s][t][i].req
                                      /\ c.stage = "reply" /\ c.res = res
<1> DEFINE q == chan[s][t]
           c == [q[i] EXCEPT !.stage = "reply", !.res = res]
<1>1. q[i] \in OutCall
  BY ElementOfSeq
<1>2. c.type = q[i].type /\ c.req = q[i].req /\ c.stage = "reply" /\ c.res = res
  BY <1>1 DEF OutCall
<1>3. [q EXCEPT ![i].stage = "reply", ![i].res = res] = [q EXCEPT ![i] = c]
  OBVIOUS
<1> HIDE DEF c
<1>4. CASE q[i].stage = "expired"
  <2>1. Becomes(Answered(s, t, i, res), q, i, {})
    BY <1>4, RemovedBecomes DEF Answered
  <2> QED
    BY <1>4, <2>1
<1>5. CASE q[i].stage # "expired"
  <2>1. Becomes(Answered(s, t, i, res), q, i, {c})
    BY <1>3, <1>5, ChangedBecomes DEF Answered
  <2> QED
    BY <1>2, <2>1
<1> QED
  BY <1>4, <1>5

\* A call that has ended is gone or expired.
LEMMA EndedBecomes ==
    ASSUME NEW s, NEW t, chan[s][t] \in Seq(OutCall), NEW i, NEW status, NEW rest,
           CallOver(s, t, i, status, rest)
    PROVE  \E new : /\ Becomes(rest, chan[s][t], i, new)
                    /\ \A c \in new : /\ c.stage = "expired" /\ c.req = chan[s][t][i].req
                                      /\ c.type = chan[s][t][i].type
<1> DEFINE q == chan[s][t]
           c == [q[i] EXCEPT !.stage = "expired"]
<1>1. i \in DOMAIN q /\ q \in Seq(OutCall)
  BY DEF CallOver
<1>2. q[i] \in OutCall
  BY <1>1, ElementOfSeq
<1>3. c.stage = "expired" /\ c.req = q[i].req /\ c.type = q[i].type
  BY <1>2 DEF OutCall
<1>4. CASE rest = RemoveAt(q, i)
  <2>1. Becomes(rest, q, i, {})
    BY <1>1, <1>4, RemovedBecomes
  <2> QED
    BY <2>1
<1>5. CASE rest = [q EXCEPT ![i].stage = "expired"]
  <2>1. rest = [q EXCEPT ![i] = c]
    BY <1>5
  <2> HIDE DEF c
  <2>2. Becomes(rest, q, i, {c})
    BY <1>1, <2>1, ChangedBecomes
  <2> QED
    BY <1>3, <2>2
<1> QED
  BY <1>4, <1>5 DEF CallOver

\* The call in question is one that its caller waits for.
Waits(c, type, n) == c.type = type /\ c.stage # "expired" /\ c.req.ballot.num = n

\* What is unanswered after a call was answered or has ended.
LEMMA UnansweredAfter ==
    ASSUME NEW l, NEW f, NEW i \in DOMAIN chan[l][f], NEW new,
           Becomes(chan'[l][f], chan[l][f], i, new), NEW n
    PROVE  /\ Unanswered(l, f, n) <=>
                 \/ Waits(chan[l][f][i], "ACCEPT", n)
                 \/ \E k \in DOMAIN chan[l][f] \ {i} : Waits(chan[l][f][k], "ACCEPT", n)
           /\ Unanswered(l, f, n)' <=>
                 \/ \E c \in new : Waits(c, "ACCEPT", n)
                 \/ \E k \in DOMAIN chan[l][f] \ {i} : Waits(chan[l][f][k], "ACCEPT", n)
<1>1. Unanswered(l, f, n) <=>
                 \/ Waits(chan[l][f][i], "ACCEPT", n)
                 \/ \E k \in DOMAIN chan[l][f] \ {i} : Waits(chan[l][f][k], "ACCEPT", n)
  BY DEF Unanswered, Waits, Live
<1>2. Unanswered(l, f, n)' <=> \E j \in DOMAIN chan'[l][f] : Waits(chan'[l][f][j], "ACCEPT", n)
  BY DEF Unanswered, Waits, Live
<1>3. ASSUME NEW j \in DOMAIN chan'[l][f], Waits(chan'[l][f][j], "ACCEPT", n)
      PROVE  \/ \E c \in new : Waits(c, "ACCEPT", n)
             \/ \E k \in DOMAIN chan[l][f] \ {i} : Waits(chan[l][f][k], "ACCEPT", n)
  BY <1>3 DEF Becomes
<1>4. ASSUME \/ \E c \in new : Waits(c, "ACCEPT", n)
             \/ \E k \in DOMAIN chan[l][f] \ {i} : Waits(chan[l][f][k], "ACCEPT", n)
      PROVE  \E j \in DOMAIN chan'[l][f] : Waits(chan'[l][f][j], "ACCEPT", n)
  BY <1>4 DEF Becomes
<1> QED
  BY <1>1, <1>2, <1>3, <1>4

\* The caller waits for both c and d, which say the same.
SameCall(c, d) ==
    /\ c.type = d.type /\ c.req = d.req
    /\ c.stage # "expired" /\ d.stage # "expired"

\* Every call that is waited for in q is waited for in r.
Keeps(q, r) ==
    \A k \in DOMAIN q : q[k].stage # "expired" => \E j \in DOMAIN r : SameCall(q[k], r[j])

\* An answer changes nothing about what its caller waits for.
LEMMA AnsweredKeeps ==
    ASSUME NEW s, NEW t, chan[s][t] \in Seq(OutCall), NEW i \in DOMAIN chan[s][t], NEW res,
           chan'[s][t] = Answered(s, t, i, res)
    PROVE  Keeps(chan[s][t], chan'[s][t]) /\ Keeps(chan'[s][t], chan[s][t])
<1>q. PICK q : q = chan[s][t]
  OBVIOUS
<1>r. PICK r : r = chan'[s][t]
  OBVIOUS
<1>c. PICK c : c = [q[i] EXCEPT !.stage = "reply", !.res = res]
  OBVIOUS
<1>1. q[i] \in OutCall /\ q \in Seq(OutCall) /\ i \in DOMAIN q
  BY <1>q, ElementOfSeq
<1>2. c.type = q[i].type /\ c.req = q[i].req /\ c.stage = "reply"
  BY <1>1, <1>c DEF OutCall
<1>3. CASE q[i].stage = "expired"
  <2>1. Becomes(RemoveAt(q, i), q, i, {}) /\ r = RemoveAt(q, i)
    BY <1>1, <1>3, <1>q, <1>r, RemovedBecomes DEF Answered
  <2>2. Becomes(r, q, i, {})
    BY <2>1, Zenon
  <2>3. /\ \A k \in DOMAIN q \ {i} : \E j \in DOMAIN r : r[j] = q[k]
        /\ \A j \in DOMAIN r : \E k \in DOMAIN q : r[j] = q[k]
    BY <2>2 DEF Becomes
  <2>4. Keeps(q, r)
    <3>1. \A k \in DOMAIN q : q[k].stage # "expired" => k \in DOMAIN q \ {i}
      BY <1>3
    <3> QED
      BY <2>3, <3>1 DEF Keeps, SameCall
  <2>5. Keeps(r, q)
    BY <2>3 DEF Keeps, SameCall
  <2> QED
    BY <1>q, <1>r, <2>4, <2>5
<1>4. CASE q[i].stage # "expired"
  <2>1. [q EXCEPT ![i].stage = "reply", ![i].res = res] = [q EXCEPT ![i] = c]
    BY <1>c
  <2>2. r = [q EXCEPT ![i] = c]
    BY <1>4, <1>q, <1>r, <2>1 DEF Answered
  <2>3. DOMAIN r = DOMAIN q /\ \A j \in DOMAIN q : SameCall(q[j], r[j]) \/ q[j] = r[j]
    BY <1>1, <1>2, <1>4, <2>2 DEF SameCall
  <2> QED
    BY <1>q, <1>r, <2>3 DEF Keeps, SameCall
<1> QED
  BY <1>3, <1>4

LEMMA AnsweredStays ==
    ASSUME NEW s, NEW t, chan[s][t] \in Seq(OutCall), NEW i \in DOMAIN chan[s][t], NEW res,
           chan'[s][t] = Answered(s, t, i, res)
    PROVE  \A n : Unanswered(s, t, n)' <=> Unanswered(s, t, n)
  BY AnsweredKeeps DEF Keeps, SameCall, Unanswered, Live

-----------------------------------------------------------------------------
(* What one step may change *)

\* A step that changes nothing the quorums of m depend on.
ClusterKept(m) ==
    /\ \A x \in Replicas(m) : ServerKept(x)
    /\ round'[m] = round[m]
    /\ \A f \in stubs(m) : chan'[m][f] = chan[m][f]

LEMMA QuorumKept ==
    ASSUME NEW m \in Server, ClusterKept(m)
    PROVE  QuorumOf(m) => QuorumOf(m)'
<1>0. m \in Replicas(m) /\ \A f \in stubs(m) : f \in Replicas(m)
  BY DEF Replicas
<1>1. /\ acceptor'[m] = acceptor[m] /\ log'[m] = log[m] /\ round'[m] = round[m]
      /\ \A x \in Replicas(m) : acceptor'[x] = acceptor[x] /\ log'[x] = log[x]
      /\ \A f \in stubs(m) : chan'[m][f] = chan[m][f]
  BY <1>0 DEF ClusterKept, ServerKept
<1>2. \A f \in stubs(m) : \A n : Unanswered(m, f, n)' <=> Unanswered(m, f, n)
  BY <1>1 DEF Unanswered, Live
<1>3. \A n : Voters(m, n)' = Voters(m, n)
  <2>1. ASSUME NEW x \in Replicas(m), NEW n PROVE Voted(m, x, n)' <=> Voted(m, x, n)
    BY <1>1, <1>2 DEF Voted, Replicas
  <2> QED
    BY <2>1 DEF Voters
<1>4. \A k \in DOMAIN log[m] : EntryHolders(m, k)' = EntryHolders(m, k)
  <2>1. ASSUME NEW x \in Replicas(m), NEW k \in DOMAIN log[m]
        PROVE  Holds(m, x, k)' <=> Holds(m, x, k)
    BY <1>1 DEF Holds
  <2> QED
    BY <2>1 DEF EntryHolders
<1>5. ASSUME NEW f \in stubs(m), Standing(m, f) PROVE Standing(m, f)'
  BY <1>0, <1>1, <1>5 DEF Standing
<1> QED
  BY <1>1, <1>3, <1>4, <1>5 DEF QuorumOf

\* No leader but l has l or one of its followers in its cluster.
LEMMA OtherLeaders ==
    ASSUME StableLeaders, NEW l \in Server, Leads(l), NEW m \in Server, Leads(m), m # l
    PROVE  \A x \in Replicas(m) : x \in Server /\ x # l /\ x \notin stubs(l)
<1>1. l \notin stubs(m)
  BY FollowersDoNotLead DEF Follows
<1>2. ASSUME NEW x \in stubs(m) PROVE x \in Server /\ x \notin stubs(l)
  <2>1. x \in Server /\ getClusterIdFromServerId(x) = getClusterIdFromServerId(m)
    BY <1>2, ClusterIsOne
  <2>2. x \in stubs(l) => getClusterIdFromServerId(x) = getClusterIdFromServerId(l)
    BY ClusterIsOne
  <2>3. getClusterIdFromServerId(l) # getClusterIdFromServerId(m)
    BY <1>1 DEF stubs, getServersInCluster
  <2> QED
    BY <2>1, <2>2, <2>3
<1>3. m \notin stubs(l)
  BY FollowersDoNotLead DEF Follows
<1> QED
  BY <1>1, <1>2, <1>3 DEF Replicas

\* The other clusters, in a step between l and a follower and in one of l alone.
LEMMA OthersKept ==
    ASSUME StableLeaders, NEW l \in Server, Leads(l),
           LeaderChanges(l) \/ \E f \in stubs(l) : PairChanges(l, f)
    PROVE  \A m \in Server \ {l} : Leads(m) => ClusterKept(m)
<1> SUFFICES ASSUME NEW m \in Server, m # l, Leads(m) PROVE ClusterKept(m)
  OBVIOUS
<1>0. /\ \A x \in Replicas(m) : x \in Server /\ x # l /\ x \notin stubs(l)
      /\ m \in Replicas(m) /\ \A f \in stubs(m) : f \in Replicas(m)
  BY OtherLeaders DEF Replicas
<1>1. CASE LeaderChanges(l)
  BY <1>0, <1>1 DEF LeaderChanges, ClusterKept
<1>2. ASSUME NEW f \in stubs(l), PairChanges(l, f) PROVE ClusterKept(m)
  <2>1. \A g \in stubs(m) : <<m, g>> \notin {<<l, f>>, <<f, l>>}
    BY <1>0, <1>2
  <2>2. \A x \in Replicas(m) : x \in Server \ {f}
    BY <1>0, <1>2
  <2>3. \A x \in Replicas(m) : ServerKept(x)
    BY <1>2, <2>2 DEF PairChanges
  <2>4. round'[m] = round[m] /\ \A g \in stubs(m) : chan'[m][g] = chan[m][g]
    BY <1>0, <1>2, <2>1 DEF PairChanges
  <2> QED
    BY <2>3, <2>4 DEF ClusterKept
<1> QED
  BY <1>1, <1>2

\* A step that keeps the quorum of its leader keeps all.
LEMMA QuorumStep ==
    ASSUME StableLeaders, Quorate, NEW l \in Server, Leads(l),
           LeaderChanges(l) \/ \E f \in stubs(l) : PairChanges(l, f), QuorumOf(l)'
    PROVE  Quorate'
<1>1. ASSUME NEW m \in Server, Leads(m), m # l PROVE QuorumOf(m)'
  BY <1>1, OthersKept, QuorumKept DEF Quorate
<1> QED
  BY <1>1 DEF Quorate, Leads

-----------------------------------------------------------------------------
(* Quorums: the followers *)

\* A step between l and f: either f votes as before, or its vote is counted now.
LEMMA PairQuorum ==
    ASSUME StableLeaders, TypeOK, Quorate, NEW l \in Server, NEW f \in Server,
           Follows(f, l), PairChanges(l, f),
           round'[l].await_accept_decision =>
              /\ round[l].await_accept_decision
              /\ \A n : n = acceptor[l].ballot_num =>
                    \/ /\ round'[l].accept_successes = round[l].accept_successes
                       /\ Voted(l, f, n) => Voted(l, f, n)'
                    \/ /\ round'[l].accept_successes = round[l].accept_successes + 1
                       /\ ~Voted(l, f, n) /\ Voted(l, f, n)',
           \A k \in DOMAIN log[l] : Holds(l, f, k) => Holds(l, f, k)',
           Standing(l, f)'
    PROVE  Quorate'
<1>n. PICK n : n = acceptor[l].ballot_num
  OBVIOUS
<1>0. /\ Leads(l) /\ f \in stubs(l) /\ f # l /\ QuorumOf(l)
      /\ \A x \in Replicas(l) : x \in Server
      /\ l \in Replicas(l) /\ \A x \in stubs(l) : x \in Replicas(l)
      /\ round[l].accept_successes \in Nat
  <2>1. round[l].accept_successes \in Nat
    BY Numbers DEF Round
  <2> QED
    BY <2>1, ClusterIsOne DEF Follows, Quorate, Replicas
<1>1. /\ acceptor'[l] = acceptor[l] /\ log'[l] = log[l]
      /\ \A x \in Replicas(l) \ {f} : acceptor'[x] = acceptor[x] /\ log'[x] = log[x]
      /\ \A x \in stubs(l) \ {f} : chan'[l][x] = chan[l][x]
  <2>1. \A x \in Replicas(l) \ {f} : ServerKept(x)
    BY <1>0 DEF PairChanges
  <2>2. \A x \in stubs(l) \ {f} : <<l, x>> \notin {<<l, f>>, <<f, l>>}
    BY <1>0
  <2>3. \A x \in stubs(l) \ {f} : chan'[l][x] = chan[l][x]
    BY <1>0, <2>2 DEF PairChanges
  <2> QED
    BY <1>0, <2>1, <2>3 DEF ServerKept
<1>2. \A x \in Replicas(l) \ {f} : Voted(l, x, n) <=> Voted(l, x, n)'
  <2>1. \A x \in stubs(l) \ {f} : Unanswered(l, x, n) <=> Unanswered(l, x, n)'
    BY <1>1 DEF Unanswered, Live
  <2> QED
    BY <1>1, <2>1 DEF Voted, Replicas
<1>3. \A k \in DOMAIN log[l] : \A x \in Replicas(l) : Holds(l, x, k) => Holds(l, x, k)'
  <2>1. \A k \in DOMAIN log[l] : \A x \in Replicas(l) \ {f} : Holds(l, x, k) => Holds(l, x, k)'
    BY <1>1 DEF Holds
  <2> QED
    BY <2>1
<1>4. ASSUME NEW k \in DOMAIN log'[l]
      PROVE  log'[l][k].ballot.num # 0 /\ Majority =< Cardinality(EntryHolders(l, k)')
  <2>1. /\ k \in DOMAIN log[l] /\ log'[l][k].ballot.num # 0
        /\ Majority =< Cardinality(EntryHolders(l, k))
    BY <1>0, <1>1, <1>4 DEF QuorumOf
  <2>2. /\ EntryHolders(l, k) \in SUBSET Replicas(l) /\ EntryHolders(l, k)' \in SUBSET Replicas(l)
        /\ EntryHolders(l, k) \subseteq EntryHolders(l, k)'
    BY <1>3, <2>1 DEF EntryHolders
  <2>3. /\ Cardinality(EntryHolders(l, k)) \in Nat /\ Cardinality(EntryHolders(l, k)') \in Nat
        /\ Cardinality(EntryHolders(l, k)) =< Cardinality(EntryHolders(l, k)')
    BY <2>2, CountReplicas
  <2> QED
    BY <2>1, <2>3, ServerAssumption
<1>5. ASSUME round'[l].await_accept_decision
      PROVE  round'[l].accept_successes =< Cardinality(Voters(l, n)')
  <2>1. round[l].accept_successes =< Cardinality(Voters(l, n))
    BY <1>0, <1>5, <1>n DEF QuorumOf
  <2>2. Voters(l, n) \in SUBSET Replicas(l) /\ Voters(l, n)' \in SUBSET Replicas(l)
    BY DEF Voters
  <2>3. CASE /\ round'[l].accept_successes = round[l].accept_successes
             /\ Voted(l, f, n) => Voted(l, f, n)'
    <3>1. Voters(l, n) \subseteq Voters(l, n)'
      BY <1>2, <2>3 DEF Voters
    <3>2. /\ Cardinality(Voters(l, n)) \in Nat /\ Cardinality(Voters(l, n)') \in Nat
          /\ Cardinality(Voters(l, n)) =< Cardinality(Voters(l, n)')
      BY <2>2, <3>1, CountReplicas
    <3> QED
      BY <1>0, <2>1, <2>3, <3>2
  <2>4. CASE /\ round'[l].accept_successes = round[l].accept_successes + 1
             /\ ~Voted(l, f, n) /\ Voted(l, f, n)'
    <3>1. Voters(l, n) \subseteq Voters(l, n)' /\ f \in Voters(l, n)' \ Voters(l, n)
      BY <1>0, <1>2, <2>4 DEF Voters
    <3>2. /\ Cardinality(Voters(l, n)) \in Nat /\ Cardinality(Voters(l, n)') \in Nat
          /\ Cardinality(Voters(l, n)) + 1 =< Cardinality(Voters(l, n)')
      BY <2>2, <3>1, CountReplicas
    <3> QED
      BY <1>0, <2>1, <2>4, <3>2
  <2> QED
    BY <1>5, <1>n, <2>3, <2>4
<1>6. ASSUME NEW x \in stubs(l) PROVE Standing(l, x)'
  <2>1. CASE x = f
    BY <2>1
  <2>2. CASE x # f
    <3>1. Standing(l, x) /\ x \in Replicas(l) \ {f}
      BY <1>0, <2>2 DEF QuorumOf
    <3> QED
      BY <1>1, <2>2, <3>1 DEF Standing
  <2> QED
    BY <2>1, <2>2
<1>7. QuorumOf(l)'
  <2>1. acceptor'[l].ballot_num = n
    BY <1>n, <1>1
  <2> QED
    BY <1>4, <1>5, <1>6, <2>1 DEF QuorumOf
<1> QED
  BY <1>0, <1>7, QuorumStep

\* The vote of f in ballot n.
VoteOf(f, n) == acceptor[f].accepted /\ acceptor[f].accept_num.num = n

\* A reply that gives l the vote of a follower in ballot n.
IsVote(c, n) ==
    c.type = "ACCEPT" /\ c.stage = "reply" /\ c.res.ack /\ c.req.ballot.num = n

\* A step that answers or ends a call of l to f.
LEMMA StandingAfter ==
    ASSUME NEW l, NEW f, NEW i \in DOMAIN chan[l][f], NEW new,
           Becomes(chan'[l][f], chan[l][f], i, new), Standing(l, f),
           acceptor'[l] = acceptor[l], log'[l] = log[l],
           round'[l].await_accept_decision => round[l].await_accept_decision,
           round[l].await_accept_decision =>
              \A n : n = acceptor[l].ballot_num =>
                 /\ VoteOf(f, n) => VoteOf(f, n)'
                 /\ \A c \in new : IsVote(c, n) => VoteOf(f, n)'
    PROVE  Standing(l, f)'
<1>n. PICK n : n = acceptor[l].ballot_num
  OBVIOUS
<1>1. ASSUME round[l].await_accept_decision, NEW j \in DOMAIN chan'[l][f],
             IsVote(chan'[l][f][j], n)
      PROVE  VoteOf(f, n)'
  <2>1. \A k \in DOMAIN chan[l][f] : IsVote(chan[l][f][k], n) => VoteOf(f, n)
    BY <1>n, <1>1 DEF Standing, IsVote, VoteOf
  <2>2. \/ \E c \in new : IsVote(c, n)
        \/ \E k \in DOMAIN chan[l][f] : IsVote(chan[l][f][k], n)
    BY <1>1 DEF Becomes
  <2> QED
    BY <1>n, <1>1, <2>1, <2>2
<1> QED
  BY <1>n, <1>1 DEF Standing, IsVote, VoteOf

\* What the actions of a pair rest on.
LEMMA VotingPair ==
    ASSUME StableLeaders, TypeOK, Replicated, Quorate, NEW l \in Server,
           NEW f \in Server, Follows(f, l)
    PROVE  /\ f # l /\ f \in stubs(l) /\ Leads(l) /\ Link(l, f) /\ LeaderRound(l) /\ LeaderLog(l)
           /\ Standing(l, f) /\ QuorumOf(l)
           /\ AcceptorNumbers(l) /\ AcceptorNumbers(f) /\ LogNumbers(l) /\ LogNumbers(f)
           /\ chan[l][f] \in Seq(OutCall)
           /\ last_inserted[l] = Len(log[l]) - 1 /\ last_inserted[f] = Len(log[f]) - 1
<1>1. QuorumOf(l) /\ f \in stubs(l)
  BY DEF Follows, Quorate
<1> QED
  BY <1>1, PairParts DEF QueueNumbers, QuorumOf

\* processPrepareCall: a promise takes no vote away.
LEMMA PrepareCallVotes ==
    ASSUME StableLeaders, TypeOK, Replicated, Quorate,
           NEW l \in Server, NEW f \in Server, NEW i, processPrepareCall(l, f, i), acked' = acked
    PROVE  Quorate'
<1>v. PICK v : v = chan[l][f][i]
  OBVIOUS
<1>r. PICK r : r = v.req
  OBVIOUS
<1>A. PICK ack : ack = Promises(f, r)
  OBVIOUS
<1>1. PairChanges(l, f) /\ Follows(f, l)
  BY PrepareCallReplicates
<1>p. /\ f # l /\ f \in stubs(l) /\ Leads(l) /\ Link(l, f) /\ LeaderRound(l) /\ LeaderLog(l)
      /\ Standing(l, f) /\ QuorumOf(l)
      /\ AcceptorNumbers(l) /\ AcceptorNumbers(f) /\ LogNumbers(l) /\ LogNumbers(f)
      /\ chan[l][f] \in Seq(OutCall)
      /\ last_inserted[l] = Len(log[l]) - 1 /\ last_inserted[f] = Len(log[f]) - 1
  BY <1>1, VotingPair
<1>2. /\ i \in DOMAIN chan[l][f] /\ v.type = "PREPARE"
      /\ log' = log /\ round' = round
  BY <1>v DEF processPrepareCall, Arrives, storeVars
<1>3. \E num : acceptor' = [acceptor EXCEPT ![f].promised = @ \/ ack,
                                           ![f].promised_num = IF ack THEN r.ballot ELSE @,
                                           ![f].ballot_num = num]
  BY <1>v, <1>r, <1>A, Zenon DEF processPrepareCall
<1>4. /\ acceptor'[f].accepted = acceptor[f].accepted
      /\ acceptor'[f].accept_num = acceptor[f].accept_num
      /\ acceptor'[f].promised_num = IF ack THEN r.ballot ELSE acceptor[f].promised_num
      /\ \A s \in Server \ {f} : acceptor'[s] = acceptor[s]
  BY <1>3, Numbers DEF Acceptor
<1>5. \E res, q : chan' = [chan EXCEPT ![l][f] = Answered(l, f, i, res), ![f][l] = q]
  BY DEF processPrepareCall
<1>6. PICK res : chan'[l][f] = Answered(l, f, i, res)
  BY <1>5, <1>p, Numbers
<1>7. PICK new : /\ Becomes(chan'[l][f], chan[l][f], i, new)
                 /\ \A c \in new : c.type = "PREPARE"
  BY <1>2, <1>6, <1>p, <1>v, AnsweredBecomes
<1>8. \A n : Unanswered(l, f, n)' <=> Unanswered(l, f, n)
  BY <1>2, <1>6, <1>p, AnsweredStays
<1>9. \A n : Voted(l, f, n) => Voted(l, f, n)'
  BY <1>4, <1>8, <1>p DEF Voted
<1>10. \A k \in DOMAIN log[l] : Holds(l, f, k) => Holds(l, f, k)'
  BY <1>2, <1>4 DEF Holds
<1>11. Standing(l, f)'
  <2>1. \A n : /\ VoteOf(f, n) => VoteOf(f, n)'
               /\ \A c \in new : ~IsVote(c, n)
    BY <1>4, <1>7 DEF VoteOf, IsVote
  <2>2. acceptor'[l] = acceptor[l] /\ log'[l] = log[l] /\ log'[f] = log[f]
        /\ round'[l] = round[l]
    BY <1>2, <1>4, <1>p
  <2> QED
    BY <1>2, <1>7, <1>p, <2>1, <2>2, StandingAfter
<1> QED
  BY <1>1, <1>2, <1>9, <1>10, <1>11, PairQuorum

\* processAcceptCall: a vote in the ballot of l stays one, and an entry that f had
\* accepted is in its log or is accepted again.
LEMMA AcceptCallVotes ==
    ASSUME StableLeaders, IntraShard, AtomicityInv, Replicated, Quorate,
           NEW l \in Server, NEW f \in Server, NEW i, processAcceptCall(l, f, i), acked' = acked
    PROVE  Quorate'
<1>t. TypeOK /\ chan \in [Server -> [Server -> Seq(SoundCall)]]
  BY DEF AtomicityInv
<1>v. PICK v : v = chan[l][f][i]
  OBVIOUS
<1>r. PICK r : r = v.req
  OBVIOUS
<1>b. PICK b : b = acceptor[l].ballot_num
  OBVIOUS
<1>A. PICK ack : ack = /\ ~i_am_disconnected[f]
                       /\ acceptor[f].promised
                       /\ acceptor[f].promised_num.num = r.ballot.num
  OBVIOUS
<1>R. PICK res : res = IF ack THEN Ack ELSE Nack
  OBVIOUS
<1>1. PairChanges(l, f) /\ Follows(f, l)
  BY AcceptCallReplicates
<1>p. /\ f # l /\ f \in stubs(l) /\ Leads(l) /\ Link(l, f) /\ LeaderRound(l) /\ LeaderLog(l)
      /\ Standing(l, f) /\ QuorumOf(l)
      /\ AcceptorNumbers(l) /\ AcceptorNumbers(f) /\ LogNumbers(l) /\ LogNumbers(f)
      /\ chan[l][f] \in Seq(OutCall)
      /\ last_inserted[l] = Len(log[l]) - 1 /\ last_inserted[f] = Len(log[f]) - 1
  BY <1>1, <1>t, VotingPair
<1>2. i \in DOMAIN chan[l][f] /\ v.type = "ACCEPT"
  BY <1>v DEF processAcceptCall, Arrives
<1>3. /\ r.r \in Tid /\ IsProposal(l, r.ballot, r.r) /\ BothHeld(f, r.r)
      /\ r.ballot.num \in Nat /\ r.ballot.num =< b
  <2>1. CallSound(l, f, v) /\ CallNumbers(v) /\ v.req.ballot.num =< acceptor[l].ballot_num
    BY <1>v, <1>t, <1>2, <1>p, QueuedCalls
  <2>2. v \in SoundCall
    BY <1>v, <1>t, <1>2, ArrivingCall
  <2>3. r.r \in Tid /\ IsProposal(l, r.ballot, r.r) /\ IsLocal(f, r.r)
    BY <1>r, <1>2, <2>1, <2>2 DEF CallSound, SoundCall
  <2> QED
    BY <1>r, <1>b, <2>1, <2>3, LocalIsHeld DEF CallNumbers
<1>4. /\ \/ ack /\ acceptor' = [acceptor EXCEPT ![f].accepted = TRUE,
                                                ![f].accept_num = r.ballot,
                                                ![f].accept_val = r.r]
         \/ ~ack /\ acceptor' = acceptor
      /\ chan' = [chan EXCEPT ![l][f] = Answered(l, f, i, res)]
  BY <1>v, <1>r, <1>A, <1>R, Zenon DEF processAcceptCall
<1>a. log' = log /\ round' = round
  BY <1>v, <1>r, <1>3 DEF processAcceptCall, storeVars
<1>5. /\ acceptor'[f].promised_num = acceptor[f].promised_num
      /\ ack => acceptor'[f].accept_num = r.ballot /\ acceptor'[f].accepted
      /\ ~ack => acceptor'[f] = acceptor[f]
      /\ \A s \in Server \ {f} : acceptor'[s] = acceptor[s]
  BY <1>4, <1>t, Numbers DEF Acceptor
<1>6. chan'[l][f] = Answered(l, f, i, res)
  BY <1>4, <1>t, Numbers
<1>7. PICK new : /\ Becomes(chan'[l][f], chan[l][f], i, new)
                 /\ \A c \in new : c.type = "ACCEPT" /\ c.req = r /\ c.res = res
  BY <1>2, <1>6, <1>p, <1>v, <1>r, AnsweredBecomes
<1>8. \A n : Unanswered(l, f, n)' <=> Unanswered(l, f, n)
  BY <1>2, <1>6, <1>p, AnsweredStays
<1>9. /\ acceptor[f].accept_num.num =< acceptor[f].promised_num.num
      /\ ack => acceptor[f].promised_num.num = r.ballot.num
      /\ b \in Nat
  <2>1. ack => acceptor[f].promised_num.num = r.ballot.num
    BY <1>A, Zenon
  <2> QED
    BY <1>b, <1>p, <2>1 DEF Link, FollowerBallots, AcceptorNumbers
<1>10. VoteOf(f, b) => VoteOf(f, b)'
  <2>1. CASE ack
    <3>1. acceptor[f].accept_num.num = b => r.ballot.num = b
      BY <1>3, <1>9, <1>p, <2>1 DEF AcceptorNumbers
    <3> QED
      BY <1>5, <2>1, <3>1 DEF VoteOf
  <2>2. CASE ~ack
    BY <1>5, <2>2 DEF VoteOf
  <2> QED
    BY <2>1, <2>2
<1>11. Voted(l, f, b) => Voted(l, f, b)'
  BY <1>8, <1>10, <1>p DEF Voted, VoteOf
<1>12. ASSUME NEW k \in DOMAIN log[l], Holds(l, f, k) PROVE Holds(l, f, k)'
  <2>1. CASE ack /\ ~(k =< Len(log[f]))
    <3>1. acceptor[f].accept_num = log[l][k].ballot
      BY <1>12, <2>1 DEF Holds
    <3>2. ~(log[l][k].ballot.num < acceptor[f].promised_num.num)
      BY <1>12, <1>p, <2>1 DEF Link, FollowerLog, FollowerBallots, AcceptorNumbers, LogNumbers
    <3>3. log[l][k].ballot.num = r.ballot.num
      BY <1>9, <1>p, <2>1, <3>1, <3>2 DEF AcceptorNumbers
    <3>4. log[l][k].ballot = r.ballot
      BY <1>3, <3>3 DEF IsProposal
    <3> QED
      BY <1>5, <1>a, <2>1, <3>4 DEF Holds
  <2>2. CASE k =< Len(log[f])
    BY <1>a, <2>2 DEF Holds
  <2>3. CASE ~ack
    BY <1>5, <1>12, <1>a, <2>3 DEF Holds
  <2> QED
    BY <2>1, <2>2, <2>3
<1>13. Standing(l, f)'
  <2>1. \A c \in new : IsVote(c, b) => VoteOf(f, b)'
    <3>1. ~ack => ~res.ack
      BY <1>R DEF Nack
    <3> QED
      BY <1>5, <1>7, <3>1 DEF VoteOf, IsVote
  <2>2. acceptor'[l] = acceptor[l] /\ log'[l] = log[l] /\ log'[f] = log[f]
        /\ round'[l] = round[l]
    BY <1>5, <1>a, <1>p
  <2> QED
    BY <1>2, <1>7, <1>10, <1>b, <1>p, <2>1, <2>2, StandingAfter
<1> QED
  BY <1>1, <1>t, <1>a, <1>b, <1>11, <1>12, <1>13, PairQuorum

\* processCommitCall: what f forgets as accepted it has in its log.  No Commit is for
\* the ballot in which l waits for acceptances.
LEMMA CommitCallVotes ==
    ASSUME StableLeaders, IntraShard, AtomicityInv, Replicated, Quorate, LoggedOnce',
           NEW l \in Server, NEW f \in Server, NEW i, processCommitCall(l, f, i), acked' = acked
    PROVE  Quorate'
<1>t. TypeOK /\ RoundsStarted /\ chan \in [Server -> [Server -> Seq(SoundCall)]]
  BY DEF AtomicityInv
<1>v. PICK v : v = chan[l][f][i]
  OBVIOUS
<1>n. PICK n : n = v.req.ballot.num
  OBVIOUS
<1>1. PairChanges(l, f) /\ Follows(f, l)
  BY CommitCallReplicates
<1>p. /\ f # l /\ f \in stubs(l) /\ Leads(l) /\ Link(l, f) /\ LeaderRound(l) /\ LeaderLog(l)
      /\ Standing(l, f) /\ QuorumOf(l)
      /\ AcceptorNumbers(l) /\ AcceptorNumbers(f) /\ LogNumbers(l) /\ LogNumbers(f)
      /\ chan[l][f] \in Seq(OutCall)
      /\ last_inserted[l] = Len(log[l]) - 1 /\ last_inserted[f] = Len(log[f]) - 1
  BY <1>1, <1>t, VotingPair
<1>2. /\ i \in DOMAIN chan[l][f] /\ v.type = "COMMIT" /\ round' = round
      /\ chan' = [chan EXCEPT ![l][f] = RemoveAt(@, i)]
  BY <1>v DEF processCommitCall, Arrives
<1>3. CallSound(l, f, v) /\ n \in Nat /\ n # 0
  <2>1. CallSound(l, f, v) /\ CallNumbers(v)
    BY <1>v, <1>t, <1>2, <1>p, QueuedCalls
  <2>2. v \in SoundCall
    BY <1>v, <1>t, <1>2, ArrivingCall
  <2> QED
    BY <1>n, <1>2, <2>1, <2>2 DEF CallNumbers, SoundCall
<1>4. Becomes(chan'[l][f], chan[l][f], i, {})
  <2>1. chan'[l][f] = RemoveAt(chan[l][f], i)
    BY <1>2, <1>t, Numbers
  <2> QED
    BY <1>2, <1>p, <2>1, RemovedBecomes
<1>5. \A m : Unanswered(l, f, m)' <=> Unanswered(l, f, m)
  <2>1. i \in DOMAIN chan[l][f] /\ \A m : ~Waits(chan[l][f][i], "ACCEPT", m)
    BY <1>2, <1>v DEF Waits
  <2>2. PICK none : none = {}
    OBVIOUS
  <2>3. Becomes(chan'[l][f], chan[l][f], i, none) /\ \A c \in none : FALSE
    BY <1>4, <2>2
  <2> QED
    BY <2>1, <2>3, UnansweredAfter
<1>6. acceptor'[l] = acceptor[l] /\ log'[l] = log[l] /\ round'[l] = round[l]
  BY <1>1, <1>2, <1>p DEF PairChanges, ServerKept
<1>7. CASE UNCHANGED <<acceptor, storeVars>>
  <2>0. acceptor'[f] = acceptor[f] /\ log'[f] = log[f]
    BY <1>7 DEF storeVars
  <2>1. \A m : Voted(l, f, m) => Voted(l, f, m)'
    BY <1>5, <1>p, <2>0 DEF Voted
  <2>2. \A k \in DOMAIN log[l] : Holds(l, f, k) => Holds(l, f, k)'
    BY <1>6, <2>0 DEF Holds
  <2>3. \A m : VoteOf(f, m) => VoteOf(f, m)'
    BY <2>0 DEF VoteOf
  <2>4. Standing(l, f)'
    BY <1>2, <1>4, <1>6, <1>p, <2>3, StandingAfter
  <2> QED
    BY <1>1, <1>t, <1>6, <2>1, <2>2, <2>4, PairQuorum
<1>8. ASSUME acceptor[f].promised_num.num = n, acceptor[f].accept_num.num = n,
             \/ BothHeld(f, acceptor[f].accept_val)
                /\ commitTransaction(f, acceptor[f].accept_val, acceptor[f].accept_num)
             \/ ~BothHeld(f, acceptor[f].accept_val),
             acceptor' = [acceptor EXCEPT ![f].promised = FALSE, ![f].accepted = FALSE]
      PROVE  Quorate'
  <2>e. PICK e : e = Entry(acceptor[f].accept_val, acceptor[f].accept_num, "COMMITTED")
    OBVIOUS
  <2>m. PICK m : m = Len(log[f])
    OBVIOUS
  <2>0. /\ \/ m + 1 \in DOMAIN log[l] /\ log[l][m + 1] = e
           \/ \E k \in DOMAIN log[f] : log[f][k] = e
        /\ e \in WALEntry /\ IsLocal(f, acceptor[f].accept_val)
    <3>1. log[l] \in Seq(WALEntry)
      BY <1>p DEF LogNumbers
    <3>2. v.req.ballot.num = n /\ v.type = "COMMIT" /\ CallSound(l, f, v) /\ n \in Nat /\ n # 0
      BY <1>n, <1>2, <1>3
    <3> QED
      BY <1>p, <1>8, <2>e, <2>m, <3>1, <3>2, CommitIsNext
  <2>2. acceptor[f].accept_val \in Tid /\ BothHeld(f, acceptor[f].accept_val)
    <3>1. acceptor[f].accept_val \in Tid
      BY <1>3, <1>8, <1>t DEF RoundsStarted
    <3> QED
      BY <2>0, <3>1, LocalIsHeld
  <2>4. log'[f] = Append(log[f], e)
    BY <1>8, <1>t, <2>2, <2>e, Numbers DEF commitTransaction
  <2>5. /\ m \in Nat /\ Len(log'[f]) = m + 1 /\ DOMAIN log'[f] = 1 .. (m + 1)
        /\ log'[f][m + 1] = e /\ DOMAIN log[f] = 1 .. m
        /\ \A k \in 1 .. m : log'[f][k] = log[f][k]
    <3>1. log[f] \in Seq(WALEntry)
      BY <1>p DEF LogNumbers
    <3> QED
      BY <2>0, <2>4, <2>m, <3>1, AppendProperties
  <2>1. m + 1 \in DOMAIN log[l] /\ log[l][m + 1] = e
    <3> SUFFICES ASSUME NEW k \in DOMAIN log[f], log[f][k] = e PROVE FALSE
      BY <2>0
    <3>1. log'[f][k] = log'[f][m + 1] /\ k \in DOMAIN log'[f] /\ m + 1 \in DOMAIN log'[f]
      BY <2>5
    <3>2. k = m + 1
      BY <3>1 DEF LoggedOnce, IsInjective
    <3> QED
      BY <2>5, <3>2
  <2>7. round[l].await_accept_decision => ~VoteOf(f, acceptor[l].ballot_num)
    <3> SUFFICES ASSUME round[l].await_accept_decision, VoteOf(f, acceptor[l].ballot_num)
                 PROVE  FALSE
      OBVIOUS
    <3>1. HasBelow(l, n, Len(log[l]))
      BY <1>8, <1>p DEF LeaderRound, VoteOf
    <3>2. log[l][m + 1].ballot.num = n
      BY <1>8, <2>1, <2>e DEF Entry
    <3>3. m + 1 =< Len(log[l]) /\ Len(log[l]) \in Nat
      BY <1>p, <2>1 DEF LogNumbers
    <3> QED
      BY <1>3, <2>1, <2>5, <3>1, <3>2, <3>3 DEF HasBelow
  <2>8. ASSUME NEW k \in DOMAIN log[l], Holds(l, f, k) PROVE k =< Len(log'[f])
    <3>1. CASE k =< Len(log[f])
      BY <1>p, <2>5, <2>m, <3>1 DEF LogNumbers
    <3>2. CASE acceptor[f].accept_num = log[l][k].ballot
      <4>q. PICK q : q = m + 1
        OBVIOUS
      <4>1. q \in DOMAIN log[l] /\ log[l][q].ballot = log[l][k].ballot
        BY <2>1, <2>e, <3>2, <4>q DEF Entry
      <4>2. DOMAIN log[l] = 1 .. Len(log[l]) /\ Len(log[l]) \in Nat /\ log[l][k].ballot.num \in Nat
        BY <1>p DEF LogNumbers
      <4>3. ~(k < q) /\ ~(q < k)
        BY <1>p, <4>1, <4>2 DEF LeaderLog
      <4>4. q \in Nat /\ k \in Nat
        BY <4>1, <4>2
      <4> QED
        BY <2>5, <4>3, <4>4, <4>q
    <3> QED
      BY <2>8, <3>1, <3>2 DEF Holds
  <2>9. \A k \in DOMAIN log[l] : Holds(l, f, k) => Holds(l, f, k)'
    BY <2>8 DEF Holds
  <2>10. Standing(l, f)'
    BY <1>2, <1>4, <1>6, <1>p, <2>7, StandingAfter
  <2>11. round[l].await_accept_decision => ~Voted(l, f, acceptor[l].ballot_num)
    BY <2>7 DEF Voted, VoteOf
  <2> QED
    BY <1>1, <1>t, <1>6, <2>9, <2>10, <2>11, PairQuorum
<1> QED
  BY <1>7, <1>8, <1>v, <1>n DEF processCommitCall

\* A step that leaves the votes of f as they are.
LEMMA VotesAlone ==
    ASSUME StableLeaders, TypeOK, Replicated, Quorate, NEW l \in Server,
           NEW f \in Server, Follows(f, l), PairChanges(l, f),
           round'[l] = round[l], chan'[l][f] = chan[l][f],
           acceptor'[f].accepted = acceptor[f].accepted,
           acceptor'[f].accept_num = acceptor[f].accept_num,
           Len(log[f]) =< Len(log'[f]), Len(log'[f]) \in Int
    PROVE  Quorate'
<1>p. /\ f # l /\ Standing(l, f) /\ LogNumbers(l) /\ LogNumbers(f)
      /\ acceptor'[l] = acceptor[l] /\ log'[l] = log[l]
  BY VotingPair DEF PairChanges, ServerKept
<1>1. \A n : Voted(l, f, n) => Voted(l, f, n)'
  <2>1. \A n : Unanswered(l, f, n)' <=> Unanswered(l, f, n)
    BY DEF Unanswered, Live
  <2> QED
    BY <2>1 DEF Voted
<1>l. \A k \in DOMAIN log[l] : k =< Len(log[f]) => k =< Len(log'[f])
  BY <1>p DEF LogNumbers
<1>2. \A k \in DOMAIN log[l] : Holds(l, f, k) => Holds(l, f, k)'
  BY <1>l, <1>p DEF Holds
<1>3. Standing(l, f)'
  BY <1>p DEF Standing
<1> QED
  BY <1>1, <1>2, <1>3, PairQuorum

\* processSyncCall changes a reply to a follower only.
LEMMA SyncCallVotes ==
    ASSUME StableLeaders, TypeOK, Replicated, Quorate,
           NEW f \in Server, NEW l \in Server, NEW i, processSyncCall(f, l, i), acked' = acked
    PROVE  Quorate'
<1>1. PairChanges(l, f) /\ Follows(f, l)
  BY SyncCallReplicates
<1>2. /\ acceptor' = acceptor /\ log' = log /\ round' = round
      /\ \E q : chan' = [chan EXCEPT ![f][l] = q]
  BY DEF processSyncCall, storeVars
<1>3. f # l /\ Len(log[f]) \in Nat
  BY <1>1, VotingPair DEF LogNumbers
<1>4. chan'[l][f] = chan[l][f]
  BY <1>2, <1>3, Numbers
<1> QED
  BY <1>1, <1>2, <1>3, <1>4, VotesAlone

\* handleSyncReply: the log of a follower grows, what it accepted stays.
LEMMA SyncReplyVotes ==
    ASSUME StableLeaders, TypeOK, Replicated, Quorate, LoggedOnce',
           NEW f \in Server, NEW l \in Server, NEW i, NEW status, NEW rest,
           CallOver(f, l, i, status, rest),
           HandleRPCResponse(f, l, i, status, rest), chan[f][l][i].type = "SYNC", acked' = acked
    PROVE  Quorate'
<1>1. PairChanges(l, f) /\ Follows(f, l) /\ SyncMoves(l, f)
  BY SyncReplyReplicates
<1>2. round' = round /\ chan' = [chan EXCEPT ![f][l] = rest]
  BY DEF HandleRPCResponse, handleSyncReply
<1>3. f # l /\ Len(log[f]) \in Nat
  BY <1>1, VotingPair DEF LogNumbers
<1>4. chan'[l][f] = chan[l][f]
  BY <1>2, <1>3, Numbers
<1>5. /\ acceptor'[f].accepted = acceptor[f].accepted
      /\ acceptor'[f].accept_num = acceptor[f].accept_num
      /\ Len(log[f]) =< Len(log'[f])
  BY <1>1 DEF SyncMoves
<1> QED
  BY <1>1, <1>2, <1>3, <1>4, <1>5, VotesAlone

\* The answers that the round of l counts when the call c ends.
CountsAccept(l, c) ==
    /\ round[l].await_accept_decision
    /\ c.req.ballot.num = acceptor[l].accept_num.num
    /\ c.req.ballot.server_id = l

CountsPrepare(l, c) ==
    /\ round[l].await_prepare_decision
    /\ c.req.ballot.num = acceptor[l].promised_num.num
    /\ c.req.ballot.server_id = l

\* A successful answer, and one more of them when it is counted.
Success(c, status) == status = "OK" /\ c.res.ack

Tally(old, new, one) == new = IF one THEN old + 1 ELSE old

\* What the end of a call of s does to its tallies: each answer is counted at most
\* once, for the kind of call that it answers.
LEMMA AnswerTallies ==
    ASSUME TypeOK, NEW s \in Server, NEW t \in Server, NEW i, NEW status, NEW rest,
           HandleRPCResponse(s, t, i, status, rest), NEW v, v = chan[s][t][i]
    PROVE  /\ round'[s].await_accept_decision = round[s].await_accept_decision
           /\ round'[s].await_prepare_decision => round[s].await_prepare_decision
           /\ round'[s].paxos_tid = round[s].paxos_tid
           /\ Tally(round[s].accept_successes, round'[s].accept_successes,
                    v.type = "ACCEPT" /\ CountsAccept(s, v) /\ Success(v, status))
           /\ Tally(round[s].accept_failures, round'[s].accept_failures,
                    v.type = "ACCEPT" /\ CountsAccept(s, v) /\ Refused(v, status))
           /\ Tally(round[s].prepare_successes, round'[s].prepare_successes,
                    v.type = "PREPARE" /\ CountsPrepare(s, v) /\ Success(v, status))
           /\ Tally(round[s].prepare_failures, round'[s].prepare_failures,
                    v.type = "PREPARE" /\ CountsPrepare(s, v) /\ Refused(v, status))
           /\ \A x \in Server \ {s} : round'[x] = round[x]
<1>t. round \in [Server -> Round]
  BY Numbers
<1>2. \/ v.type = "PREPARE" /\ handlePrepareReply(s, t, v, status, rest)
      \/ v.type = "ACCEPT" /\ handleAcceptReply(s, t, v, status, rest)
      \/ v.type \in {"COMMIT", "SYNC"} /\ round' = round
  BY DEF HandleRPCResponse, handleSyncReply
<1>4. CASE v.type = "PREPARE" /\ handlePrepareReply(s, t, v, status, rest)
  <2>x. PICK x : x = IF CountsPrepare(s, v) /\ Success(v, status)
                     THEN round[s].prepare_successes + 1 ELSE round[s].prepare_successes
    OBVIOUS
  <2>y. PICK y : y = IF CountsPrepare(s, v) /\ Refused(v, status)
                     THEN round[s].prepare_failures + 1 ELSE round[s].prepare_failures
    OBVIOUS
  <2>3. \E z : round' = [round EXCEPT ![s].prepare_successes = x, ![s].prepare_failures = y,
                                     ![s].await_prepare_decision = @ /\ z]
    BY <1>4, <2>x, <2>y DEF handlePrepareReply, CountsPrepare, Success
  <2>4. /\ round'[s].prepare_successes = x /\ round'[s].prepare_failures = y
        /\ round'[s].accept_successes = round[s].accept_successes
        /\ round'[s].accept_failures = round[s].accept_failures
        /\ round'[s].await_accept_decision = round[s].await_accept_decision
        /\ round'[s].await_prepare_decision => round[s].await_prepare_decision
        /\ round'[s].paxos_tid = round[s].paxos_tid
        /\ \A u \in Server \ {s} : round'[u] = round[u]
    BY <1>t, <2>3 DEF Round
  <2> QED
    BY <1>4, <2>4, <2>x, <2>y DEF Tally
<1>5. CASE v.type = "ACCEPT" /\ handleAcceptReply(s, t, v, status, rest)
  <2>x. PICK x : x = IF CountsAccept(s, v) /\ Success(v, status)
                     THEN round[s].accept_successes + 1 ELSE round[s].accept_successes
    OBVIOUS
  <2>y. PICK y : y = IF CountsAccept(s, v) /\ Refused(v, status)
                     THEN round[s].accept_failures + 1 ELSE round[s].accept_failures
    OBVIOUS
  <2>3. round' = [round EXCEPT ![s].accept_successes = x, ![s].accept_failures = y]
    BY <1>5, <2>x, <2>y DEF handleAcceptReply, CountsAccept, Success
  <2>4. /\ round'[s].accept_successes = x /\ round'[s].accept_failures = y
        /\ round'[s].prepare_successes = round[s].prepare_successes
        /\ round'[s].prepare_failures = round[s].prepare_failures
        /\ round'[s].await_accept_decision = round[s].await_accept_decision
        /\ round'[s].await_prepare_decision = round[s].await_prepare_decision
        /\ round'[s].paxos_tid = round[s].paxos_tid
        /\ \A u \in Server \ {s} : round'[u] = round[u]
    BY <1>t, <2>3 DEF Round
  <2> QED
    BY <1>5, <2>4, <2>x, <2>y DEF Tally
<1>6. CASE v.type \in {"COMMIT", "SYNC"} /\ round' = round
  BY <1>6 DEF Tally
<1> QED
  BY <1>2, <1>4, <1>5, <1>6

\* The end of a call of a leader leaves nothing else behind.
LEMMA EndedCallLeaves ==
    ASSUME StableLeaders, TypeOK, Replicated, NEW l \in Server, NEW f \in Server, NEW i,
           NEW status, NEW rest, CallOver(l, f, i, status, rest),
           HandleRPCResponse(l, f, i, status, rest), chan[l][f][i].type # "SYNC"
    PROVE  log' = log /\ chan'[l][f] = rest
<1>v. PICK v : v = chan[l][f][i]
  OBVIOUS
<1>1. i \in DOMAIN chan[l][f] /\ Follows(f, l)
  BY CallsByRole DEF CallOver
<1>2. \/ v.type = "PREPARE" /\ handlePrepareReply(l, f, v, status, rest)
      \/ v.type = "ACCEPT" /\ handleAcceptReply(l, f, v, status, rest)
      \/ /\ v.type = "COMMIT" /\ chan' = [chan EXCEPT ![l][f] = rest]
         /\ UNCHANGED <<acceptor, round, storeVars, in_sync>>
  BY <1>v DEF HandleRPCResponse
<1>3. log' = log
  <2>1. UNCHANGED storeVars
    BY <1>2 DEF handlePrepareReply, handleAcceptReply
  <2> QED
    BY <2>1 DEF storeVars
<1>4. CASE v.type = "PREPARE" /\ handlePrepareReply(l, f, v, status, rest)
  <2>1. CallSound(l, f, v) /\ CallNumbers(v)
    <3>1. Link(l, f)
      BY <1>1, PairParts
    <3> QED
      BY <1>1, <1>v, <3>1, QueuedCalls
  <2>2. chan' = [chan EXCEPT ![l][f] = rest]
    BY <1>1, <1>4, <2>1, PrepareReplyKeeps
  <2> QED
    BY <1>3, <2>2, Numbers
<1>5. CASE ~(v.type = "PREPARE" /\ handlePrepareReply(l, f, v, status, rest))
  <2>1. chan' = [chan EXCEPT ![l][f] = rest]
    BY <1>2, <1>5 DEF handleAcceptReply
  <2> QED
    BY <1>3, <2>1, Numbers
<1> QED
  BY <1>4, <1>5

\* A leader that waits for acceptances does so in its latest ballot.
LEMMA AwaitedBallot ==
    ASSUME NEW l, LeaderRound(l), AcceptorNumbers(l), round[l].await_accept_decision
    PROVE  acceptor[l].accept_num.num = acceptor[l].ballot_num
<1>1. CASE acceptor[l].ballot_num = 0
  BY <1>1 DEF LeaderRound, AcceptorNumbers
<1>2. CASE acceptor[l].ballot_num # 0
  BY <1>2 DEF LeaderRound
<1> QED
  BY <1>1, <1>2

\* Of two calls of l to f for the same ballot and of the same type one is enough.
LEMMA OneCallEach ==
    ASSUME NEW l, NEW f, CallsSound(l, f), QueueNumbers(l, f),
           NEW i \in DOMAIN chan[l][f], NEW k \in DOMAIN chan[l][f] \ {i}, NEW type, NEW n,
           Waits(chan[l][f][i], type, n), Waits(chan[l][f][k], type, n)
    PROVE  FALSE
<1>1. i < k \/ k < i
  BY DEF QueueNumbers
<1>2. InOrder(chan[l][f][i], chan[l][f][k]) \/ InOrder(chan[l][f][k], chan[l][f][i])
  BY <1>1 DEF CallsSound
<1> QED
  BY <1>2 DEF InOrder, Waits

\* handleAcceptReply: a vote that is counted was not counted before, and stands.
LEMMA EndedCallVotes ==
    ASSUME StableLeaders, TypeOK, Replicated, Quorate, NEW l \in Server, NEW f \in Server,
           NEW i, NEW status, NEW rest, CallOver(l, f, i, status, rest),
           HandleRPCResponse(l, f, i, status, rest), chan[l][f][i].type # "SYNC", acked' = acked
    PROVE  Quorate'
<1>v. PICK v : v = chan[l][f][i]
  OBVIOUS
<1>b. PICK b : b = acceptor[l].ballot_num
  OBVIOUS
<1>1. PairChanges(l, f) /\ Follows(f, l) /\ acceptor' = acceptor
  BY EndedCallReplicates
<1>p. /\ f # l /\ f \in stubs(l) /\ Leads(l) /\ Link(l, f) /\ LeaderRound(l) /\ LeaderLog(l)
      /\ Standing(l, f) /\ QuorumOf(l)
      /\ AcceptorNumbers(l) /\ AcceptorNumbers(f) /\ LogNumbers(l) /\ LogNumbers(f)
      /\ chan[l][f] \in Seq(OutCall)
  BY <1>1, VotingPair
<1>2. /\ i \in DOMAIN chan[l][f] /\ v.stage # "expired"
      /\ status = "OK" => v.stage = "reply"
  BY <1>v DEF CallOver
<1>3. /\ log' = log /\ chan'[l][f] = rest
      /\ round'[l].await_accept_decision = round[l].await_accept_decision
      /\ Tally(round[l].accept_successes, round'[l].accept_successes,
               v.type = "ACCEPT" /\ CountsAccept(l, v) /\ Success(v, status))
  BY <1>v, AnswerTallies, EndedCallLeaves
<1>4. PICK new : Becomes(rest, chan[l][f], i, new) /\ \A c \in new : c.stage = "expired"
  BY <1>p, EndedBecomes
<1>5. Becomes(chan'[l][f], chan[l][f], i, new)
  BY <1>3, <1>4
<1>6. \A n : \A c \in new : ~Waits(c, "ACCEPT", n) /\ ~IsVote(c, n)
  BY <1>4 DEF Waits, IsVote
<1>7. /\ Unanswered(l, f, b) <=>
            \/ Waits(v, "ACCEPT", b)
            \/ \E k \in DOMAIN chan[l][f] \ {i} : Waits(chan[l][f][k], "ACCEPT", b)
      /\ Unanswered(l, f, b)' <=>
            \E k \in DOMAIN chan[l][f] \ {i} : Waits(chan[l][f][k], "ACCEPT", b)
  BY <1>2, <1>5, <1>6, <1>v, UnansweredAfter
<1>8. Voted(l, f, b) => Voted(l, f, b)'
  BY <1>1, <1>7 DEF Voted
<1>9. \A k \in DOMAIN log[l] : Holds(l, f, k) => Holds(l, f, k)'
  BY <1>1, <1>3 DEF Holds
<1>10. Standing(l, f)'
  <2>1. \A n : VoteOf(f, n) => VoteOf(f, n)'
    BY <1>1 DEF VoteOf
  <2>2. /\ acceptor'[l] = acceptor[l] /\ log'[l] = log[l]
        /\ round'[l].await_accept_decision => round[l].await_accept_decision
    BY <1>1, <1>3
  <2> QED
    BY <1>2, <1>5, <1>6, <1>p, <2>1, <2>2, StandingAfter
<1>11. CASE v.type = "ACCEPT" /\ CountsAccept(l, v) /\ Success(v, status)
  <2>1. Waits(v, "ACCEPT", b) /\ IsVote(v, b) /\ round[l].await_accept_decision
    <3>1. acceptor[l].accept_num.num = b
      BY <1>11, <1>b, <1>p, AwaitedBallot DEF CountsAccept
    <3> QED
      BY <1>2, <1>11, <3>1 DEF Waits, IsVote, CountsAccept, Success
  <2>2. ~Voted(l, f, b)
    BY <1>7, <1>p, <2>1 DEF Voted
  <2>3. ~Unanswered(l, f, b)'
    <3>1. CallsSound(l, f) /\ QueueNumbers(l, f)
      BY <1>p, Numbers DEF Link
    <3> QED
      BY <1>2, <1>7, <1>v, <2>1, <3>1, OneCallEach
  <2>4. VoteOf(f, b)
    BY <1>2, <1>b, <1>p, <1>v, <2>1 DEF Standing, IsVote, VoteOf
  <2>5. Voted(l, f, b)'
    BY <1>1, <2>3, <2>4 DEF Voted, VoteOf
  <2>6. round'[l].accept_successes = round[l].accept_successes + 1
    BY <1>3, <1>11 DEF Tally
  <2> QED
    BY <1>1, <1>3, <1>9, <1>10, <1>b, <2>2, <2>5, <2>6, PairQuorum
<1>12. CASE ~(v.type = "ACCEPT" /\ CountsAccept(l, v) /\ Success(v, status))
  <2>1. round'[l].accept_successes = round[l].accept_successes
    BY <1>3, <1>12 DEF Tally
  <2> QED
    BY <1>1, <1>3, <1>8, <1>9, <1>10, <1>b, <2>1, PairQuorum
<1> QED
  BY <1>11, <1>12

-----------------------------------------------------------------------------
(* Quorums: the leader *)

\* What a step of the leader leaves alone.
LEMMA LeaderAlone ==
    ASSUME NEW l \in Server, LeaderChanges(l)
    PROVE  \A x \in stubs(l) :
               x \in Server /\ x # l /\ acceptor'[x] = acceptor[x] /\ log'[x] = log[x]
  BY ClusterIsOne DEF LeaderChanges, ServerKept

\* An entry of the leader keeps its holders when the leader moves on.
LEMMA EntryKept ==
    ASSUME StableLeaders, TypeOK, Quorate, NEW l \in Server, Leads(l), LeaderChanges(l),
           NEW k \in DOMAIN log[l], log'[l][k] = log[l][k], k =< Len(log'[l])
    PROVE  log'[l][k].ballot.num # 0 /\ Majority =< Cardinality(EntryHolders(l, k)')
<1>1. log[l][k].ballot.num # 0 /\ Majority =< Cardinality(EntryHolders(l, k))
  BY DEF Quorate, QuorumOf
<1>2. \A x \in Replicas(l) : Holds(l, x, k) => Holds(l, x, k)'
  <2>1. \A x \in stubs(l) : Holds(l, x, k) => Holds(l, x, k)'
    BY LeaderAlone DEF Holds
  <2>2. Holds(l, l, k)'
    BY DEF Holds
  <2> QED
    BY <2>1, <2>2 DEF Replicas
<1>3. /\ EntryHolders(l, k) \in SUBSET Replicas(l) /\ EntryHolders(l, k)' \in SUBSET Replicas(l)
      /\ EntryHolders(l, k) \subseteq EntryHolders(l, k)'
  BY <1>2 DEF EntryHolders
<1>4. /\ Cardinality(EntryHolders(l, k)) \in Nat /\ Cardinality(EntryHolders(l, k)') \in Nat
      /\ Cardinality(EntryHolders(l, k)) =< Cardinality(EntryHolders(l, k)')
  BY <1>3, CountReplicas
<1> QED
  BY <1>1, <1>4, ServerAssumption

\* A step after which l waits for no acceptance, and has chosen nothing new.
LEMMA RoundOver ==
    ASSUME StableLeaders, TypeOK, Quorate, NEW l \in Server, Leads(l), LeaderChanges(l),
           log'[l] = log[l], ~round'[l].await_accept_decision
    PROVE  Quorate'
<1>1. DOMAIN log[l] = 1 .. Len(log[l])
  BY Numbers DEF LogNumbers
<1>2. \A k \in DOMAIN log'[l] :
         log'[l][k].ballot.num # 0 /\ Majority =< Cardinality(EntryHolders(l, k)')
  BY <1>1, EntryKept
<1>3. ASSUME NEW f \in stubs(l) PROVE Standing(l, f)'
  BY DEF Standing
<1>4. QuorumOf(l)'
  BY <1>2, <1>3 DEF QuorumOf
<1> QED
  BY <1>4, QuorumStep

\* startRound and the rounds that fail.
LEMMA StartRoundVotes ==
    ASSUME StableLeaders, TypeOK, Replicated, Quorate, NEW l \in Server, NEW tid \in Tid,
           startRound(l, tid), acked' = acked
    PROVE  Quorate'
<1>1. LeaderChanges(l) /\ Leads(l)
  BY StartRoundReplicates
<1>2. /\ log' = log /\ ~round[l].await_accept_decision
      /\ \E x, y, z, w : round' = [round EXCEPT ![l].paxos_tid = x,
                                                ![l].await_prepare_decision = y,
                                                ![l].prepare_successes = z,
                                                ![l].prepare_failures = w]
  BY DEF startRound, storeVars
<1>3. round'[l].await_accept_decision = round[l].await_accept_decision
  BY <1>2, Numbers DEF Round
<1> QED
  BY <1>1, <1>2, <1>3, RoundOver

LEMMA FailedVotes ==
    ASSUME StableLeaders, TypeOK, Replicated, Quorate, NEW l \in Server, NEW tid \in Tid,
           rejectTransaction(l, tid) \/ prepareFailed(l, tid) \/ acceptFailed(l, tid),
           acked' = acked
    PROVE  Quorate'
<1>1. LeaderChanges(l) /\ Leads(l)
  BY FailedReplicates
<1>2. log' = log /\ EndRound(l)
  BY DEF rejectTransaction, prepareFailed, acceptFailed, storeVars
<1>3. ~round'[l].await_accept_decision
  BY <1>2, EndedRound
<1> QED
  BY <1>1, <1>2, <1>3, RoundOver

\* proposeTransaction: the leader votes first, no vote of the ballot is on its way.
LEMMA ProposeVotes ==
    ASSUME StableLeaders, IntraShard, TypeOK, RoundsLogged, Replicated, Quorate,
           NEW l \in Server, NEW tid \in Tid, proposeTransaction(l, tid), acked' = acked
    PROVE  Quorate'
<1>b. PICK b : b = acceptor[l].promised_num
  OBVIOUS
<1>c. PICK c : c = acceptCall(b, tid)
  OBVIOUS
<1>1. LeaderChanges(l) /\ Leads(l)
  BY ProposeReplicates
<1>2. /\ acceptor' = [acceptor EXCEPT ![l].accepted = TRUE, ![l].accept_num = b,
                                      ![l].accept_val = tid]
      /\ round' = [round EXCEPT ![l].await_prepare_decision = FALSE,
                                ![l].await_accept_decision = TRUE,
                                ![l].accept_successes = 1, ![l].accept_failures = 0]
  BY <1>b DEF proposeTransaction
<1>3. log' = log /\ SendAll(l, c) /\ round[l].await_prepare_decision
  BY <1>b, <1>c DEF proposeTransaction, storeVars, IntraShard, PrepareDecided
<1>4. /\ LeaderRound(l) /\ AcceptorNumbers(l) /\ LogNumbers(l)
      /\ acceptor[l].accept_num.num < acceptor[l].ballot_num /\ b.num = acceptor[l].ballot_num
  <2>1. LeaderRound(l) /\ AcceptorNumbers(l) /\ LogNumbers(l)
    BY <1>1, Numbers DEF Replicated
  <2>2. acceptor[l].accept_num.num < acceptor[l].ballot_num
    BY <1>3, <2>1 DEF LeaderRound
  <2> QED
    BY <1>b, <2>1, <2>2 DEF LeaderRound, AcceptorNumbers
<1>5. /\ acceptor'[l].accepted /\ acceptor'[l].accept_num = b
      /\ acceptor'[l].ballot_num = acceptor[l].ballot_num
      /\ round'[l].accept_successes = 1
  BY <1>2, Numbers DEF Acceptor, Round
<1>6. \A k \in DOMAIN log'[l] :
         log'[l][k].ballot.num # 0 /\ Majority =< Cardinality(EntryHolders(l, k)')
  BY <1>1, <1>3, <1>4, EntryKept DEF LogNumbers
<1>7. 1 =< Cardinality(Voters(l, acceptor[l].ballot_num)')
  <2>n. PICK n : n = acceptor[l].ballot_num
    OBVIOUS
  <2>1. l \in Voters(l, n)' /\ Voters(l, n)' \in SUBSET Replicas(l)
    BY <1>4, <1>5, <2>n DEF Voters, Voted, Replicas
  <2>2. Cardinality({}) = 0
    BY FS_EmptySet
  <2>3. Cardinality({}) + 1 =< Cardinality(Voters(l, n)')
    BY <2>1, CountReplicas
  <2> QED
    BY <1>5, <2>2, <2>3, <2>n
<1>8. ASSUME NEW f \in stubs(l) PROVE Standing(l, f)'
  <2>0. f \in Server /\ f # l /\ acceptor'[f] = acceptor[f] /\ log'[f] = log[f]
    BY <1>1, <1>8, LeaderAlone
  <2>1. Standing(l, f) /\ Link(l, f)
    BY <1>1, <1>8 DEF Quorate, QuorumOf, Replicated
  <2>2. c.stage = "request"
    BY <1>c DEF acceptCall, NewCall
  <2>3. chan'[l][f] = Append(chan[l][f], c) /\ chan[l][f] \in Seq(OutCall)
    BY <1>3, <1>8, <2>0, SentToAll, Numbers DEF QueueNumbers
  <2>4. \A j \in DOMAIN chan'[l][f] :
           chan'[l][f][j] = c \/ \E k \in DOMAIN chan[l][f] : chan'[l][f][j] = chan[l][f][k]
    <3>q. PICK q : q = chan[l][f]
      OBVIOUS
    <3>1. q \in Seq(OutCall) /\ chan'[l][f] = Append(q, c) /\ Len(q) \in Nat
      BY <2>3, <3>q
    <3>2. \A j \in 1 .. Len(q) : Append(q, c)[j] = q[j]
      BY <3>1
    <3>3. DOMAIN Append(q, c) = 1 .. (Len(q) + 1) /\ Append(q, c)[Len(q) + 1] = c
          /\ DOMAIN q = 1 .. Len(q)
      BY <3>1
    <3> QED
      BY <3>1, <3>2, <3>3, <3>q
  <2>5. ASSUME NEW k \in DOMAIN chan[l][f]
        PROVE  ~(/\ chan[l][f][k].type = "ACCEPT"
                 /\ chan[l][f][k].req.ballot.num = acceptor[l].ballot_num)
    <3>1. CallSound(l, f, chan[l][f][k])
      BY <2>0, <2>1, <2>5, QueuedCalls
    <3> QED
      BY <1>4, <3>1 DEF CallSound, IsProposal, AcceptorNumbers
  <2>6. \A j \in DOMAIN chan'[l][f] :
           ~(/\ chan'[l][f][j].type = "ACCEPT" /\ chan'[l][f][j].stage = "reply"
             /\ chan'[l][f][j].req.ballot.num = acceptor'[l].ballot_num)
    BY <1>5, <2>2, <2>4, <2>5
  <2> QED
    BY <2>6 DEF Standing
<1>9. QuorumOf(l)'
  BY <1>5, <1>6, <1>7, <1>8 DEF QuorumOf
<1> QED
  BY <1>1, <1>9, QuorumStep

\* chooseTransaction: the votes that were counted become the holders of the entry.
LEMMA ChooseVotes ==
    ASSUME StableLeaders, IntraShard, TypeOK, RoundsStarted, RoundsLogged, Replicated, Quorate,
           NEW l \in Server, NEW tid \in Tid, chooseTransaction(l, tid), acked' = acked
    PROVE  Quorate'
<1>b. PICK b : b = acceptor[l].accept_num
  OBVIOUS
<1>e. PICK e : e = Entry(tid, b, "COMMITTED")
  OBVIOUS
<1>m. PICK m : m = Len(log[l])
  OBVIOUS
<1>1. LeaderChanges(l) /\ Leads(l)
  BY ChooseReplicates
<1>p. /\ LeaderRound(l) /\ LeaderLog(l) /\ AcceptorNumbers(l) /\ LogNumbers(l) /\ QuorumOf(l)
      /\ \A f \in stubs(l) : Link(l, f) /\ Standing(l, f)
  BY <1>1, Numbers DEF Replicated, Quorate, QuorumOf
<1>2. /\ round[l].await_accept_decision /\ round[l].accept_successes >= Majority
      /\ EndRound(l) /\ log' = [log EXCEPT ![l] = Append(@, e)]
      /\ acceptor' = [acceptor EXCEPT ![l].promised = FALSE, ![l].accepted = FALSE]
  BY <1>b, <1>e DEF chooseTransaction, AcceptDecided, commitTransaction, IntraShard
<1>3. ~round'[l].await_accept_decision /\ b.num # 0 /\ b.num = acceptor[l].ballot_num
      /\ e.ballot = b /\ b.num \in Nat
  <2>1. acceptor[l].accept_num.num = acceptor[l].ballot_num
    BY <1>2, <1>p, AwaitedBallot
  <2>2. e.ballot = b
    BY <1>e DEF Entry
  <2> QED
    BY <1>2, <1>b, <1>p, <2>1, <2>2, EndedRound DEF RoundsStarted, AcceptorNumbers
<1>4. log'[l] = Append(log[l], e)
  BY <1>2, Numbers
<1>5. /\ m \in Nat /\ Len(log'[l]) = m + 1 /\ DOMAIN log'[l] = 1 .. (m + 1)
      /\ DOMAIN log[l] = 1 .. m
      /\ log'[l][m + 1] = e /\ \A k \in 1 .. m : log'[l][k] = log[l][k]
  <2>1. log[l] \in Seq(WALEntry) /\ Len(log[l]) \in Nat
    BY <1>p DEF LogNumbers
  <2>q. PICK q : q = log[l]
    OBVIOUS
  <2>2. /\ Len(Append(q, e)) = Len(q) + 1 /\ DOMAIN Append(q, e) = 1 .. (Len(q) + 1)
        /\ DOMAIN q = 1 .. Len(q) /\ Append(q, e)[Len(q) + 1] = e
        /\ \A k \in 1 .. Len(q) : Append(q, e)[k] = q[k]
    BY <2>1, <2>q
  <2> QED
    BY <1>4, <1>m, <2>1, <2>2, <2>q
<1>6. ASSUME NEW k \in 1 .. m
      PROVE  log'[l][k].ballot.num # 0 /\ Majority =< Cardinality(EntryHolders(l, k)')
  <2>1. k \in DOMAIN log[l] /\ log'[l][k] = log[l][k] /\ k =< Len(log'[l])
    BY <1>5, <1>6
  <2> QED
    BY <1>1, <2>1, EntryKept
<1>7. log'[l][m + 1].ballot.num # 0 /\ Majority =< Cardinality(EntryHolders(l, m + 1)')
  <2>n. PICK n : n = acceptor[l].ballot_num
    OBVIOUS
  <2>k. PICK k : k = m + 1
    OBVIOUS
  <2>1. /\ Majority =< round[l].accept_successes
        /\ round[l].accept_successes =< Cardinality(Voters(l, n))
    BY <1>2, <1>p, <2>n, ServerAssumption, Numbers DEF QuorumOf, Round
  <2>2. ASSUME NEW x \in Replicas(l), Voted(l, x, n) PROVE Holds(l, x, k)'
    <3>1. CASE x = l
      BY <1>5, <2>k, <3>1 DEF Holds
    <3>2. CASE x \in stubs(l)
      <4>1. acceptor[x].accepted /\ acceptor[x].accept_num.num = b.num
        BY <1>3, <2>2, <2>n DEF Voted
      <4>2. IsProposal(l, acceptor[x].accept_num, acceptor[x].accept_val)
        BY <1>3, <1>p, <3>2, <4>1 DEF Link, FollowerBallots
      <4>3. acceptor[x].accept_num = b
        BY <1>b, <4>1, <4>2 DEF IsProposal
      <4>4. acceptor'[x].accepted /\ acceptor'[x].accept_num = log'[l][k].ballot
        BY <1>1, <1>3, <1>5, <2>k, <3>2, <4>1, <4>3, LeaderAlone
      <4> QED
        BY <4>4 DEF Holds
    <3> QED
      BY <3>1, <3>2 DEF Replicas
  <2>3. /\ Voters(l, n) \in SUBSET Replicas(l) /\ EntryHolders(l, k)' \in SUBSET Replicas(l)
        /\ Voters(l, n) \subseteq EntryHolders(l, k)'
    BY <2>2 DEF Voters, EntryHolders
  <2>4. /\ Cardinality(Voters(l, n)) \in Nat /\ Cardinality(EntryHolders(l, k)') \in Nat
        /\ Cardinality(Voters(l, n)) =< Cardinality(EntryHolders(l, k)')
    BY <2>3, CountReplicas
  <2>5. round[l].accept_successes \in Nat
    BY Numbers DEF Round
  <2>6. Majority =< Cardinality(EntryHolders(l, k)')
    BY <2>1, <2>4, <2>5, ServerAssumption
  <2> QED
    BY <1>3, <1>5, <2>6, <2>k
<1>8. ASSUME NEW f \in stubs(l) PROVE Standing(l, f)'
  BY <1>3 DEF Standing
<1>9. ASSUME NEW k \in DOMAIN log'[l]
      PROVE  log'[l][k].ballot.num # 0 /\ Majority =< Cardinality(EntryHolders(l, k)')
  <2>1. k \in 1 .. m \/ k = m + 1
    BY <1>5
  <2> QED
    BY <1>6, <1>7, <2>1
<1>10. QuorumOf(l)'
  BY <1>3, <1>8, <1>9 DEF QuorumOf
<1> QED
  BY <1>1, <1>10, QuorumStep

-----------------------------------------------------------------------------
(* Quorums: all steps *)

\* A step that changes no server.
LEMMA NothingCounted ==
    ASSUME UNCHANGED <<acceptor, round, log, chan>>
    PROVE  Quorate => Quorate'
<1>1. \A l, f, n : Unanswered(l, f, n)' <=> Unanswered(l, f, n)
  BY DEF Unanswered, Live
<1>2. \A l, n : Voters(l, n)' = Voters(l, n)
  BY <1>1 DEF Voters, Voted
<1>3. \A l, k : EntryHolders(l, k)' = EntryHolders(l, k)
  BY DEF EntryHolders, Holds
<1>4. \A l, f : Standing(l, f)' <=> Standing(l, f)
  BY DEF Standing
<1>5. \A l : QuorumOf(l) => QuorumOf(l)'
  BY <1>2, <1>3, <1>4 DEF QuorumOf
<1> QED
  BY <1>5 DEF Quorate, Leads

\* The steps of HandleRPCs and the deadlines.
LEMMA RunPaxosVotes ==
    ASSUME StableLeaders, IntraShard, AtomicityInv, RoundsLogged, Replicated, Quorate,
           NEW l \in Server, NEW tid \in Tid, runPaxos(l, tid), acked' = acked
    PROVE  Quorate'
<1>t. TypeOK /\ RoundsStarted
  BY DEF AtomicityInv
<1>1. CASE startRound(l, tid)
  BY <1>1, <1>t, StartRoundVotes
<1>2. CASE proposeTransaction(l, tid)
  BY <1>2, <1>t, ProposeVotes
<1>3. CASE chooseTransaction(l, tid)
  BY <1>3, <1>t, ChooseVotes
<1>4. CASE rejectTransaction(l, tid) \/ prepareFailed(l, tid) \/ acceptFailed(l, tid)
  BY <1>4, <1>t, FailedVotes
<1> QED
  BY <1>1, <1>2, <1>3, <1>4 DEF runPaxos

LEMMA OutCallVotes ==
    ASSUME StableLeaders, TypeOK, Replicated, Quorate, LoggedOnce',
           NEW s \in Server, NEW t \in Server, NEW i,
           ReplyArrives(s, t, i) \/ Expire(s, t, i) \/ Unavailable(s, t, i), acked' = acked
    PROVE  Quorate'
<1>1. PICK status, rest : /\ CallOver(s, t, i, status, rest)
                          /\ HandleRPCResponse(s, t, i, status, rest)
  BY EndsOfCalls
<1>2. CASE chan[s][t][i].type = "SYNC"
  BY <1>1, <1>2, SyncReplyVotes
<1>3. CASE chan[s][t][i].type # "SYNC"
  BY <1>1, <1>3, EndedCallVotes
<1> QED
  BY <1>2, <1>3

LEMMA NextCounts ==
    ASSUME StableLeaders, IntraShard
    PROVE  AtomicityInv /\ RoundsLogged /\ Replicated /\ Quorate /\ [Next]_vars /\ LoggedOnce'
               => Quorate'
<1> SUFFICES ASSUME AtomicityInv, RoundsLogged, Replicated, Quorate, [Next]_vars, LoggedOnce'
             PROVE  Quorate'
  OBVIOUS
<1>t. TypeOK
  BY DEF AtomicityInv
<1>1. CASE NextSet \/ MainThread \/ ConsumerThread \/ CoordinatorCrashes \/ UNCHANGED vars
  <2>1. UNCHANGED <<acceptor, round, log, chan>>
    BY <1>1 DEF NextSet, MainThread, IssueTransaction, DisconnectCall, ConsumerThread,
                CoordinatorCrashes, vars, serverVars, storeVars
  <2> QED
    BY <2>1, NothingCounted
<1>2. ASSUME NEW s \in Server,
             HandleRPCs(s) \/ CallExpires(s) \/ CallRefused(s) \/ ServerCrashes(s)
      PROVE  Quorate'
  <2>0. stubs(s) \subseteq Server /\ acked' = acked
    BY <1>2, ClusterIsOne
       DEF HandleRPCs, CallExpires, CallRefused, ServerCrashes, clientVars
  <2>1. ASSUME NEW tid \in Tid, runPaxos(s, tid) PROVE Quorate'
    BY <1>t, <2>0, <2>1, RunPaxosVotes
  <2>2. ASSUME NEW t \in stubs(s), NEW i,
               ReplyArrives(s, t, i) \/ Unavailable(s, t, i) \/ Expire(s, t, i)
        PROVE  Quorate'
    BY <1>t, <2>0, <2>2, OutCallVotes
  <2>3. ASSUME NEW t \in stubs(s), NEW i,
               \/ processPrepareCall(t, s, i) \/ processAcceptCall(t, s, i)
               \/ processCommitCall(t, s, i) \/ processSyncCall(t, s, i)
        PROVE  Quorate'
    BY <1>t, <2>0, <2>3, PrepareCallVotes, AcceptCallVotes, CommitCallVotes, SyncCallVotes
  <2>4. ASSUME NEW d \in decisions PROVE FALSE
    BY <1>t, <2>4, NoDecisions
  <2>5. CASE HandleRPCs(s)
    BY <2>1, <2>2, <2>3, <2>4, <2>5 DEF HandleRPCs
  <2>6. CASE CallExpires(s)
    BY <2>2, <2>6 DEF CallExpires
  <2>7. CASE ServerCrashes(s) \/ CallRefused(s)
    <3>1. UNCHANGED <<acceptor, round, log, chan>>
      BY <2>7 DEF ServerCrashes, Crash, CallRefused, CallFails, serverVars, storeVars
    <3> QED
      BY <3>1, NothingCounted
  <2> QED
    BY <1>2, <2>5, <2>6, <2>7
<1> QED
  BY <1>1, <1>2 DEF Next

LEMMA InitCounts == Init => Quorate
<1> SUFFICES ASSUME Init, NEW l \in Server, Leads(l) PROVE QuorumOf(l)
  BY DEF Quorate
<1>1. ~round[l].await_accept_decision /\ log[l] = <<>>
  BY DEF Init, ServerInit
<1> QED
  BY <1>1 DEF QuorumOf, Standing

\* With one leader per cluster, and up to the moment a replica logs an entry twice,
\* every chosen entry has its majority from then on: handleAcceptReply counts no vote
\* that is not there, and no later Prepare, Accept, Commit or Sync takes one away.
THEOREM QuorumInvariance ==
    ASSUME StableLeaders, IntraShard
    PROVE  Spec => []QuorumInv
<1>1. Init => QuorumInv
  BY InitCounts DEF QuorumInv
<1>2. AtomicityInv /\ AnswerInv /\ ReplicationInv /\ QuorumInv /\ [Next]_vars => QuorumInv'
  BY NextCounts, RepeatsStay DEF QuorumInv, ReplicationInv, AnswerInv
<1> QED
  BY <1>1, <1>2, ReplicationInvariance, AnswersInvariance, PTL DEF Spec

\* A transfer that was acknowledged is held by a majority of its cluster, in the log
\* or as the accepted value, until a replica logs an entry twice: as long as Majority
\* is more than half of a cluster and all sets name the same leader for it.
THEOREM AckedAlwaysSurvives ==
    ASSUME StableLeaders, IntraShard, QuorumMajority
    PROVE  Spec => []DurableUnlessRepeated
<1>1. TypeOK /\ Replicated /\ Quorate /\ AnswersAreLogged => AckedSurvives
  <2> SUFFICES ASSUME TypeOK, Replicated, Quorate, AnswersAreLogged, NEW a \in acked
               PROVE  IsMajorityOf({s \in Replicas(a[1]) :
                                      \/ s \in Holders(a[2], "COMMITTED")
                                      \/ acceptor[s].accepted /\ acceptor[s].accept_val = a[2]},
                                   SenderCluster(a[2]))
    BY DEF AckedSurvives
  <2>l. PICK l : l = a[1]
    OBVIOUS
  <2>t. PICK tid : tid = a[2]
    OBVIOUS
  <2>1. l \in Server /\ tid \in Tid /\ SaidYes(l, tid)
    <3>1. a \in Server \X Tid
      BY DEF TypeOK, ClientTypeOK
    <3>2. a = <<l, tid>>
      BY <2>l, <2>t, <3>1
    <3> QED
      BY <2>l, <2>t, <3>1, <3>2 DEF SaidYes
  <2>2. Leads(l) /\ IsLocal(l, tid)
    BY <2>1 DEF Replicated, Roles
  <2>3. PICK k \in DOMAIN log[l] : log[l][k].tid = tid /\ log[l][k].status = "COMMITTED"
    <3>1. InLog(l, tid, "COMMITTED")
      BY <2>1 DEF AnswersAreLogged, IntraShard
    <3> QED
      BY <3>1 DEF InLog
  <2>h. PICK H : H = {s \in Replicas(l) : \/ s \in Holders(tid, "COMMITTED")
                                          \/ acceptor[s].accepted /\ acceptor[s].accept_val = tid}
    OBVIOUS
  <2>4. log[l][k].ballot.num # 0 /\ Majority =< Cardinality(EntryHolders(l, k))
    BY <2>1, <2>2 DEF Quorate, QuorumOf
  <2>5. ASSUME NEW x \in Replicas(l), Holds(l, x, k) PROVE x \in H
    <3>0. x \in Server /\ \A j \in DOMAIN log[x] : log[x][j] = log[l][j]
      BY <2>1, <2>2, <2>5, ReplicaLogs
    <3>1. CASE k =< Len(log[x])
      <4>1. k \in DOMAIN log[x] /\ log[x][k] = log[l][k]
        <5>1. LogNumbers(x) /\ LogNumbers(l)
          BY <2>1, <3>0, Numbers
        <5>2. k \in DOMAIN log[x]
          BY <3>1, <5>1 DEF LogNumbers
        <5> QED
          BY <3>0, <5>2
      <4>2. x \in Holders(tid, "COMMITTED")
        BY <2>3, <3>0, <4>1 DEF Holders, InLog
      <4> QED
        BY <2>5, <2>h, <4>2
    <3>2. CASE ~(k =< Len(log[x]))
      <4>1. x \in stubs(l) /\ acceptor[x].accepted /\ acceptor[x].accept_num = log[l][k].ballot
        <5>1. x # l
          BY <2>1, <3>2, Numbers DEF LogNumbers
        <5> QED
          BY <2>5, <3>2, <5>1 DEF Holds, Replicas
      <4>2. IsProposal(l, acceptor[x].accept_num, acceptor[x].accept_val)
        BY <2>1, <2>2, <2>4, <4>1 DEF Replicated, Link, FollowerBallots
      <4>3. acceptor[x].accept_val = tid
        BY <2>3, <4>1, <4>2 DEF IsProposal
      <4> QED
        BY <2>5, <2>h, <4>1, <4>3
    <3> QED
      BY <3>1, <3>2
  <2>6. /\ EntryHolders(l, k) \in SUBSET Replicas(l) /\ H \in SUBSET Replicas(l)
        /\ EntryHolders(l, k) \subseteq H
    BY <2>5, <2>h DEF EntryHolders
  <2>7. /\ Cardinality(EntryHolders(l, k)) \in Nat /\ Cardinality(H) \in Nat
        /\ Cardinality(EntryHolders(l, k)) =< Cardinality(H)
    BY <2>1, <2>6, CountReplicas
  <2>8. 2 * Cardinality(H) > Cardinality(Replicas(l))
    <3>1. Cardinality(Replicas(l)) \in Nat
      BY <2>1, ReplicasAreFinite
    <3>2. 2 * Majority > Cardinality(Replicas(l)) /\ Majority \in Nat
      BY <2>1, ServerAssumption DEF QuorumMajority
    <3> QED
      BY <2>4, <2>7, <3>1, <3>2
  <2>9. Replicas(l) = getServersInCluster(SenderCluster(tid))
    BY <2>1, <2>2, WholeCluster DEF IsLocal
  <2> QED
    BY <2>8, <2>9, <2>h, <2>l, <2>t DEF IsMajorityOf
<1>2. AtomicityInv /\ AnswerInv /\ ReplicationInv /\ QuorumInv => DurableUnlessRepeated
  BY <1>1 DEF AtomicityInv, AnswerInv, ReplicationInv, QuorumInv, DurableUnlessRepeated
<1> QED
  BY <1>2, QuorumInvariance, ReplicationInvariance, AnswersInvariance, PTL

-----------------------------------------------------------------------------
(* Calls under way.  From here on nothing is assumed of the leaders. *)

\* Every call of that type that is waited for in q is waited for in r.
Lasting(q, r, type) ==
    \A k \in DOMAIN q : q[k].type = type /\ q[k].stage # "expired" =>
        \E j \in DOMAIN r : SameCall(q[k], r[j])

\* The Prepare calls of q are for ballots of s.
Asking(q, s) ==
    \A k \in DOMAIN q : q[k].type = "PREPARE" => q[k].req.ballot.server_id = s

AllAsking == \A s, t \in Server : Asking(chan[s][t], s)

\* No call but Commits, which nobody waits for, is taken away.
AllLast ==
    \A s, t \in Server : \A type : type # "COMMIT" => Lasting(chan[s][t], chan'[s][t], type)

LEMMA KeptLasts ==
    ASSUME NEW q
    PROVE  \A type : Lasting(q, q, type)
  BY DEF Lasting, SameCall

LEMMA AppendElements ==
    ASSUME NEW q \in Seq(OutCall), NEW c
    PROVE  /\ \A k \in DOMAIN q : k \in DOMAIN Append(q, c) /\ Append(q, c)[k] = q[k]
           /\ \E j \in DOMAIN Append(q, c) : Append(q, c)[j] = c
           /\ \A j \in DOMAIN Append(q, c) :
                 Append(q, c)[j] = c \/ (j \in DOMAIN q /\ Append(q, c)[j] = q[j])
<1>1. /\ Len(q) \in Nat /\ DOMAIN q = 1 .. Len(q) /\ DOMAIN Append(q, c) = 1 .. (Len(q) + 1)
      /\ Append(q, c)[Len(q) + 1] = c
  OBVIOUS
<1>2. \A j \in 1 .. Len(q) : Append(q, c)[j] = q[j]
  OBVIOUS
<1>3. Len(q) + 1 \in DOMAIN Append(q, c)
  BY <1>1
<1> QED
  BY <1>1, <1>2, <1>3

LEMMA AppendLasts ==
    ASSUME NEW q \in Seq(OutCall), NEW c, NEW r, r = Append(q, c), NEW s, Asking(q, s),
           c.type = "PREPARE" => c.req.ballot.server_id = s
    PROVE  (\A type : Lasting(q, r, type)) /\ Asking(r, s)
<1>1. /\ \A k \in DOMAIN q : k \in DOMAIN r /\ r[k] = q[k]
      /\ \A j \in DOMAIN r : r[j] = c \/ (j \in DOMAIN q /\ r[j] = q[j])
  BY AppendElements
<1>2. \A type : Lasting(q, r, type)
  BY <1>1 DEF Lasting, SameCall
<1>3. Asking(r, s)
  BY <1>1 DEF Asking
<1> QED
  BY <1>2, <1>3

\* A queue after its i-th call was answered or has ended.
LEMMA BecomesLasts ==
    ASSUME NEW q, NEW r, NEW i \in DOMAIN q, NEW new, Becomes(r, q, i, new),
           \A c \in new : c.type = q[i].type /\ c.req = q[i].req, NEW s
    PROVE  /\ \A type : type # q[i].type => Lasting(q, r, type)
           /\ Asking(q, s) => Asking(r, s)
<1>1. /\ \A k \in DOMAIN q \ {i} : \E j \in DOMAIN r : r[j] = q[k]
      /\ \A j \in DOMAIN r : \E k \in DOMAIN q : r[j].type = q[k].type /\ r[j].req = q[k].req
  BY DEF Becomes
<1>2. ASSUME NEW type, type # q[i].type PROVE Lasting(q, r, type)
  <2>1. ASSUME NEW k \in DOMAIN q, q[k].type = type, q[k].stage # "expired"
        PROVE  \E j \in DOMAIN r : SameCall(q[k], r[j])
    <3>1. PICK j \in DOMAIN r : r[j] = q[k]
      BY <1>1, <1>2, <2>1
    <3> QED
      BY <2>1, <3>1 DEF SameCall
  <2> QED
    BY <2>1 DEF Lasting
<1>3. Asking(q, s) => Asking(r, s)
  BY <1>1 DEF Asking
<1> QED
  BY <1>2, <1>3

\* A peer t that answers the i-th call of s.
LEMMA AnsweredLasts ==
    ASSUME NEW s, NEW t, chan[s][t] \in Seq(OutCall), NEW i \in DOMAIN chan[s][t], NEW res,
           chan'[s][t] = Answered(s, t, i, res)
    PROVE  /\ \A type : Lasting(chan[s][t], chan'[s][t], type)
           /\ Asking(chan[s][t], s) => Asking(chan'[s][t], s)
<1>1. \A type : Lasting(chan[s][t], chan'[s][t], type)
  BY AnsweredKeeps DEF Keeps, Lasting
<1>2. PICK new : /\ Becomes(chan'[s][t], chan[s][t], i, new)
                 /\ \A c \in new : c.type = chan[s][t][i].type /\ c.req = chan[s][t][i].req
  BY AnsweredBecomes
<1>3. Asking(chan[s][t], s) => Asking(chan'[s][t], s)
  BY <1>2, BecomesLasts
<1> QED
  BY <1>1, <1>3

\* runPaxos only sends.
LEMMA RunPaxosQueues ==
    ASSUME TypeOK, AllAsking, NEW l \in Server, NEW tid \in Tid, runPaxos(l, tid)
    PROVE  AllLast /\ AllAsking'
<1>1. CASE chan' = chan
  BY <1>1, KeptLasts DEF AllLast, AllAsking
<1>2. ASSUME NEW c, SendAll(l, c), c.type = "PREPARE" => c.req.ballot.server_id = l
      PROVE  AllLast /\ AllAsking'
  <2> SUFFICES ASSUME NEW s \in Server, NEW t \in Server
               PROVE  /\ \A type : Lasting(chan[s][t], chan'[s][t], type)
                      /\ Asking(chan'[s][t], s)
    BY DEF AllLast, AllAsking
  <2>1. Asking(chan[s][t], s) /\ chan[s][t] \in Seq(OutCall)
    BY Numbers DEF AllAsking
  <2>2. CASE chan'[s][t] = chan[s][t]
    BY <2>1, <2>2, KeptLasts
  <2>3. CASE s = l /\ chan'[s][t] = Append(chan[s][t], c)
    <3>q. PICK q : q = chan[s][t]
      OBVIOUS
    <3>r. PICK r : r = chan'[s][t]
      OBVIOUS
    <3>1. /\ q \in Seq(OutCall) /\ r = Append(q, c) /\ Asking(q, s)
          /\ c.type = "PREPARE" => c.req.ballot.server_id = s
      BY <1>2, <2>1, <2>3, <3>q, <3>r
    <3>2. (\A type : Lasting(q, r, type)) /\ Asking(r, s)
      BY <3>1, AppendLasts
    <3> QED
      BY <3>2, <3>q, <3>r
  <2> QED
    BY <1>2, <2>2, <2>3, SentToAll, Numbers
<1>3. CASE startRound(l, tid)
  <2>b. PICK b : b = [num |-> acceptor[l].ballot_num + 1, server_id |-> l]
    OBVIOUS
  <2>c. PICK c : c = prepareCall(b, last_inserted[l])
    OBVIOUS
  <2>1. SendAll(l, c) /\ c.req.ballot.server_id = l
    BY <1>3, <2>b, <2>c DEF startRound, prepareCall, NewCall
  <2> QED
    BY <1>2, <2>1
<1>4. CASE proposeTransaction(l, tid) \/ chooseTransaction(l, tid)
  <2>1. \E b : SendAll(l, acceptCall(b, tid)) \/ SendAll(l, commitCall(b))
    BY <1>4 DEF proposeTransaction, chooseTransaction
  <2>2. \A b : acceptCall(b, tid).type # "PREPARE" /\ commitCall(b).type # "PREPARE"
    BY DEF acceptCall, commitCall, NewCall
  <2> QED
    BY <1>2, <2>1, <2>2
<1>5. CASE rejectTransaction(l, tid) \/ prepareFailed(l, tid) \/ acceptFailed(l, tid)
  BY <1>1, <1>5 DEF rejectTransaction, prepareFailed, acceptFailed
<1> QED
  BY <1>3, <1>4, <1>5 DEF runPaxos

\* A peer answers, and may send a Sync of its own.
LEMMA PeerQueues ==
    ASSUME TypeOK, AllAsking, NEW s \in Server, NEW t \in Server, s # t, NEW i,
           \/ processPrepareCall(s, t, i) \/ processAcceptCall(s, t, i)
           \/ processCommitCall(s, t, i) \/ processSyncCall(s, t, i)
    PROVE  AllLast /\ AllAsking'
<1>t. chan \in [Server -> [Server -> Seq(OutCall)]]
  BY Numbers
<1>1. /\ i \in DOMAIN chan[s][t]
      /\ \/ \E res : chan'[s][t] = Answered(s, t, i, res)
         \/ chan'[s][t] = RemoveAt(chan[s][t], i) /\ chan[s][t][i].type = "COMMIT"
      /\ \/ chan'[t][s] = chan[t][s]
         \/ chan'[t][s] = Append(chan[t][s], syncCall(last_inserted[t]))
      /\ \A x, y \in Server : <<x, y>> \notin {<<s, t>>, <<t, s>>} => chan'[x][y] = chan[x][y]
  <2>1. CASE processPrepareCall(s, t, i)
    <3>1. PICK res, q : /\ chan' = [chan EXCEPT ![s][t] = Answered(s, t, i, res), ![t][s] = q]
                        /\ \/ q = chan[t][s]
                           \/ q = Append(chan[t][s], syncCall(last_inserted[t]))
      <4>1. \E res : chan' = [chan EXCEPT ![s][t] = Answered(s, t, i, res),
                ![t][s] = IF IsNewer(t, chan[s][t][i].req)
                               /\ chan[s][t][i].req.last_inserted > last_inserted[t]
                          THEN Append(@, syncCall(last_inserted[t])) ELSE @]
        BY <2>1 DEF processPrepareCall
      <4> QED
        BY <1>t, <4>1
    <3>2. i \in DOMAIN chan[s][t]
      BY <2>1 DEF processPrepareCall, Arrives
    <3>3. chan'[s][t] = Answered(s, t, i, res) /\ chan'[t][s] = q
      BY <1>t, <3>1
    <3>4. \A x, y \in Server : <<x, y>> \notin {<<s, t>>, <<t, s>>} => chan'[x][y] = chan[x][y]
      BY <1>t, <3>1
    <3> QED
      BY <3>1, <3>2, <3>3, <3>4
  <2>2. CASE processAcceptCall(s, t, i) \/ processSyncCall(s, t, i)
    <3>1. \E res : chan' = [chan EXCEPT ![s][t] = Answered(s, t, i, res)]
      BY <2>2 DEF processAcceptCall, processSyncCall
    <3>2. i \in DOMAIN chan[s][t]
      BY <2>2 DEF processAcceptCall, processSyncCall, Arrives
    <3> QED
      BY <1>t, <3>1, <3>2
  <2>3. CASE processCommitCall(s, t, i)
    <3>1. /\ chan' = [chan EXCEPT ![s][t] = RemoveAt(@, i)]
          /\ i \in DOMAIN chan[s][t] /\ chan[s][t][i].type = "COMMIT"
      BY <2>3 DEF processCommitCall, Arrives
    <3> QED
      BY <1>t, <3>1
  <2> QED
    BY <2>1, <2>2, <2>3
<1> SUFFICES ASSUME NEW x \in Server, NEW y \in Server
             PROVE  /\ \A type : type # "COMMIT" => Lasting(chan[x][y], chan'[x][y], type)
                    /\ Asking(chan'[x][y], x)
  BY DEF AllLast, AllAsking
<1>2. Asking(chan[x][y], x) /\ chan[x][y] \in Seq(OutCall)
  BY <1>t DEF AllAsking
<1>3. CASE chan'[x][y] = chan[x][y]
  BY <1>2, <1>3, KeptLasts
<1>4. CASE chan'[x][y] = Append(chan[x][y], syncCall(last_inserted[t]))
  <2>1. PICK c : c = syncCall(last_inserted[t])
    OBVIOUS
  <2>2. c.type # "PREPARE" /\ chan'[x][y] = Append(chan[x][y], c)
    BY <1>4, <2>1 DEF syncCall, NewCall
  <2> QED
    <3>q. PICK q : q = chan[x][y]
      OBVIOUS
    <3>r. PICK r : r = chan'[x][y]
      OBVIOUS
    <3>1. /\ q \in Seq(OutCall) /\ r = Append(q, c) /\ Asking(q, x)
          /\ c.type = "PREPARE" => c.req.ballot.server_id = x
      BY <1>2, <2>2, <3>q, <3>r
    <3>2. (\A type : Lasting(q, r, type)) /\ Asking(r, x)
      BY <3>1, AppendLasts
    <3> QED
      BY <3>2, <3>q, <3>r
<1>5. CASE <<x, y>> = <<s, t>>
  <2>1. ASSUME NEW res, chan'[x][y] = Answered(x, y, i, res)
        PROVE  (\A type : Lasting(chan[x][y], chan'[x][y], type)) /\ Asking(chan'[x][y], x)
    <3>1. i \in DOMAIN chan[x][y]
      BY <1>1, <1>5
    <3> QED
      BY <1>2, <2>1, <3>1, AnsweredLasts
  <2>2. CASE chan'[x][y] = RemoveAt(chan[x][y], i) /\ chan[x][y][i].type = "COMMIT"
    <3>n. PICK none : none = {}
      OBVIOUS
    <3>1. Becomes(chan'[x][y], chan[x][y], i, none) /\ \A c \in none : FALSE
      BY <1>1, <1>2, <1>5, <2>2, <3>n, RemovedBecomes
    <3> QED
      BY <1>1, <1>2, <1>5, <2>2, <3>1, BecomesLasts
  <2> QED
    BY <1>1, <1>5, <2>1, <2>2
<1> QED
  BY <1>1, <1>3, <1>4, <1>5

-----------------------------------------------------------------------------
(* Polls *)

\* A server that has not been counted stays so as long as its calls last.
LEMMA SilentLasts ==
    ASSUME NEW s \in Server, NEW type, NEW E,
           acceptor'[s].promised_num = acceptor[s].promised_num,
           \A t \in stubs(s) : crashed[t] => crashed'[t],
           \A t \in stubs(s) \ E : Lasting(chan[s][t], chan'[s][t], type)
    PROVE  Silent(s, type) \ E \subseteq Silent(s, type)'
<1>b. PICK b : b = acceptor[s].promised_num
  OBVIOUS
<1>1. ASSUME NEW t \in stubs(s) \ E, Pending(s, t, type, b) PROVE Pending(s, t, type, b)'
  <2>1. PICK k \in DOMAIN chan[s][t] :
           chan[s][t][k].type = type /\ chan[s][t][k].req.ballot = b
           /\ chan[s][t][k].stage # "expired"
    BY <1>1 DEF Pending, Live
  <2>2. PICK j \in DOMAIN chan'[s][t] : SameCall(chan[s][t][k], chan'[s][t][j])
    BY <2>1 DEF Lasting
  <2> QED
    BY <2>1, <2>2 DEF SameCall, Pending, Live
<1>2. /\ Silent(s, type) = {t \in stubs(s) : crashed[t] \/ Pending(s, t, type, b)}
      /\ Silent(s, type)' = {t \in stubs(s) : crashed'[t] \/ Pending(s, t, type, b)'}
  BY <1>b DEF Silent, Pending, Live
<1> QED
  BY <1>1, <1>2

\* One more answer is counted and no peer but one is not silent any more, or none is.
Polled(s, type, old, new) ==
    \/ new = old /\ Silent(s, type) \subseteq Silent(s, type)'
    \/ new = old + 1 /\ \E t : Silent(s, type) \ {t} \subseteq Silent(s, type)'

LEMMA PolledOn ==
    ASSUME NEW s \in Server, NEW type, NEW old \in Nat, NEW new, Polled(s, type, old, new),
           Cardinality(Replicas(s)) =< old + Cardinality(Silent(s, type))
    PROVE  Cardinality(Replicas(s)) =< new + Cardinality(Silent(s, type)')
<1>S. PICK S : S = Silent(s, type)
  OBVIOUS
<1>T. PICK T : T = Silent(s, type)'
  OBVIOUS
<1>1. S \in SUBSET Replicas(s) /\ T \in SUBSET Replicas(s)
  BY <1>S, <1>T DEF Silent, Replicas
<1>2. /\ Cardinality(S) \in Nat /\ Cardinality(T) \in Nat
      /\ S \subseteq T => Cardinality(S) =< Cardinality(T)
      /\ \A f \in S : S \ {f} \subseteq T => Cardinality(S) =< Cardinality(T) + 1
  BY <1>1, CountReplicas
<1>3. Cardinality(Replicas(s)) \in Nat
  BY ReplicasAreFinite
<1>4. CASE new = old /\ S \subseteq T
  BY <1>2, <1>3, <1>4, <1>S, <1>T
<1>5. ASSUME new = old + 1, NEW t, S \ {t} \subseteq T
      PROVE  Cardinality(Replicas(s)) =< new + Cardinality(Silent(s, type)')
  <2>1. Cardinality(S) =< Cardinality(T) + 1
    <3>1. CASE t \in S
      BY <1>2, <1>5, <3>1
    <3>2. CASE t \notin S
      <4>1. S \subseteq T
        BY <1>5, <3>2
      <4> QED
        BY <1>2, <4>1
    <3> QED
      BY <3>1, <3>2
  <2> QED
    BY <1>2, <1>3, <1>5, <1>S, <1>T, <2>1
<1> QED
  BY <1>4, <1>5, <1>S, <1>T DEF Polled

\* A step that goes on with the round of s.
LEMMA PollGoesOn ==
    ASSUME TypeOK, NEW s \in Server, PollOf(s),
           round'[s].await_prepare_decision =>
              /\ round[s].await_prepare_decision
              /\ Polled(s, "PREPARE", round[s].prepare_successes + round[s].prepare_failures,
                        round'[s].prepare_successes + round'[s].prepare_failures),
           round'[s].await_accept_decision =>
              /\ round[s].await_accept_decision
              /\ acceptor'[s].accept_num.num = acceptor'[s].promised_num.num
              /\ Polled(s, "ACCEPT", round[s].accept_successes + round[s].accept_failures,
                        round'[s].accept_successes + round'[s].accept_failures)
    PROVE  PollOf(s)'
<1>1. /\ round[s].prepare_successes + round[s].prepare_failures \in Nat
      /\ round[s].accept_successes + round[s].accept_failures \in Nat
  <2>1. round[s] \in Round
    BY Numbers
  <2> QED
    BY <2>1 DEF Round
<1>2. ASSUME round'[s].await_prepare_decision
      PROVE  Cardinality(Replicas(s)) =< round'[s].prepare_successes + round'[s].prepare_failures
                                            + Cardinality(Silent(s, "PREPARE")')
  BY <1>1, <1>2, PolledOn DEF PollOf
<1>3. ASSUME round'[s].await_accept_decision
      PROVE  Cardinality(Replicas(s)) =< round'[s].accept_successes + round'[s].accept_failures
                                            + Cardinality(Silent(s, "ACCEPT")')
  BY <1>1, <1>3, PolledOn DEF PollOf
<1> QED
  BY <1>2, <1>3 DEF PollOf

\* A step that takes nothing from the round of s.
LEMMA PollKept ==
    ASSUME TypeOK, NEW s \in Server, PollOf(s), round'[s] = round[s],
           acceptor'[s].promised_num = acceptor[s].promised_num,
           acceptor'[s].accept_num.num
               \in {acceptor[s].accept_num.num, acceptor[s].promised_num.num},
           \A t \in stubs(s) : crashed[t] => crashed'[t],
           \A t \in stubs(s) : /\ Lasting(chan[s][t], chan'[s][t], "PREPARE")
                               /\ Lasting(chan[s][t], chan'[s][t], "ACCEPT")
    PROVE  PollOf(s)'
<1>e. PICK E : E = {}
  OBVIOUS
<1>1. /\ Silent(s, "PREPARE") \ E \subseteq Silent(s, "PREPARE")'
      /\ Silent(s, "ACCEPT") \ E \subseteq Silent(s, "ACCEPT")'
  <2>1. \A t \in stubs(s) \ E : /\ Lasting(chan[s][t], chan'[s][t], "PREPARE")
                                /\ Lasting(chan[s][t], chan'[s][t], "ACCEPT")
    OBVIOUS
  <2> QED
    BY <2>1, SilentLasts
<1>2. /\ Silent(s, "PREPARE") \subseteq Silent(s, "PREPARE")'
      /\ Silent(s, "ACCEPT") \subseteq Silent(s, "ACCEPT")'
  BY <1>1, <1>e
<1>3. round[s].await_accept_decision => acceptor'[s].accept_num.num = acceptor'[s].promised_num.num
  BY DEF PollOf
<1> QED
  BY <1>2, <1>3, PollGoesOn DEF Polled

\* A step that changes the acceptor, the round and the calls of l only, but for Sync
\* calls and answers of others.
LEMMA PollStep ==
    ASSUME TypeOK, PollInv, AllAsking', NEW l \in Server, AllLast,
           \A s \in Server : crashed[s] => crashed'[s],
           \A s \in Server \ {l} : acceptor'[s] = acceptor[s] /\ round'[s] = round[s],
           acceptor'[l].promised_num.server_id = l => PollOf(l)'
    PROVE  PollInv'
<1>1. ASSUME NEW s \in Server \ {l}, acceptor'[s].promised_num.server_id = s
      PROVE  PollOf(s)'
  <2>1. PollOf(s) /\ round'[s] = round[s] /\ acceptor'[s] = acceptor[s]
    BY <1>1 DEF PollInv
  <2>2. \A t \in stubs(s) : /\ crashed[t] => crashed'[t]
                            /\ Lasting(chan[s][t], chan'[s][t], "PREPARE")
                            /\ Lasting(chan[s][t], chan'[s][t], "ACCEPT")
    BY ClusterIsOne DEF AllLast
  <2> QED
    BY <2>1, <2>2, PollKept
<1> QED
  BY <1>1 DEF PollInv, AllAsking, Asking

LEMMA InvAsks == PollInv <=> AllAsking /\ \A s \in Server :
                                acceptor[s].promised_num.server_id = s => PollOf(s)
  BY DEF PollInv, AllAsking, Asking

\* All peers have yet to answer the first calls of a round.
LEMMA AllSilent ==
    ASSUME TypeOK, NEW l \in Server, NEW c, SendAll(l, c), c.stage = "request",
           c.req.ballot = acceptor'[l].promised_num
    PROVE  Cardinality(Replicas(l)) =< 1 + 0 + Cardinality(Silent(l, c.type)')
<1>b. PICK b : b = acceptor'[l].promised_num
  OBVIOUS
<1>1. \A f \in stubs(l) : \E j \in DOMAIN chan'[l][f] : chan'[l][f][j] = c
  <2>1. ASSUME NEW f \in stubs(l) PROVE \E j \in DOMAIN chan'[l][f] : chan'[l][f][j] = c
    <3>0. f \in Server /\ chan \in [Server -> [Server -> Seq(OutCall)]]
      BY Numbers, ClusterIsOne
    <3>1. chan[l][f] \in Seq(OutCall) /\ chan'[l][f] = Append(chan[l][f], c)
      BY <3>0, SentToAll
    <3>2. \E j \in DOMAIN Append(chan[l][f], c) : Append(chan[l][f], c)[j] = c
      BY <3>1, AppendElements
    <3> QED
      BY <3>1, <3>2
  <2> QED
    BY <2>1
<1>2. \A f \in stubs(l) : Pending(l, f, c.type, b)'
  BY <1>1, <1>b DEF Pending, Live
<1>3. Silent(l, c.type)' = stubs(l)
  BY <1>2, <1>b DEF Silent, Pending, Live
<1> QED
  BY <1>3, WholeCluster

LEMMA RunPaxosPolls ==
    ASSUME TypeOK, PollInv, NEW l \in Server, NEW tid \in Tid, runPaxos(l, tid)
    PROVE  PollInv'
<1>a. AllAsking /\ \A s \in Server : acceptor[s].promised_num.server_id = s => PollOf(s)
  BY InvAsks
<1>1. AllLast /\ AllAsking'
  BY <1>a, RunPaxosQueues
<1>2. /\ crashed' = crashed
      /\ \A s \in Server \ {l} : acceptor'[s] = acceptor[s] /\ round'[s] = round[s]
  <2>1. crashed' = crashed
    BY DEF runPaxos, startRound, rejectTransaction, proposeTransaction, prepareFailed,
           chooseTransaction, acceptFailed
  <2>2. \A s \in Server \ {l} : acceptor'[s] = acceptor[s]
    BY Numbers DEF runPaxos, startRound, rejectTransaction, proposeTransaction, prepareFailed,
           chooseTransaction, acceptFailed
  <2>3. \A s \in Server \ {l} : round'[s] = round[s]
    BY Numbers DEF runPaxos, startRound, rejectTransaction, proposeTransaction, prepareFailed,
           chooseTransaction, acceptFailed, EndRound
  <2> QED
    BY <2>1, <2>2, <2>3
<1>3. CASE startRound(l, tid)
  <2>b. PICK b : b = [num |-> acceptor[l].ballot_num + 1, server_id |-> l]
    OBVIOUS
  <2>c. PICK c : c = prepareCall(b, last_inserted[l])
    OBVIOUS
  <2>1. /\ SendAll(l, c) /\ ~round[l].await_accept_decision
        /\ acceptor' = [acceptor EXCEPT ![l].ballot_num = b.num, ![l].promised = TRUE,
                                        ![l].promised_num = b]
        /\ round' = [round EXCEPT ![l].paxos_tid = tid, ![l].await_prepare_decision = TRUE,
                                  ![l].prepare_successes = 1, ![l].prepare_failures = 0]
    BY <1>3, <2>b, <2>c DEF startRound
  <2>2. /\ acceptor'[l].promised_num = b /\ ~round'[l].await_accept_decision
        /\ round'[l].prepare_successes = 1 /\ round'[l].prepare_failures = 0
    BY <2>1, Numbers DEF Acceptor, Round
  <2>3. c.type = "PREPARE" /\ c.stage = "request" /\ c.req.ballot = b
    BY <2>c DEF prepareCall, NewCall
  <2>4. Cardinality(Replicas(l)) =< 1 + 0 + Cardinality(Silent(l, c.type)')
    BY <2>1, <2>2, <2>3, AllSilent
  <2>5. PollOf(l)'
    BY <2>2, <2>3, <2>4 DEF PollOf
  <2> QED
    BY <1>1, <1>2, <2>5, PollStep
<1>4. CASE proposeTransaction(l, tid)
  <2>b. PICK b : b = acceptor[l].promised_num
    OBVIOUS
  <2>c. PICK c : c = acceptCall(b, tid)
    OBVIOUS
  <2>1. /\ SendAll(l, c)
        /\ acceptor' = [acceptor EXCEPT ![l].accepted = TRUE, ![l].accept_num = b,
                                        ![l].accept_val = tid]
        /\ round' = [round EXCEPT ![l].await_prepare_decision = FALSE,
                                  ![l].await_accept_decision = TRUE,
                                  ![l].accept_successes = 1, ![l].accept_failures = 0]
    BY <1>4, <2>b, <2>c DEF proposeTransaction
  <2>2. /\ acceptor'[l].promised_num = b /\ acceptor'[l].accept_num = b
        /\ ~round'[l].await_prepare_decision
        /\ round'[l].accept_successes = 1 /\ round'[l].accept_failures = 0
    BY <2>1, <2>b, Numbers DEF Acceptor, Round
  <2>3. c.type = "ACCEPT" /\ c.stage = "request" /\ c.req.ballot = b
    BY <2>c DEF acceptCall, NewCall
  <2>4. Cardinality(Replicas(l)) =< 1 + 0 + Cardinality(Silent(l, c.type)')
    BY <2>1, <2>2, <2>3, AllSilent
  <2>5. PollOf(l)'
    BY <2>2, <2>3, <2>4 DEF PollOf
  <2> QED
    BY <1>1, <1>2, <2>5, PollStep
<1>5. CASE ~startRound(l, tid) /\ ~proposeTransaction(l, tid)
  <2>1. EndRound(l)
    BY <1>5 DEF runPaxos, rejectTransaction, prepareFailed, chooseTransaction, acceptFailed
  <2>2. PollOf(l)'
    BY <2>1, EndedRound DEF PollOf
  <2> QED
    BY <1>1, <1>2, <2>2, PollStep
<1> QED
  BY <1>3, <1>4, <1>5

\* A peer handles a call.
LEMMA PeerPolls ==
    ASSUME TypeOK, PollInv, NEW s \in Server, NEW t \in Server, s # t, NEW i,
           \/ processPrepareCall(s, t, i) \/ processAcceptCall(s, t, i)
           \/ processCommitCall(s, t, i) \/ processSyncCall(s, t, i)
    PROVE  PollInv'
<1>a. AllAsking /\ \A x \in Server : acceptor[x].promised_num.server_id = x => PollOf(x)
  BY InvAsks
<1>1. AllLast /\ AllAsking'
  BY <1>a, PeerQueues
<1>2. crashed' = crashed /\ round' = round
  BY DEF processPrepareCall, processAcceptCall, processCommitCall, processSyncCall
<1>3. /\ \A x \in Server \ {t} : acceptor'[x] = acceptor[x]
      /\ \/ acceptor'[t].promised_num.server_id # t
         \/ /\ acceptor'[t].promised_num = acceptor[t].promised_num
            /\ acceptor'[t].accept_num.num
                  \in {acceptor[t].accept_num.num, acceptor[t].promised_num.num}
  <2>1. CASE processPrepareCall(s, t, i)
    <3>r. PICK r : r = chan[s][t][i].req
      OBVIOUS
    <3>1. r.ballot.server_id = s
      BY <1>a, <2>1, <3>r DEF processPrepareCall, Arrives, AllAsking, Asking
    <3>2. PICK ack, num : acceptor' = [acceptor EXCEPT ![t].promised = @ \/ ack,
                                        ![t].promised_num = IF ack THEN r.ballot ELSE @,
                                        ![t].ballot_num = num]
      BY <2>1, <3>r, Zenon DEF processPrepareCall
    <3>3. /\ \A x \in Server \ {t} : acceptor'[x] = acceptor[x]
          /\ acceptor'[t].promised_num = (IF ack THEN r.ballot ELSE acceptor[t].promised_num)
          /\ acceptor'[t].accept_num = acceptor[t].accept_num
      BY <3>2, Numbers DEF Acceptor
    <3> QED
      BY <3>1, <3>3
  <2>2. CASE processAcceptCall(s, t, i)
    <3>r. PICK r : r = chan[s][t][i].req
      OBVIOUS
    <3>1. \/ acceptor' = acceptor
          \/ /\ acceptor[t].promised_num.num = r.ballot.num
             /\ acceptor' = [acceptor EXCEPT ![t].accepted = TRUE, ![t].accept_num = r.ballot,
                                             ![t].accept_val = r.r]
      BY <2>2, <3>r DEF processAcceptCall
    <3> QED
      BY <3>1, Numbers DEF Acceptor
  <2>3. CASE processCommitCall(s, t, i)
    <3>1. \/ acceptor' = acceptor
          \/ acceptor' = [acceptor EXCEPT ![t].promised = FALSE, ![t].accepted = FALSE]
      BY <2>3 DEF processCommitCall
    <3>2. /\ \A x \in Server \ {t} : acceptor'[x] = acceptor[x]
          /\ acceptor'[t].promised_num = acceptor[t].promised_num
          /\ acceptor'[t].accept_num = acceptor[t].accept_num
      BY <3>1, Numbers DEF Acceptor
    <3> QED
      BY <3>2
  <2>4. CASE processSyncCall(s, t, i)
    BY <2>4 DEF processSyncCall
  <2> QED
    BY <2>1, <2>2, <2>3, <2>4
<1>4. acceptor'[t].promised_num.server_id = t => PollOf(t)'
  <2>1. \A x \in stubs(t) : /\ Lasting(chan[t][x], chan'[t][x], "PREPARE")
                            /\ Lasting(chan[t][x], chan'[t][x], "ACCEPT")
    BY <1>1, ClusterIsOne DEF AllLast
  <2> QED
    BY <1>a, <1>2, <1>3, <2>1, PollKept
<1> QED
  BY <1>1, <1>2, <1>3, <1>4, PollStep

\* The end of a call of s to t takes that call away and no other.
LEMMA EndOfCall ==
    ASSUME TypeOK, AllAsking, NEW s \in Server, NEW t \in Server, NEW i, NEW status, NEW rest,
           CallOver(s, t, i, status, rest), HandleRPCResponse(s, t, i, status, rest),
           NEW v, v = chan[s][t][i]
    PROVE  /\ i \in DOMAIN chan[s][t] /\ v.stage # "expired"
           /\ AllAsking' /\ crashed' = crashed
           /\ \A x, y \in Server : <<x, y>> # <<s, t>> => chan'[x][y] = chan[x][y]
           /\ \A k \in DOMAIN chan[s][t] \ {i} :
                 \E j \in DOMAIN chan'[s][t] : chan'[s][t][j] = chan[s][t][k]
           /\ \A x \in Server \ {s} : acceptor'[x] = acceptor[x] /\ in_sync'[x] = in_sync[x]
           /\ acceptor'[s].promised_num = acceptor[s].promised_num
           /\ acceptor'[s].accept_num = acceptor[s].accept_num
           /\ in_sync'[s] => \/ in_sync[s] /\ v.type # "SYNC"
                             \/ \E j \in DOMAIN chan'[s][t] :
                                   /\ chan'[s][t][j].type = "SYNC"
                                   /\ chan'[s][t][j].stage # "expired"
<1>0. i \in DOMAIN chan[s][t] /\ v.stage # "expired" /\ crashed' = crashed
  BY DEF CallOver, HandleRPCResponse
<1>c. PICK c : c = syncCall(last_inserted[s])
  OBVIOUS
<1>1. /\ c.type = "SYNC" /\ c.stage = "request"
  BY <1>c DEF syncCall, NewCall
<1>q. PICK q : q = chan[s][t]
  OBVIOUS
<1>2. q \in Seq(OutCall)
  BY <1>q, Numbers
<1>3. PICK r : /\ chan' = [chan EXCEPT ![s][t] = r]
               /\ \/ r = rest /\ (in_sync'[s] => in_sync[s] /\ v.type # "SYNC")
                  \/ r = Append(rest, c)
  <2>1. CASE v.type = "PREPARE" /\ handlePrepareReply(s, t, v, status, rest)
    <3>1. \E behind : /\ in_sync' = [in_sync EXCEPT ![s] = @ \/ behind]
                      /\ chan' = [chan EXCEPT ![s][t] =
                                    IF behind THEN Append(rest, c) ELSE rest]
      BY <2>1, <1>c, Zenon DEF handlePrepareReply
    <3> QED
      BY <2>1, <3>1, Numbers
  <2>2. CASE v.type = "ACCEPT" /\ handleAcceptReply(s, t, v, status, rest)
    BY <2>2 DEF handleAcceptReply
  <2>3. CASE v.type = "SYNC" /\ handleSyncReply(s, t, v, status, rest)
    <3>1. in_sync' = [in_sync EXCEPT ![s] = FALSE] /\ chan' = [chan EXCEPT ![s][t] = rest]
      BY <2>3 DEF handleSyncReply
    <3> QED
      BY <3>1, Numbers
  <2>4. CASE v.type = "COMMIT" /\ chan' = [chan EXCEPT ![s][t] = rest] /\ in_sync' = in_sync
    BY <2>4
  <2> QED
    BY <2>1, <2>2, <2>3, <2>4 DEF HandleRPCResponse
<1>4. chan'[s][t] = r /\ \A x, y \in Server : <<x, y>> # <<s, t>> => chan'[x][y] = chan[x][y]
  BY <1>3, Numbers
<1>5. PICK new : /\ Becomes(rest, q, i, new)
                 /\ \A d \in new : d.type = q[i].type /\ d.req = q[i].req
  BY <1>2, <1>q, EndedBecomes
<1>6. /\ \A k \in DOMAIN q \ {i} : \E j \in DOMAIN rest : rest[j] = q[k]
      /\ \A x : Asking(q, x) => Asking(rest, x)
  <2>1. \A x : Asking(q, x) => Asking(rest, x)
    BY <1>0, <1>5, <1>q, BecomesLasts
  <2> QED
    BY <1>5, <2>1 DEF Becomes
<1>7. rest \in Seq(OutCall)
  <2>1. CASE rest = RemoveAt(q, i)
    BY <1>0, <1>2, <1>q, <2>1, RemoveAtType
  <2>2. CASE rest = [q EXCEPT ![i].stage = "expired"]
    <3>d. PICK d : d = [q[i] EXCEPT !.stage = "expired"]
      OBVIOUS
    <3>1. q[i] \in OutCall
      BY <1>0, <1>2, <1>q, ElementOfSeq
    <3>2. d \in OutCall
      BY <3>1, <3>d DEF OutCall
    <3>3. rest = [q EXCEPT ![i] = d]
      BY <2>2, <3>d
    <3> QED
      BY <1>0, <1>2, <1>q, <3>2, <3>3, ExceptSeq
  <2> QED
    BY <1>q, <2>1, <2>2 DEF CallOver
<1>8. /\ \A k \in DOMAIN rest : \E j \in DOMAIN r : r[j] = rest[k]
      /\ \A j \in DOMAIN r : r[j] = c \/ \E k \in DOMAIN rest : r[j] = rest[k]
      /\ r = Append(rest, c) => \E j \in DOMAIN r : r[j] = c
  <2>1. CASE r = Append(rest, c)
    <3>1. /\ \A k \in DOMAIN rest : k \in DOMAIN r /\ r[k] = rest[k]
          /\ \E j \in DOMAIN r : r[j] = c
          /\ \A j \in DOMAIN r : r[j] = c \/ (j \in DOMAIN rest /\ r[j] = rest[j])
      BY <1>7, <2>1, AppendElements
    <3> QED
      BY <3>1
  <2>2. CASE r = rest /\ r # Append(rest, c)
    BY <2>2
  <2> QED
    BY <1>3, <2>1, <2>2
<1>9. AllAsking'
  <2>1. Asking(rest, s)
    BY <1>6, <1>q DEF AllAsking
  <2>2. Asking(r, s)
    BY <1>1, <1>8, <2>1 DEF Asking
  <2> QED
    BY <1>4, <2>2 DEF AllAsking
<1>10. /\ \A x \in Server \ {s} : acceptor'[x] = acceptor[x] /\ in_sync'[x] = in_sync[x]
       /\ acceptor'[s].promised_num = acceptor[s].promised_num
       /\ acceptor'[s].accept_num = acceptor[s].accept_num
  <2>1. \E n : acceptor' = acceptor \/ acceptor' = [acceptor EXCEPT ![s].ballot_num = n]
    BY Zenon DEF HandleRPCResponse, handlePrepareReply, handleAcceptReply, handleSyncReply
  <2>2. \E n : in_sync' = in_sync \/ in_sync' = [in_sync EXCEPT ![s] = n]
    BY Zenon DEF HandleRPCResponse, handlePrepareReply, handleAcceptReply, handleSyncReply
  <2> QED
    BY <2>1, <2>2, Numbers DEF Acceptor
<1>11. in_sync'[s] => \/ in_sync[s] /\ v.type # "SYNC"
                      \/ \E j \in DOMAIN chan'[s][t] :
                            chan'[s][t][j].type = "SYNC" /\ chan'[s][t][j].stage # "expired"
  BY <1>1, <1>3, <1>4, <1>8
<1>12. \A k \in DOMAIN chan[s][t] \ {i} :
          \E j \in DOMAIN chan'[s][t] : chan'[s][t][j] = chan[s][t][k]
  BY <1>4, <1>6, <1>8, <1>q
<1> QED
  BY <1>0, <1>4, <1>9, <1>10, <1>11, <1>12

\* handlePrepareReply and handleAcceptReply: an answer of the round is counted, as a
\* success or as a failure, unless the peer is dead.
LEMMA EndedCallPolls ==
    ASSUME TypeOK, PollInv, NEW s \in Server, NEW t \in stubs(s), NEW i, NEW status, NEW rest,
           CallOver(s, t, i, status, rest), HandleRPCResponse(s, t, i, status, rest)
    PROVE  PollInv'
<1>a. AllAsking /\ \A x \in Server : acceptor[x].promised_num.server_id = x => PollOf(x)
  BY InvAsks
<1>t. t \in Server /\ \A x \in stubs(s) : x \in Server
  BY ClusterIsOne
<1>v. PICK v : v = chan[s][t][i]
  OBVIOUS
<1>b. PICK b : b = acceptor[s].promised_num
  OBVIOUS
<1>q. PICK q : q = chan[s][t]
  OBVIOUS
<1>1. /\ i \in DOMAIN q /\ v.stage # "expired"
      /\ AllAsking' /\ crashed' = crashed
      /\ \A x, y \in Server : <<x, y>> # <<s, t>> => chan'[x][y] = chan[x][y]
      /\ \A k \in DOMAIN q \ {i} : \E j \in DOMAIN chan'[s][t] : chan'[s][t][j] = q[k]
      /\ \A x \in Server \ {s} : acceptor'[x] = acceptor[x]
      /\ acceptor'[s].promised_num = b
      /\ acceptor'[s].accept_num = acceptor[s].accept_num
  BY <1>a, <1>t, <1>v, <1>b, <1>q, EndOfCall
<1>r. PICK r : r = round[s]
  OBVIOUS
<1>z. PICK z : z = round'[s]
  OBVIOUS
<1>2. /\ z.await_accept_decision = r.await_accept_decision
      /\ z.await_prepare_decision => r.await_prepare_decision
      /\ Tally(r.accept_successes, z.accept_successes,
               v.type = "ACCEPT" /\ CountsAccept(s, v) /\ Success(v, status))
      /\ Tally(r.accept_failures, z.accept_failures,
               v.type = "ACCEPT" /\ CountsAccept(s, v) /\ Refused(v, status))
      /\ Tally(r.prepare_successes, z.prepare_successes,
               v.type = "PREPARE" /\ CountsPrepare(s, v) /\ Success(v, status))
      /\ Tally(r.prepare_failures, z.prepare_failures,
               v.type = "PREPARE" /\ CountsPrepare(s, v) /\ Refused(v, status))
      /\ \A x \in Server \ {s} : round'[x] = round[x]
  BY <1>t, <1>v, <1>r, <1>z, AnswerTallies
<1>3. ~(Success(v, status) /\ Refused(v, status))
  BY DEF Success, Refused
<1>4. Success(v, status) \/ Refused(v, status) \/ crashed[t]
  BY DEF Success, Refused, CallOver
<1>5. /\ r.accept_successes \in Nat /\ r.accept_failures \in Nat
      /\ r.prepare_successes \in Nat /\ r.prepare_failures \in Nat
  BY <1>r, Numbers DEF Round
<1>6. \A type : Silent(s, type) \ {t} \subseteq Silent(s, type)'
  <2>1. \A x \in stubs(s) \ {t} : chan'[s][x] = chan[s][x]
    BY <1>t, <1>1
  <2>2. \A type : \A x \in stubs(s) \ {t} : Lasting(chan[s][x], chan'[s][x], type)
    BY <2>1, KeptLasts
  <2> QED
    BY <1>b, <1>1, <2>2, SilentLasts
<1>7. ASSUME NEW type, crashed[t] \/ v.type # type \/ v.req.ballot # b
      PROVE  Silent(s, type) \subseteq Silent(s, type)'
  <2>1. ASSUME Pending(s, t, type, b) PROVE crashed'[t] \/ Pending(s, t, type, b)'
    <3>1. PICK k \in DOMAIN q : q[k].type = type /\ q[k].req.ballot = b /\ q[k].stage # "expired"
      BY <1>q, <2>1 DEF Pending, Live
    <3>2. CASE k = i
      BY <1>1, <1>7, <1>v, <1>q, <3>1, <3>2
    <3>3. CASE k # i
      <4>1. PICK j \in DOMAIN chan'[s][t] : chan'[s][t][j] = q[k]
        BY <1>1, <3>3
      <4> QED
        BY <3>1, <4>1 DEF Pending, Live
    <3> QED
      BY <3>2, <3>3
  <2>2. /\ Silent(s, type) = {x \in stubs(s) : crashed[x] \/ Pending(s, x, type, b)}
        /\ Silent(s, type)' = {x \in stubs(s) : crashed'[x] \/ Pending(s, x, type, b)'}
    BY <1>b, <1>1 DEF Silent, Pending, Live
  <2>3. t \in Silent(s, type) => t \in Silent(s, type)'
    BY <1>1, <2>1, <2>2
  <2> QED
    BY <1>6, <2>3
<1>8. ASSUME b.server_id = s, z.await_prepare_decision
      PROVE  Polled(s, "PREPARE", r.prepare_successes + r.prepare_failures,
                    z.prepare_successes + z.prepare_failures)
  <2>1. v.req.ballot = b /\ v.type = "PREPARE" => v.type = "PREPARE" /\ CountsPrepare(s, v)
    BY <1>2, <1>8, <1>b, <1>r DEF CountsPrepare
  <2>2. CASE v.type = "PREPARE" /\ CountsPrepare(s, v) /\ (Success(v, status) \/ Refused(v, status))
    <3>1. z.prepare_successes + z.prepare_failures = r.prepare_successes + r.prepare_failures + 1
      BY <1>2, <1>3, <1>5, <2>2 DEF Tally
    <3> QED
      BY <1>6, <3>1 DEF Polled
  <2>3. CASE ~(/\ v.type = "PREPARE" /\ CountsPrepare(s, v)
               /\ Success(v, status) \/ Refused(v, status))
    <3>1. z.prepare_successes + z.prepare_failures = r.prepare_successes + r.prepare_failures
      BY <1>2, <2>3 DEF Tally
    <3>2. Silent(s, "PREPARE") \subseteq Silent(s, "PREPARE")'
      BY <1>4, <1>7, <2>1, <2>3
    <3> QED
      BY <3>1, <3>2 DEF Polled
  <2> QED
    BY <2>2, <2>3
<1>9. ASSUME b.server_id = s, z.await_accept_decision
       PROVE  /\ acceptor'[s].accept_num.num = acceptor'[s].promised_num.num
              /\ Polled(s, "ACCEPT", r.accept_successes + r.accept_failures,
                        z.accept_successes + z.accept_failures)
  <2>0. acceptor[s].accept_num.num = b.num
    BY <1>a, <1>2, <1>9, <1>b, <1>r DEF PollOf
  <2>1. v.req.ballot = b /\ v.type = "ACCEPT" => v.type = "ACCEPT" /\ CountsAccept(s, v)
    BY <1>2, <1>9, <1>b, <1>r, <2>0 DEF CountsAccept
  <2>2. CASE v.type = "ACCEPT" /\ CountsAccept(s, v) /\ (Success(v, status) \/ Refused(v, status))
    <3>1. z.accept_successes + z.accept_failures = r.accept_successes + r.accept_failures + 1
      BY <1>2, <1>3, <1>5, <2>2 DEF Tally
    <3> QED
      BY <1>1, <1>6, <2>0, <3>1 DEF Polled
  <2>3. CASE ~(/\ v.type = "ACCEPT" /\ CountsAccept(s, v)
               /\ Success(v, status) \/ Refused(v, status))
    <3>1. z.accept_successes + z.accept_failures = r.accept_successes + r.accept_failures
      BY <1>2, <2>3 DEF Tally
    <3>2. Silent(s, "ACCEPT") \subseteq Silent(s, "ACCEPT")'
      BY <1>4, <1>7, <2>1, <2>3
    <3> QED
      BY <1>1, <2>0, <3>1, <3>2 DEF Polled
  <2> QED
    BY <2>2, <2>3
<1>10. acceptor'[s].promised_num.server_id = s => PollOf(s)'
  <2>1. ASSUME b.server_id = s PROVE PollOf(s)'
    <3>1. PollOf(s)
      BY <1>a, <1>b, <2>1
    <3> QED
      BY <1>2, <1>8, <1>9, <1>r, <1>z, <2>1, <3>1, PollGoesOn
  <2> QED
    BY <1>1, <2>1
<1>11. ASSUME NEW x \in Server \ {s}, acceptor'[x].promised_num.server_id = x PROVE PollOf(x)'
  <2>1. PollOf(x) /\ round'[x] = round[x] /\ acceptor'[x] = acceptor[x]
    BY <1>a, <1>1, <1>2, <1>11
  <2>2. \A y \in stubs(x) : chan'[x][y] = chan[x][y]
    BY <1>1, <1>11, ClusterIsOne
  <2>3. \A y \in stubs(x) : /\ Lasting(chan[x][y], chan'[x][y], "PREPARE")
                            /\ Lasting(chan[x][y], chan'[x][y], "ACCEPT")
    BY <2>2, KeptLasts
  <2> QED
    BY <1>1, <2>1, <2>3, PollKept
<1>12. AllAsking' /\ \A x \in Server : acceptor'[x].promised_num.server_id = x => PollOf(x)'
  BY <1>1, <1>10, <1>11
<1> QED
  BY <1>12 DEF PollInv, AllAsking, Asking

\* A step that leaves the rounds and the calls alone; servers may die in it.
LEMMA NothingPolled ==
    ASSUME TypeOK, PollInv, UNCHANGED <<acceptor, round, chan>>,
           \A x \in Server : crashed[x] => crashed'[x]
    PROVE  PollInv'
<1>1. AllAsking /\ \A x \in Server : acceptor[x].promised_num.server_id = x => PollOf(x)
  BY InvAsks
<1>2. ASSUME NEW x \in Server, acceptor'[x].promised_num.server_id = x PROVE PollOf(x)'
  <2>1. \A y \in stubs(x) : /\ crashed[y] => crashed'[y]
                            /\ Lasting(chan[x][y], chan'[x][y], "PREPARE")
                            /\ Lasting(chan[x][y], chan'[x][y], "ACCEPT")
    BY KeptLasts, ClusterIsOne
  <2> QED
    BY <1>1, <1>2, <2>1, PollKept
<1> QED
  BY <1>1, <1>2 DEF PollInv, AllAsking, Asking

LEMMA NextPolls == TypeOK /\ PollInv /\ [Next]_vars => PollInv'
<1> SUFFICES ASSUME TypeOK, PollInv, [Next]_vars PROVE PollInv'
  OBVIOUS
<1>1. CASE NextSet \/ MainThread \/ ConsumerThread \/ CoordinatorCrashes \/ UNCHANGED vars
  <2>1. UNCHANGED <<acceptor, round, chan, crashed>>
    BY <1>1 DEF NextSet, MainThread, IssueTransaction, DisconnectCall, ConsumerThread,
                CoordinatorCrashes, vars, serverVars
  <2> QED
    BY <2>1, NothingPolled
<1>2. ASSUME NEW s \in Server,
             HandleRPCs(s) \/ CallExpires(s) \/ CallRefused(s) \/ ServerCrashes(s)
      PROVE  PollInv'
  <2>0. \A t \in stubs(s) : t \in Server /\ t # s
    BY ClusterIsOne
  <2>1. ASSUME NEW tid \in Tid, runPaxos(s, tid) PROVE PollInv'
    BY <2>1, RunPaxosPolls
  <2>2. ASSUME NEW t \in stubs(s), NEW i,
               ReplyArrives(s, t, i) \/ Unavailable(s, t, i) \/ Expire(s, t, i)
        PROVE  PollInv'
    <3>1. PICK status, rest : CallOver(s, t, i, status, rest)
                              /\ HandleRPCResponse(s, t, i, status, rest)
      BY <2>2, EndsOfCalls
    <3> QED
      BY <3>1, EndedCallPolls
  <2>3. ASSUME NEW t \in stubs(s), NEW i,
               \/ processPrepareCall(t, s, i) \/ processAcceptCall(t, s, i)
               \/ processCommitCall(t, s, i) \/ processSyncCall(t, s, i)
        PROVE  PollInv'
    BY <2>0, <2>3, PeerPolls
  <2>4. ASSUME NEW d, processTpcDecision(d) PROVE PollInv'
    <3>1. UNCHANGED <<acceptor, round, chan, crashed>>
      BY <2>4 DEF processTpcDecision
    <3> QED
      BY <3>1, NothingPolled
  <2>5. CASE HandleRPCs(s)
    BY <2>1, <2>2, <2>3, <2>4, <2>5 DEF HandleRPCs
  <2>6. CASE CallExpires(s)
    BY <2>2, <2>6 DEF CallExpires
  <2>7. CASE CallRefused(s)
    <3>1. UNCHANGED <<acceptor, round, chan, crashed>>
      BY <2>7 DEF CallRefused, CallFails, serverVars
    <3> QED
      BY <3>1, NothingPolled
  <2>8. CASE ServerCrashes(s)
    <3>1. UNCHANGED <<acceptor, round, chan>> /\ crashed' = [crashed EXCEPT ![s] = TRUE]
      BY <2>8 DEF ServerCrashes, Crash
    <3>2. \A x \in Server : crashed[x] => crashed'[x]
      BY <3>1 DEF TypeOK, ServerTypeOK
    <3> QED
      BY <3>1, <3>2, NothingPolled
  <2> QED
    BY <1>2, <2>5, <2>6, <2>7, <2>8
<1> QED
  BY <1>1, <1>2 DEF Next

\* As long as a server has promised no other, every peer has been counted in its
\* round or has still to be, whoever leads, whatever is lost, late or overtaken and
\* whoever dies.
THEOREM PollInvariance == Spec => []PollInv
<1>1. Init => PollInv
  BY DEF Init, ServerInit, PollInv, PollOf
<1>2. AtomicityInv /\ PollInv /\ [Next]_vars => PollInv'
  BY NextPolls DEF AtomicityInv
<1> QED
  BY <1>1, <1>2, AnswersInvariance, PTL DEF Spec

\* A leader never waits for nothing: when all its calls have ended, with whatever
\* status, its tallies let the next runPaxos go on, unless so many of its peers are
\* dead that no tally need reach Majority, or it has promised another server since.
THEOREM WaitersAlwaysGetAnAnswer == Spec => []WaitersGetAnAnswer
<1>1. TypeOK /\ PollInv => WaitersGetAnAnswer
  <2> SUFFICES ASSUME TypeOK, PollInv, NEW s \in Server, ~crashed[s], EnoughAlive(s),
                      acceptor[s].promised_num.server_id = s,
                      \A t \in stubs(s) : \A i \in DOMAIN chan[s][t] : ~Live(s, t, i)
               PROVE  /\ round[s].await_prepare_decision =>
                            \/ round[s].prepare_successes >= Majority
                            \/ round[s].prepare_failures >= Majority
                      /\ round[s].await_accept_decision =>
                            \/ round[s].accept_successes >= Majority
                            \/ round[s].accept_failures >= Majority
    BY DEF WaitersGetAnAnswer
  <2>d. PICK dead : dead = {t \in stubs(s) : crashed[t]}
    OBVIOUS
  <2>1. \A type : Silent(s, type) = dead
    BY <2>d DEF Silent, Pending
  <2>2. /\ IsFiniteSet(Replicas(s)) /\ Cardinality(Replicas(s)) \in Nat
        /\ Cardinality(dead) \in Nat
        /\ Replicas(s) \cap dead = dead
        /\ {t \in Replicas(s) : ~crashed[t]} = Replicas(s) \ dead
    <3>1. dead \in SUBSET Replicas(s)
      BY <2>d DEF Replicas
    <3> QED
      BY <2>d, <3>1, ReplicasAreFinite DEF Replicas
  <2>3. Cardinality(Replicas(s) \ dead) = Cardinality(Replicas(s)) - Cardinality(dead)
    BY <2>2, FS_Difference
  <2>4. 2 * Majority =< Cardinality(Replicas(s)) - Cardinality(dead) + 1
    BY <2>2, <2>3 DEF EnoughAlive
  <2>5. /\ round[s].prepare_successes \in Nat /\ round[s].prepare_failures \in Nat
        /\ round[s].accept_successes \in Nat /\ round[s].accept_failures \in Nat
    BY Numbers DEF Round
  <2>6. PollOf(s)
    BY DEF PollInv
  <2>7. ASSUME NEW yes \in Nat, NEW no \in Nat,
               Cardinality(Replicas(s)) =< yes + no + Cardinality(dead)
        PROVE  yes >= Majority \/ no >= Majority
    BY <2>2, <2>4, <2>7, ServerAssumption
  <2> QED
    BY <2>1, <2>5, <2>6, <2>7 DEF PollOf
<1>2. AtomicityInv /\ PollInv => WaitersGetAnAnswer
  BY <1>1 DEF AtomicityInv
<1> QED
  BY <1>2, PollInvariance, AnswersInvariance, PTL

-----------------------------------------------------------------------------
(* What makes a server refuse calls *)

RoundOwned(s) == round[s].paxos_tid # NotRunning => <<s, round[s].paxos_tid>> \in inCalls

SyncWaited(s) ==
    in_sync[s] => \E t \in stubs(s) : \E i \in DOMAIN chan[s][t] :
                      chan[s][t][i].type = "SYNC" /\ chan[s][t][i].stage # "expired"

LEMMA OrphansSplit ==
    NoOrphanRound <=> \A s \in Server : ~crashed[s] => RoundOwned(s) /\ SyncWaited(s)
  BY DEF NoOrphanRound, RoundOwned, SyncWaited, Live

LEMMA SyncLasts ==
    ASSUME NEW s, SyncWaited(s), in_sync'[s] => in_sync[s],
           \A t \in stubs(s) : Lasting(chan[s][t], chan'[s][t], "SYNC")
    PROVE  SyncWaited(s)'
<1> SUFFICES ASSUME in_sync'[s]
             PROVE  \E t \in stubs(s) : \E i \in DOMAIN chan'[s][t] :
                       chan'[s][t][i].type = "SYNC" /\ chan'[s][t][i].stage # "expired"
  BY DEF SyncWaited
<1>1. PICK t \in stubs(s) : \E i \in DOMAIN chan[s][t] :
         chan[s][t][i].type = "SYNC" /\ chan[s][t][i].stage # "expired"
  BY DEF SyncWaited
<1>2. \E i \in DOMAIN chan'[s][t] : chan'[s][t][i].type = "SYNC" /\ chan'[s][t][i].stage # "expired"
  BY <1>1 DEF Lasting, SameCall
<1> QED
  BY <1>2

\* A round begins with a call and ends before or with its answer.
LEMMA RunPaxosOwns ==
    ASSUME TypeOK, AllAsking, NoOrphanRound, NEW l \in Server, NEW tid \in Tid, runPaxos(l, tid)
    PROVE  NoOrphanRound'
<1>0. AllLast
  BY RunPaxosQueues
<1>1. crashed' = crashed /\ in_sync' = in_sync
  BY DEF runPaxos, startRound, rejectTransaction, proposeTransaction, prepareFailed,
         chooseTransaction, acceptFailed
<1>2. ASSUME NEW s \in Server, SyncWaited(s) PROVE SyncWaited(s)'
  <2>1. \A t \in stubs(s) : Lasting(chan[s][t], chan'[s][t], "SYNC")
    BY <1>0, ClusterIsOne DEF AllLast
  <2> QED
    BY <1>1, <1>2, <2>1, SyncLasts
<1>3. /\ \A s \in Server \ {l} : round'[s] = round[s]
      /\ \A s \in Server \ {l}, u \in Tid : <<s, u>> \in inCalls => <<s, u>> \in inCalls'
      /\ \/ round'[l].paxos_tid = NotRunning
         \/ <<l, round'[l].paxos_tid>> \in inCalls'
  <2>1. CASE startRound(l, tid)
    <3>1. /\ <<l, tid>> \in inCalls /\ inCalls' = inCalls
          /\ round' = [round EXCEPT ![l].paxos_tid = tid, ![l].await_prepare_decision = TRUE,
                                    ![l].prepare_successes = 1, ![l].prepare_failures = 0]
      BY <2>1 DEF startRound, MayRun, rpcVars
    <3> QED
      BY <3>1, Numbers DEF Round
  <2>2. CASE proposeTransaction(l, tid)
    <3>1. /\ inCalls' = inCalls /\ ~crashed[l] /\ round[l].paxos_tid \in {NotRunning, tid}
          /\ <<l, tid>> \in inCalls
          /\ round' = [round EXCEPT ![l].await_prepare_decision = FALSE,
                                    ![l].await_accept_decision = TRUE,
                                    ![l].accept_successes = 1, ![l].accept_failures = 0]
      BY <2>2 DEF proposeTransaction, PrepareDecided, MayRun, rpcVars
    <3> QED
      BY <3>1, Numbers DEF Round
  <2>3. CASE ~startRound(l, tid) /\ ~proposeTransaction(l, tid)
    <3>1. EndRound(l) /\ inCalls' = inCalls \ {<<l, tid>>}
      BY <2>3 DEF runPaxos, rejectTransaction, prepareFailed, chooseTransaction, acceptFailed,
                  Finish
    <3> QED
      BY <3>1, Numbers DEF EndRound, Round
  <2> QED
    BY <2>1, <2>2, <2>3
<1>4. ASSUME NEW s \in Server, RoundOwned(s) PROVE RoundOwned(s)'
  <2>1. CASE s = l
    BY <1>3, <2>1 DEF RoundOwned
  <2>2. CASE s # l
    <3>1. round'[s].paxos_tid = round[s].paxos_tid /\ round[s].paxos_tid \in Tid \cup {NotRunning}
      BY <1>3, <2>2, Numbers DEF Round
    <3> QED
      BY <1>3, <1>4, <2>2, <3>1 DEF RoundOwned
  <2> QED
    BY <2>1, <2>2
<1>5. \A s \in Server : ~crashed'[s] => RoundOwned(s)' /\ SyncWaited(s)'
  BY <1>1, <1>2, <1>4, OrphansSplit
<1> QED
  BY <1>5 DEF NoOrphanRound, RoundOwned, SyncWaited, Live

\* processPrepareCall sets in_sync as it sends a Sync, the other handlers do not.
LEMMA PeerOwns ==
    ASSUME TypeOK, AllAsking, NoOrphanRound, NEW s \in Server, NEW t \in stubs(s), NEW i,
           \/ processPrepareCall(s, t, i) \/ processAcceptCall(s, t, i)
           \/ processCommitCall(s, t, i) \/ processSyncCall(s, t, i)
    PROVE  NoOrphanRound'
<1>t. t \in Server /\ s # t /\ s \in stubs(t)
  BY ClusterIsOne
<1>0. AllLast
  BY <1>t, PeerQueues
<1>1. crashed' = crashed /\ round' = round /\ inCalls' = inCalls
  BY DEF processPrepareCall, processAcceptCall, processCommitCall, processSyncCall, rpcVars
<1>c. PICK c : c = syncCall(last_inserted[t])
  OBVIOUS
<1>2. /\ \A x \in Server \ {t} : in_sync'[x] = in_sync[x]
      /\ \/ in_sync'[t] => in_sync[t]
         \/ chan'[t][s] = Append(chan[t][s], c)
  <2>1. CASE processPrepareCall(s, t, i)
    <3>1. PICK sync, res : /\ in_sync' = [in_sync EXCEPT ![t] = @ \/ sync]
                           /\ chan' = [chan EXCEPT ![s][t] = Answered(s, t, i, res),
                                        ![t][s] = IF sync THEN Append(@, c) ELSE @]
      BY <1>c, <2>1, Zenon DEF processPrepareCall
    <3>2. in_sync \in [Server -> BOOLEAN] /\ chan \in [Server -> [Server -> Seq(OutCall)]]
      BY Numbers
    <3>3. CASE sync
      <4>1. chan'[t][s] = Append(chan[t][s], c)
        BY <1>t, <3>1, <3>2, <3>3
      <4> QED
        BY <1>t, <3>1, <3>2, <4>1
    <3>4. CASE ~sync
      BY <1>t, <3>1, <3>2, <3>4
    <3> QED
      BY <3>3, <3>4
  <2>2. CASE processAcceptCall(s, t, i) \/ processCommitCall(s, t, i) \/ processSyncCall(s, t, i)
    BY <2>2 DEF processAcceptCall, processCommitCall, processSyncCall
  <2> QED
    BY <2>1, <2>2
<1>3. ASSUME NEW x \in Server, SyncWaited(x) PROVE SyncWaited(x)'
  <2>1. \A y \in stubs(x) : Lasting(chan[x][y], chan'[x][y], "SYNC")
    BY <1>0, <1>3, ClusterIsOne DEF AllLast
  <2>2. CASE in_sync'[x] => in_sync[x]
    BY <1>3, <2>1, <2>2, SyncLasts
  <2>3. CASE x = t /\ chan'[t][s] = Append(chan[t][s], c)
    <3>1. \E j \in DOMAIN Append(chan[t][s], c) : Append(chan[t][s], c)[j] = c
      <4>1. chan[t][s] \in Seq(OutCall)
        BY <1>t, Numbers
      <4> QED
        BY <4>1, AppendElements
    <3>2. c.type = "SYNC" /\ c.stage # "expired"
      BY <1>c DEF syncCall, NewCall
    <3> QED
      BY <1>t, <2>3, <3>1, <3>2 DEF SyncWaited
  <2> QED
    BY <1>2, <1>3, <2>2, <2>3
<1>4. \A x \in Server : ~crashed'[x] => RoundOwned(x)' /\ SyncWaited(x)'
  BY <1>1, <1>3, OrphansSplit DEF RoundOwned
<1> QED
  BY <1>4 DEF NoOrphanRound, RoundOwned, SyncWaited, Live

\* handleSyncReply clears in_sync, and handlePrepareReply sets it as it sends a Sync.
LEMMA EndedCallOwns ==
    ASSUME TypeOK, AllAsking, NoOrphanRound, NEW s \in Server, NEW t \in stubs(s), NEW i,
           NEW status, NEW rest,
           CallOver(s, t, i, status, rest), HandleRPCResponse(s, t, i, status, rest)
    PROVE  NoOrphanRound'
<1>t. t \in Server /\ \A x \in Server : \A y \in stubs(x) : y \in Server
  BY ClusterIsOne
<1>v. PICK v : v = chan[s][t][i]
  OBVIOUS
<1>1. /\ i \in DOMAIN chan[s][t] /\ crashed' = crashed
      /\ \A x, y \in Server : <<x, y>> # <<s, t>> => chan'[x][y] = chan[x][y]
      /\ \A k \in DOMAIN chan[s][t] \ {i} :
            \E j \in DOMAIN chan'[s][t] : chan'[s][t][j] = chan[s][t][k]
      /\ \A x \in Server \ {s} : in_sync'[x] = in_sync[x]
      /\ in_sync'[s] => \/ in_sync[s] /\ v.type # "SYNC"
                        \/ \E j \in DOMAIN chan'[s][t] :
                              chan'[s][t][j].type = "SYNC" /\ chan'[s][t][j].stage # "expired"
  BY <1>t, <1>v, EndOfCall
<1>2. inCalls' = inCalls /\ \A x \in Server : round'[x].paxos_tid = round[x].paxos_tid
  BY <1>t, AnswerTallies DEF HandleRPCResponse, rpcVars
<1>3. v.type # "SYNC" => Lasting(chan[s][t], chan'[s][t], "SYNC")
  BY <1>1, <1>v DEF Lasting, SameCall
<1>4. ASSUME NEW x \in Server, SyncWaited(x) PROVE SyncWaited(x)'
  <2>1. \A y \in stubs(x) : <<x, y>> # <<s, t>> => Lasting(chan[x][y], chan'[x][y], "SYNC")
    BY <1>1, <1>4, <1>t, KeptLasts
  <2>2. CASE x # s
    BY <1>1, <1>4, <2>1, <2>2, SyncLasts
  <2>3. CASE x = s /\ (in_sync'[s] => in_sync[s] /\ v.type # "SYNC")
    <3>1. CASE ~in_sync'[s]
      BY <2>3, <3>1 DEF SyncWaited
    <3>2. CASE in_sync'[s]
      BY <1>3, <1>4, <2>1, <2>3, <3>2, SyncLasts
    <3> QED
      BY <3>1, <3>2
  <2>4. CASE x = s /\ \E j \in DOMAIN chan'[s][t] :
                         chan'[s][t][j].type = "SYNC" /\ chan'[s][t][j].stage # "expired"
    BY <2>4 DEF SyncWaited
  <2> QED
    BY <1>1, <2>2, <2>3, <2>4
<1>5. \A x \in Server : ~crashed'[x] => RoundOwned(x)' /\ SyncWaited(x)'
  BY <1>1, <1>2, <1>4, OrphansSplit DEF RoundOwned
<1> QED
  BY <1>5 DEF NoOrphanRound, RoundOwned, SyncWaited, Live

\* A step that leaves the rounds and the calls alone, and ends no call of a server
\* that is alive.
LEMMA NothingOwned ==
    ASSUME NoOrphanRound, UNCHANGED <<round, in_sync, chan>>,
           \A x \in Server : crashed[x] => crashed'[x],
           \A x \in Server : \A tid :
               <<x, tid>> \in inCalls => <<x, tid>> \in inCalls' \/ crashed[x]
    PROVE  NoOrphanRound'
  BY DEF NoOrphanRound, Live

LEMMA NextOwns == TypeOK /\ PollInv /\ NoOrphanRound /\ [Next]_vars => NoOrphanRound'
<1> SUFFICES ASSUME TypeOK, PollInv, NoOrphanRound, [Next]_vars PROVE NoOrphanRound'
  OBVIOUS
<1>a. AllAsking
  BY InvAsks
<1>1. CASE NextSet \/ MainThread \/ ConsumerThread \/ CoordinatorCrashes \/ UNCHANGED vars
  <2>1. UNCHANGED <<round, in_sync, chan, crashed>>
    BY <1>1 DEF NextSet, MainThread, IssueTransaction, DisconnectCall, ConsumerThread,
                CoordinatorCrashes, vars, serverVars
  <2>2. inCalls \subseteq inCalls'
    BY <1>1 DEF NextSet, processNextSet, MainThread, IssueTransaction, processTransactions,
                sendTransaction, DisconnectCall, updateDisconnected, ConsumerThread,
                consumeReplies, consumePrepareReply, consumeTransferReply,
                CoordinatorCrashes, clientCrash, vars, rpcVars
  <2> QED
    BY <2>1, <2>2, NothingOwned
<1>2. ASSUME NEW s \in Server,
             HandleRPCs(s) \/ CallExpires(s) \/ CallRefused(s) \/ ServerCrashes(s)
      PROVE  NoOrphanRound'
  <2>1. ASSUME NEW tid \in Tid, runPaxos(s, tid) PROVE NoOrphanRound'
    BY <1>a, <2>1, RunPaxosOwns
  <2>2. ASSUME NEW t \in stubs(s), NEW i,
               ReplyArrives(s, t, i) \/ Unavailable(s, t, i) \/ Expire(s, t, i)
        PROVE  NoOrphanRound'
    <3>1. PICK status, rest : CallOver(s, t, i, status, rest)
                              /\ HandleRPCResponse(s, t, i, status, rest)
      BY <2>2, EndsOfCalls
    <3> QED
      BY <1>a, <3>1, EndedCallOwns
  <2>3. ASSUME NEW t \in stubs(s), NEW i,
               \/ processPrepareCall(t, s, i) \/ processAcceptCall(t, s, i)
               \/ processCommitCall(t, s, i) \/ processSyncCall(t, s, i)
        PROVE  NoOrphanRound'
    <3>1. t \in Server /\ s \in stubs(t)
      BY ClusterIsOne
    <3> QED
      BY <1>a, <2>3, <3>1, PeerOwns
  <2>4. ASSUME NEW d, processTpcDecision(d) PROVE NoOrphanRound'
    <3>1. UNCHANGED <<round, in_sync, chan, crashed, inCalls>>
      BY <2>4 DEF processTpcDecision
    <3> QED
      BY <3>1, NothingOwned
  <2>5. CASE HandleRPCs(s)
    BY <2>1, <2>2, <2>3, <2>4, <2>5 DEF HandleRPCs
  <2>6. CASE CallExpires(s)
    BY <2>2, <2>6 DEF CallExpires
  <2>7. CASE CallRefused(s)
    <3>1. PICK tid : /\ UNCHANGED <<round, in_sync, chan, crashed>> /\ crashed[s]
                     /\ inCalls' = inCalls \ {<<s, tid>>}
      BY <2>7 DEF CallRefused, CallFails, serverVars
    <3> QED
      BY <3>1, NothingOwned
  <2>8. CASE ServerCrashes(s)
    <3>1. /\ UNCHANGED <<round, in_sync, chan, inCalls>>
          /\ crashed' = [crashed EXCEPT ![s] = TRUE]
      BY <2>8 DEF ServerCrashes, Crash, rpcVars
    <3>2. \A x \in Server : crashed[x] => crashed'[x]
      BY <3>1 DEF TypeOK, ServerTypeOK
    <3> QED
      BY <3>1, <3>2, NothingOwned
  <2> QED
    BY <1>2, <2>5, <2>6, <2>7, <2>8
<1> QED
  BY <1>1, <1>2 DEF Next

\* What makes runPaxos turn calls away never outlives its cause: a round belongs to
\* an unanswered call, whose alarm runs it again, and in_sync to a Sync under way,
\* on every server that is alive and for any leaders and any faults.
THEOREM NoOrphanRounds == Spec => []NoOrphanRound
<1>1. Init => NoOrphanRound
  BY DEF Init, ServerInit, NoOrphanRound
<1>2. AtomicityInv /\ PollInv /\ NoOrphanRound /\ [Next]_vars => NoOrphanRound'
  BY NextOwns DEF AtomicityInv
<1> QED
  BY <1>1, <1>2, PollInvariance, AnswersInvariance, PTL DEF Spec

=============================================================================
