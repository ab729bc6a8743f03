--------------------------- MODULE StableLeader -----------------------------
(***************************************************************************)
(* The replication of a shard while its leader stays the same: why the     *)
(* replicas agree, and why an acknowledged transfer is never lost, up to   *)
(* the moment a replica logs an entry twice.                               *)
(*                                                                         *)
(* The code starts a round at ballot_num + 1, sends its last_inserted with *)
(* Prepare, and lets a peer that is behind catch up with Sync.  The values *)
(* a promise carries are ignored, so all of this is right only as long as  *)
(* the sets name one leader per cluster.  A replica compares the lengths   *)
(* of two logs and not what is in them, so it is right only as long as no  *)
(* log repeats an entry.  Nothing is assumed of the order or the timing of *)
(* calls.                                                                  *)
(***************************************************************************)
EXTENDS TpcRefinement

\* All sets name the same leaders, and no transaction crosses shards.
StableLeaders == \A i, j \in DOMAIN Sets : Sets[i].leaders = Sets[j].leaders

IntraShard == \A tid \in Tid : ~cross_shard(tid)

\* Majority is more than half of a cluster.
QuorumMajority == \A s \in Server : 2 * Majority > Cardinality(Replicas(s))

\* No replica has logged an entry twice.
LoggedOnce == \A s \in Server : IsInjective(log[s])

Leads(s) ==
    \E i \in DOMAIN Sets : Sets[i].leaders[getClusterIdFromServerId(s)] = s

Follows(f, l) == Leads(l) /\ f \in stubs(l)

IsLocal(s, tid) == SenderCluster(tid) = getClusterIdFromServerId(s)

-----------------------------------------------------------------------------
(* Who does what *)

\* Only leaders run Paxos and they never fall behind: a Sync goes from a
\* follower to its leader, all other calls the other way.
Roles ==
    /\ \A s \in Server, tid \in Tid :
          <<s, tid>> \in inCalls \/ SaidYes(s, tid) => Leads(s) /\ IsLocal(s, tid)
    /\ \A s \in Server :
          IF Leads(s) THEN ~in_sync[s]
          ELSE ~round[s].await_prepare_decision /\ ~round[s].await_accept_decision
    /\ \A s, t \in Server : \A i \in DOMAIN chan[s][t] :
          IF chan[s][t][i].type = "SYNC" THEN Follows(s, t) ELSE Follows(t, s)

-----------------------------------------------------------------------------
(* The leader *)

\* What l has proposed or chosen in ballot b, if anything, is tid.
IsProposal(l, b, tid) ==
    /\ b.num =< acceptor[l].accept_num.num
    /\ b.num = acceptor[l].accept_num.num =>
          b = acceptor[l].accept_num /\ tid = acceptor[l].accept_val
    /\ \A k \in DOMAIN log[l] :
          log[l][k].ballot.num = b.num => log[l][k].ballot = b /\ log[l][k].tid = tid

\* The log of l has len entries of ballots below n.
HasBelow(l, n, len) ==
    /\ len =< Len(log[l])
    /\ \A k \in DOMAIN log[l] : k > len <=> log[l][k].ballot.num >= n

\* The round of l is the one of its latest ballot, and a new one: nothing was
\* proposed in it while l waits for promises, nothing chosen while it waits
\* for acceptances.
LeaderRound(l) ==
    LET a == acceptor[l] IN
    /\ a.accept_num.num =< a.ballot_num
    /\ a.ballot_num # 0 => a.promised_num = [num |-> a.ballot_num, server_id |-> l]
    /\ round[l].await_prepare_decision =>
          a.accept_num.num < a.ballot_num /\ ~round[l].await_accept_decision
    /\ round[l].await_accept_decision =>
          /\ a.accept_num = a.promised_num /\ a.accepted
          /\ a.accept_val = round[l].paxos_tid
          /\ HasBelow(l, a.ballot_num, Len(log[l]))

\* The log of l has one entry per ballot, in the order of the ballots.
LeaderLog(l) ==
    /\ \A k \in DOMAIN log[l] :
          /\ log[l][k].ballot.num =< acceptor[l].accept_num.num
          /\ log[l][k].status = "COMMITTED"
          /\ log[l][k].ballot.num = acceptor[l].accept_num.num =>
                log[l][k].ballot = acceptor[l].accept_num
                /\ log[l][k].tid = acceptor[l].accept_val
    /\ \A j, k \in DOMAIN log[l] : j < k => log[l][j].ballot.num < log[l][k].ballot.num
    /\ log[l] # <<>> => last_inserted_ballot[l] = log[l][Len(log[l])].ballot

-----------------------------------------------------------------------------
(* A follower *)

\* The log of f is the beginning of that of l, and what is missing is not
\* older than the ballots f has seen.
FollowerLog(l, f) ==
    /\ Len(log[f]) =< Len(log[l])
    /\ \A k \in DOMAIN log[f] : log[f][k] = log[l][k]
    /\ \A k \in DOMAIN log[l] :
          k > Len(log[f]) => log[l][k].ballot.num >= acceptor[f].ballot_num

\* f has promised and accepted nothing but what l sent.
FollowerBallots(l, f) ==
    LET a == acceptor[f] IN
    /\ a.accept_num.num =< a.promised_num.num
    /\ a.promised_num.num =< a.ballot_num
    /\ a.ballot_num =< acceptor[l].ballot_num
    /\ a.accept_num.num # 0 => IsProposal(l, a.accept_num, a.accept_val) /\ IsLocal(f, a.accept_val)

\* What a call of l to f says is still true of l, however late it is.
CallSound(l, f, c) ==
    LET n == c.req.ballot.num IN
    /\ n =< acceptor[l].ballot_num
    /\ c.type = "PREPARE" =>
          /\ HasBelow(l, n, c.req.last_inserted + 1)
          /\ c.res.latest_ballot_num # NoLatest =>
                n =< c.res.latest_ballot_num
                /\ c.res.latest_ballot_num =< acceptor[l].ballot_num
          /\ c.res.last_inserted =< last_inserted[l]
    /\ c.type = "ACCEPT" => IsProposal(l, c.req.ballot, c.req.r) /\ IsLocal(f, c.req.r)
    /\ c.type = "COMMIT" =>
          /\ c.stage = "request"
          /\ \E k \in DOMAIN log[l] : log[l][k].ballot.num = n

\* Calls are sent in the order of the ballots, one of each kind.
InOrder(c, d) ==
    /\ c.req.ballot.num =< d.req.ballot.num
    /\ c.req.ballot.num = d.req.ballot.num => c.type # d.type

\* A Sync of f to l asks for what follows the log f had, and its reply brings
\* entries of l from there on.  By then f may have got them in another way.
SyncSound(l, f, c) ==
    LET from == c.req.last_inserted + 1 IN
    /\ from =< Len(log[f])
    /\ c.stage = "reply" /\ c.res.ack =>
          /\ c.res.logs # <<>>
          /\ from + Len(c.res.logs) =< Len(log[l])
          /\ \A k \in DOMAIN c.res.logs : c.res.logs[k] = log[l][from + k]
          /\ c.res.last_inserted_ballot = log[l][from + Len(c.res.logs)].ballot

CallsSound(l, f) ==
    /\ \A i \in DOMAIN chan[l][f] : CallSound(l, f, chan[l][f][i])
    /\ \A i, j \in DOMAIN chan[l][f] : i < j => InOrder(chan[l][f][i], chan[l][f][j])

SyncsSound(l, f) == \A i \in DOMAIN chan[f][l] : SyncSound(l, f, chan[f][l][i])

Link(l, f) ==
    /\ FollowerLog(l, f)
    /\ FollowerBallots(l, f)
    /\ CallsSound(l, f)
    /\ SyncsSound(l, f)

\* Nothing is logged in a cluster that never had a leader.
Led(s) == log[s] = <<>> \/ \E l \in Replicas(s) : Leads(l)

Replicated ==
    /\ Roles
    /\ \A s \in Server : last_inserted[s] = Len(log[s]) - 1 /\ Led(s)
    /\ \A l \in Server : Leads(l) => /\ LeaderRound(l)
                                     /\ LeaderLog(l)
                                     /\ \A f \in stubs(l) : Link(l, f)

\* The replicas of a shard are at most the calls in flight behind their leader, as
\* long as no Commit or Sync reply has brought a replica what it had: the inductive
\* strengthening of AgreeUnlessRepeated and BallotsGrowUnlessRepeated.
ReplicationInv == LoggedOnce => Replicated

-----------------------------------------------------------------------------
(* Quorums *)

\* f has yet to answer the Accept call for ballot n of l.
Unanswered(l, f, n) ==
    \E i \in DOMAIN chan[l][f] : /\ chan[l][f][i].type = "ACCEPT"
                                 /\ chan[l][f][i].req.ballot.num = n
                                 /\ Live(l, f, i)

\* Replica x accepted in ballot n, and l has its answer.
Voted(l, x, n) ==
    /\ acceptor[x].accepted /\ acceptor[x].accept_num.num = n
    /\ x # l => ~Unanswered(l, x, n)

\* Replica x has the k-th entry of l, or will when it learns that it was chosen.
Holds(l, x, k) ==
    \/ k =< Len(log[x])
    \/ acceptor[x].accepted /\ acceptor[x].accept_num = log[l][k].ballot

Voters(l, n) == {x \in Replicas(l) : Voted(l, x, n)}
EntryHolders(l, k) == {x \in Replicas(l) : Holds(l, x, k)}

\* An acceptance on its way to l still stands.
Standing(l, f) ==
    round[l].await_accept_decision =>
        \A i \in DOMAIN chan[l][f] :
            /\ chan[l][f][i].type = "ACCEPT" /\ chan[l][f][i].stage = "reply"
            /\ chan[l][f][i].res.ack
            /\ chan[l][f][i].req.ballot.num = acceptor[l].ballot_num
            => /\ acceptor[f].accepted
               /\ acceptor[f].accept_num.num = acceptor[l].ballot_num

QuorumOf(l) ==
    /\ round[l].await_accept_decision =>
          round[l].accept_successes =< Cardinality(Voters(l, acceptor[l].ballot_num))
    /\ \A k \in DOMAIN log[l] :
          log[l][k].ballot.num # 0 /\ Majority =< Cardinality(EntryHolders(l, k))
    /\ \A f \in stubs(l) : Standing(l, f)

Quorate == \A l \in Server : Leads(l) => QuorumOf(l)

\* No vote is counted twice or for another ballot, and every chosen entry has its
\* majority from then on: the inductive strengthening of DurableUnlessRepeated.
QuorumInv == LoggedOnce => Quorate

-----------------------------------------------------------------------------
(* Properties *)

\* Every cluster agrees on one order until a replica logs an entry twice, whatever
\* calls are lost, late or overtaken and however many Syncs are under way.
AgreeUnlessRepeated == LoggedOnce => ReplicasAgreeOnOrder

\* An acknowledged transfer is held by a majority until a replica logs an entry
\* twice; then a promise, which compares the lengths of logs, says too much.
DurableUnlessRepeated == LoggedOnce => AckedSurvives

\* No server goes back to a smaller ballot number, which it takes from Sync
\* replies and from promises refused, but in a step that repeats an entry.
BallotsGrowUnlessRepeated ==
    [][LoggedOnce' =>
          \A s \in Server : acceptor'[s].ballot_num >= acceptor[s].ballot_num]_vars

=============================================================================
