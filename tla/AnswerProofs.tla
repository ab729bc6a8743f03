---------------------------- MODULE AnswerProofs ----------------------------
(***************************************************************************)
(* What the answers of the servers stand for, for any number of clusters,  *)
(* servers and transactions: a yes for an entry in the log of the server   *)
(* that gave it, a commit for a PREPARED entry on both sides.              *)
(***************************************************************************)
EXTENDS TpcRefinementProofs

-----------------------------------------------------------------------------
(* The inductive invariant *)

\* A round that waits for votes is the round of one transaction, and when it is
\* cross-shard its leader prepared it before it asked for acceptance.
RoundsLogged ==
    \A s \in Server :
        /\ round[s].await_prepare_decision \/ round[s].await_accept_decision
              => round[s].paxos_tid # NotRunning
        /\ round[s].await_accept_decision /\ cross_shard(round[s].paxos_tid)
              => InLog(s, round[s].paxos_tid, "PREPARED")

AnswerInv == RoundsLogged /\ AnswersAreLogged

\* What a step that appends to a log keeps.
LogsKept == \A s \in Server : \A tid, st : InLog(s, tid, st) => InLog(s, tid, st)'

\* No entry leaves a log.
LEMMA GrowingKeeps ==
    ASSUME OneLogGrows
    PROVE  LogsKept
  BY DEF OneLogGrows, LogsKept, InLog

\* What may become of the round of a server: it goes on, it ends, it starts with a
\* Prepare, or its leader, which has prepared the transaction, asks for acceptance.
RoundStep(s) ==
    LET r == round[s]
        n == round'[s]
    IN
    \/ /\ n.paxos_tid = r.paxos_tid
       /\ n.await_prepare_decision => r.await_prepare_decision
       /\ n.await_accept_decision => r.await_accept_decision
    \/ ~n.await_prepare_decision /\ ~n.await_accept_decision
    \/ n.paxos_tid \in Tid /\ ~n.await_accept_decision
    \/ /\ n.paxos_tid \in Tid
       /\ cross_shard(n.paxos_tid) => InLog(s, round[s].paxos_tid, "PREPARED")'

\* A transaction has no negative tid.
LEMMA TidRuns == \A tid \in Tid : tid # NotRunning
  BY TxnAssumption DEF NotRunning

\* These are the changes of a round that the invariant allows.
LEMMA RoundStepKeeps ==
    ASSUME RoundsLogged, LogsKept, \A s \in Server : RoundStep(s)
    PROVE  RoundsLogged'
<1> SUFFICES ASSUME NEW s \in Server
             PROVE  /\ round'[s].await_prepare_decision \/ round'[s].await_accept_decision
                          => round'[s].paxos_tid # NotRunning
                    /\ round'[s].await_accept_decision /\ cross_shard(round'[s].paxos_tid)
                          => InLog(s, round[s].paxos_tid, "PREPARED")'
  BY DEF RoundsLogged
<1> DEFINE r == round[s]
           n == round'[s]
<1>1. RoundStep(s)
  OBVIOUS
<1>2. /\ r.await_prepare_decision \/ r.await_accept_decision => r.paxos_tid # NotRunning
      /\ r.await_accept_decision /\ cross_shard(r.paxos_tid) =>
            InLog(s, r.paxos_tid, "PREPARED")
  BY DEF RoundsLogged
<1>3. CASE /\ n.paxos_tid = r.paxos_tid
           /\ n.await_prepare_decision => r.await_prepare_decision
           /\ n.await_accept_decision => r.await_accept_decision
  BY <1>2, <1>3 DEF LogsKept
<1>4. CASE ~n.await_prepare_decision /\ ~n.await_accept_decision
  BY <1>4
<1>5. CASE n.paxos_tid \in Tid /\ ~n.await_accept_decision
  BY <1>5, TidRuns
<1>6. CASE /\ n.paxos_tid \in Tid
           /\ cross_shard(n.paxos_tid) => InLog(s, round[s].paxos_tid, "PREPARED")'
  BY <1>6, TidRuns
<1> QED
  BY <1>1, <1>3, <1>4, <1>5, <1>6 DEF RoundStep

\* The answers given before stay logged.
LEMMA AnswersKept ==
    ASSUME AnswersAreLogged, LogsKept,
           \A s \in Server, tid \in Tid : SaidYes(s, tid)' => SaidYes(s, tid)
    PROVE  AnswersAreLogged'
  BY DEF AnswersAreLogged, LogsKept

\* A step in which no server answers yes and no round changes.
LEMMA NoAnswer ==
    ASSUME AnswerInv, LogsKept, round' = round,
           \A s \in Server, tid \in Tid : SaidYes(s, tid)' => SaidYes(s, tid)
    PROVE  AnswerInv'
<1>1. \A s \in Server : RoundStep(s)
  BY DEF RoundStep
<1> QED
  BY <1>1, RoundStepKeeps, AnswersKept DEF AnswerInv

-----------------------------------------------------------------------------
(* The steps *)

\* EndRound leaves the rounds of the others alone.
LEMMA EndRoundStep ==
    ASSUME AtomicityInv, NEW s \in Server, EndRound(s)
    PROVE  \A t \in Server : RoundStep(t)
<1>1. round \in [Server -> Round]
  BY ServerParts
<1>2. \A t \in Server : t # s => round'[t] = round[t]
  BY <1>1 DEF EndRound
<1>3. ~round'[s].await_prepare_decision /\ ~round'[s].await_accept_decision
  BY <1>1 DEF EndRound, Round
<1> QED
  BY <1>2, <1>3 DEF RoundStep

\* Finish with ack FALSE is no yes.
LEMMA FinishNo ==
    ASSUME NEW s \in Server, NEW tid \in Tid, Finish(s, tid, FALSE), acked' = acked
    PROVE  \A t \in Server, u \in Tid : SaidYes(t, u)' => SaidYes(t, u)
<1> DEFINE n == [from |-> s, tid |-> tid, ok |-> TRUE, ack |-> FALSE]
<1>1. n.ack = FALSE /\ replies' = replies \cup {n}
  BY DEF Finish
<1> HIDE DEF n
<1> QED
  BY <1>1 DEF SaidYes

\* runPaxos: the yes of a cross-shard transaction is the end of the very round in
\* which it was prepared, that of an intra-shard one commits it in the same step.
LEMMA RunPaxosAnswers ==
    ASSUME AtomicityInv, AnswerInv, NEW s \in Server, NEW tid \in Tid, runPaxos(s, tid),
           UNCHANGED clientVars
    PROVE  AnswerInv'
<1>0. /\ acked' = acked /\ LogsKept /\ round \in [Server -> Round]
      /\ log \in [Server -> Seq(WALEntry)] /\ acceptor \in [Server -> Acceptor]
  <2>1. OneLogGrows
    BY RunPaxosSeen DEF ClientSees
  <2> QED
    BY <2>1, GrowingKeeps DEF clientVars, AtomicityInv, TypeOK, ServerTypeOK
<1>1. CASE startRound(s, tid)
  <2>1. \A t \in Server, u \in Tid : SaidYes(t, u)' => SaidYes(t, u)
    BY <1>0, <1>1 DEF startRound, rpcVars, SaidYes
  <2>2. \A t \in Server : t # s => round'[t] = round[t]
    BY <1>0, <1>1 DEF startRound
  <2>3. round'[s].paxos_tid \in Tid /\ ~round'[s].await_accept_decision
    BY <1>0, <1>1 DEF startRound, Round
  <2>4. \A t \in Server : RoundStep(t)
    BY <2>2, <2>3 DEF RoundStep
  <2> QED
    BY <1>0, <2>1, <2>4, RoundStepKeeps, AnswersKept DEF AnswerInv
<1>2. CASE rejectTransaction(s, tid) \/ prepareFailed(s, tid) \/ acceptFailed(s, tid)
  <2>1. EndRound(s) /\ Finish(s, tid, FALSE)
    BY <1>2 DEF rejectTransaction, prepareFailed, acceptFailed
  <2> QED
    BY <1>0, <2>1, EndRoundStep, FinishNo, RoundStepKeeps, AnswersKept DEF AnswerInv
<1>3. CASE proposeTransaction(s, tid)
  <2> DEFINE e == Entry(tid, acceptor[s].promised_num, "PREPARED")
  <2>1. \A t \in Server, u \in Tid : SaidYes(t, u)' => SaidYes(t, u)
    BY <1>0, <1>3 DEF proposeTransaction, rpcVars, SaidYes
  <2>2. \A t \in Server : t # s => round'[t] = round[t]
    BY <1>0, <1>3 DEF proposeTransaction
  <2>3. round[s].paxos_tid = tid
    BY <1>3 DEF proposeTransaction, PrepareDecided, MayRun, AnswerInv, RoundsLogged
  <2>4. round'[s].paxos_tid = tid
    BY <1>0, <1>3, <2>3 DEF proposeTransaction, Round
  <2>5. cross_shard(tid) => InLog(s, tid, "PREPARED")'
    <3> SUFFICES ASSUME cross_shard(tid) PROVE InLog(s, tid, "PREPARED")'
      OBVIOUS
    <3>1. log' = [log EXCEPT ![s] = Append(@, e)]
      BY <1>3 DEF proposeTransaction, prepareTransaction
    <3>2. log'[s] = Append(log[s], e)
      BY <1>0, <3>1
    <3>3. Len(log[s]) + 1 \in DOMAIN log'[s] /\ log'[s][Len(log[s]) + 1] = e
      BY <1>0, <3>2
    <3>4. e.tid = tid /\ e.status = "PREPARED"
      BY DEF Entry
    <3> QED
      BY <3>3, <3>4 DEF InLog
  <2>6. \A t \in Server : RoundStep(t)
    BY <2>2, <2>4, <2>5 DEF RoundStep
  <2> QED
    BY <1>0, <2>1, <2>6, RoundStepKeeps, AnswersKept DEF AnswerInv
<1>4. CASE chooseTransaction(s, tid)
  <2> DEFINE e == Entry(tid, acceptor[s].accept_num, "COMMITTED")
             n == [from |-> s, tid |-> tid, ok |-> TRUE, ack |-> TRUE]
             st == IF cross_shard(tid) THEN "PREPARED" ELSE "COMMITTED"
  <2>1. EndRound(s) /\ Finish(s, tid, TRUE)
    BY <1>4 DEF chooseTransaction
  <2>2. RoundsLogged'
    BY <1>0, <2>1, EndRoundStep, RoundStepKeeps DEF AnswerInv
  <2>3. InLog(s, tid, st)'
    <3>1. CASE cross_shard(tid)
      <4>1. round[s].paxos_tid = tid /\ round[s].await_accept_decision
        BY <1>4 DEF chooseTransaction, AcceptDecided, MayRun, AnswerInv, RoundsLogged
      <4>2. InLog(s, tid, "PREPARED")
        BY <3>1, <4>1 DEF AnswerInv, RoundsLogged
      <4> QED
        BY <1>0, <3>1, <4>2 DEF LogsKept
    <3>2. CASE ~cross_shard(tid)
      <4>1. log' = [log EXCEPT ![s] = Append(@, e)]
        BY <1>4, <3>2 DEF chooseTransaction, commitTransaction
      <4>2. log'[s] = Append(log[s], e)
        BY <1>0, <4>1
      <4>3. Len(log[s]) + 1 \in DOMAIN log'[s] /\ log'[s][Len(log[s]) + 1] = e
        BY <1>0, <4>2
      <4>4. e.tid = tid /\ e.status = "COMMITTED"
        BY DEF Entry
      <4> QED
        BY <3>2, <4>3, <4>4 DEF InLog
    <3> QED
      BY <3>1, <3>2
  <2>4. \A t \in Server, u \in Tid : SaidYes(t, u)' => SaidYes(t, u) \/ (t = s /\ u = tid)
    <3>1. n.from = s /\ n.tid = tid /\ replies' = replies \cup {n}
      BY <2>1 DEF Finish
    <3> HIDE DEF n
    <3> QED
      BY <1>0, <3>1 DEF SaidYes
  <2>5. AnswersAreLogged'
    BY <1>0, <2>3, <2>4 DEF AnswerInv, AnswersAreLogged, LogsKept
  <2> QED
    BY <2>2, <2>5 DEF AnswerInv
<1> QED
  BY <1>1, <1>2, <1>3, <1>4 DEF runPaxos

\* The end of a call to a peer may give up a round, or count for it.
LEMMA OutCallAnswers ==
    ASSUME AtomicityInv, AnswerInv, NEW s \in Server, NEW t \in Server,
           NEW i \in DOMAIN chan[s][t],
           ReplyArrives(s, t, i) \/ Unavailable(s, t, i) \/ Expire(s, t, i),
           UNCHANGED clientVars
    PROVE  AnswerInv'
<1> DEFINE c == chan[s][t][i]
<1>0. acked' = acked /\ LogsKept /\ round \in [Server -> Round]
  <2>1. OneLogGrows
    BY OutCallSeen DEF ClientSees
  <2> QED
    BY <2>1, GrowingKeeps DEF clientVars, AtomicityInv, TypeOK, ServerTypeOK
<1>1. PICK status, rest : HandleRPCResponse(s, t, i, status, rest)
  BY DEF ReplyArrives, Unavailable, Expire
<1>2. \A x \in Server, u \in Tid : SaidYes(x, u)' => SaidYes(x, u)
  BY <1>0, <1>1 DEF HandleRPCResponse, rpcVars, SaidYes
<1>3. \A x \in Server : RoundStep(x)
  <2>1. CASE round' = round
    BY <2>1 DEF RoundStep
  <2>2. CASE handlePrepareReply(s, t, c, status, rest)
    <3> DEFINE counted == /\ round[s].await_prepare_decision
                          /\ c.req.ballot.num = acceptor[s].promised_num.num
                          /\ c.req.ballot.server_id = s
               replied == counted /\ status = "OK"
               newer   == replied /\ c.res.latest_ballot_num # NoLatest
               behind  == /\ replied
                          /\ c.res.last_inserted # NoInserted
                          /\ c.res.last_inserted > last_inserted[s]
               failed  == counted /\ Refused(c, status)
               yes     == replied /\ c.res.ack
    <3>0. round' = [round EXCEPT
                      ![s].prepare_successes = IF yes THEN @ + 1 ELSE @,
                      ![s].prepare_failures = IF failed THEN @ + 1 ELSE @,
                      ![s].await_prepare_decision = @ /\ ~newer /\ ~behind]
      BY <2>2, Zenon DEF handlePrepareReply
    <3> HIDE DEF counted, replied, newer, behind, failed, yes
    <3>1. \A x \in Server : x # s => round'[x] = round[x]
      BY <1>0, <3>0
    <3>2. /\ round'[s].paxos_tid = round[s].paxos_tid
          /\ round'[s].await_prepare_decision => round[s].await_prepare_decision
          /\ round'[s].await_accept_decision => round[s].await_accept_decision
      BY <1>0, <3>0 DEF Round
    <3> QED
      BY <3>1, <3>2 DEF RoundStep
  <2>3. CASE handleAcceptReply(s, t, c, status, rest)
    <3> DEFINE counted == /\ round[s].await_accept_decision
                          /\ c.req.ballot.num = acceptor[s].accept_num.num
                          /\ c.req.ballot.server_id = s
               replied == counted /\ status = "OK"
               failed  == counted /\ Refused(c, status)
               yes     == replied /\ c.res.ack
    <3>0. round' = [round EXCEPT
                      ![s].accept_successes = IF yes THEN @ + 1 ELSE @,
                      ![s].accept_failures = IF failed THEN @ + 1 ELSE @]
      BY <2>3 DEF handleAcceptReply
    <3> HIDE DEF counted, replied, failed, yes
    <3>1. \A x \in Server : x # s => round'[x] = round[x]
      BY <1>0, <3>0
    <3>2. /\ round'[s].paxos_tid = round[s].paxos_tid
          /\ round'[s].await_prepare_decision => round[s].await_prepare_decision
          /\ round'[s].await_accept_decision => round[s].await_accept_decision
      BY <1>0, <3>0 DEF Round
    <3> QED
      BY <3>1, <3>2 DEF RoundStep
  <2> QED
    BY <1>1, <2>1, <2>2, <2>3, Zenon DEF HandleRPCResponse, handleSyncReply
<1> QED
  BY <1>0, <1>2, <1>3, RoundStepKeeps, AnswersKept DEF AnswerInv

\* Every step of the system keeps the invariant.
LEMMA NextAnswers == AtomicityInv /\ AnswerInv /\ [Next]_vars => AnswerInv'
<1> SUFFICES ASSUME AtomicityInv, AnswerInv, [Next]_vars PROVE AnswerInv'
  OBVIOUS
<1>1. CASE NextSet \/ MainThread \/ ConsumerThread \/ CoordinatorCrashes \/ UNCHANGED vars
  <2>1. round' = round /\ log' = log
    BY <1>1 DEF NextSet, MainThread, IssueTransaction, DisconnectCall, ConsumerThread,
                CoordinatorCrashes, vars, serverVars, storeVars
  <2>2. \A s \in Server, tid \in Tid : SaidYes(s, tid)' => SaidYes(s, tid)
    <3>1. CASE ConsumerThread
      BY <3>1 DEF ConsumerThread, consumeReplies, consumePrepareReply, consumeTransferReply,
                  SaidYes
    <3>2. CASE NextSet \/ MainThread \/ CoordinatorCrashes \/ UNCHANGED vars
      <4>1. replies' = replies /\ acked' = acked
        BY <3>2 DEF NextSet, processNextSet, MainThread, IssueTransaction,
                    processTransactions, sendTransaction, DisconnectCall, updateDisconnected,
                    CoordinatorCrashes, clientCrash, vars, rpcVars, clientVars
      <4> QED
        BY <4>1 DEF SaidYes
    <3> QED
      BY <1>1, <3>1, <3>2
  <2> QED
    BY <2>1, <2>2, NoAnswer DEF LogsKept, InLog
<1>2. ASSUME NEW s \in Server,
             HandleRPCs(s) \/ CallExpires(s) \/ CallRefused(s) \/ ServerCrashes(s)
      PROVE  AnswerInv'
  <2>0. /\ UNCHANGED clientVars /\ stubs(s) \subseteq Server
        /\ LogsKept /\ acked' = acked
    BY <1>2, StubsAreServers, ServerSeen, GrowingKeeps DEF ClientSees, clientVars
  <2>1. ASSUME NEW tid \in Tid, runPaxos(s, tid) PROVE AnswerInv'
    BY <2>0, <2>1, RunPaxosAnswers
  <2>2. ASSUME NEW t \in stubs(s), NEW i \in DOMAIN chan[s][t],
               ReplyArrives(s, t, i) \/ Unavailable(s, t, i) \/ Expire(s, t, i)
        PROVE  AnswerInv'
    BY <2>0, <2>2, OutCallAnswers
  <2>3. ASSUME replies' = replies, round' = round PROVE AnswerInv'
    BY <2>0, <2>3, NoAnswer DEF SaidYes
  <2>4. ASSUME NEW t, NEW i,
               \/ processPrepareCall(t, s, i) \/ processAcceptCall(t, s, i)
               \/ processCommitCall(t, s, i) \/ processSyncCall(t, s, i)
        PROVE  AnswerInv'
    BY <2>3, <2>4 DEF processPrepareCall, processAcceptCall, processCommitCall,
                      processSyncCall, rpcVars
  <2>5. ASSUME NEW d, processTpcDecision(d) PROVE AnswerInv'
    BY <2>3, <2>5 DEF processTpcDecision
  <2>6. CASE HandleRPCs(s)
    BY <2>1, <2>2, <2>4, <2>5, <2>6 DEF HandleRPCs
  <2>7. CASE CallExpires(s)
    BY <2>2, <2>7 DEF CallExpires
  <2>8. CASE ServerCrashes(s)
    BY <2>3, <2>8 DEF ServerCrashes, Crash, rpcVars
  <2>9. CASE CallRefused(s)
    <3>1. PICK tid \in Tid : CallFails(s, tid)
      BY <2>9 DEF CallRefused
    <3> DEFINE n == [from |-> s, tid |-> tid, ok |-> FALSE, ack |-> FALSE]
    <3>2. replies' = replies \cup {n} /\ round' = round /\ n.ok = FALSE
      BY <3>1 DEF CallFails, serverVars
    <3> HIDE DEF n
    <3>3. \A t \in Server, u \in Tid : SaidYes(t, u)' => SaidYes(t, u)
      BY <2>0, <3>2 DEF SaidYes
    <3> QED
      BY <2>0, <3>2, <3>3, NoAnswer
  <2> QED
    BY <1>2, <2>6, <2>7, <2>8, <2>9
<1> QED
  BY <1>1, <1>2 DEF Next

\* Nobody has answered and no round runs at the start.
LEMMA InitAnswers == Init => AnswerInv
<1> SUFFICES ASSUME Init PROVE AnswerInv
  OBVIOUS
<1>1. \A s \in Server : ~round[s].await_prepare_decision /\ ~round[s].await_accept_decision
  BY DEF Init, ServerInit
<1>2. RoundsLogged
  BY <1>1 DEF RoundsLogged
<1>3. \A s \in Server, tid \in Tid : ~SaidYes(s, tid)
  BY DEF Init, RpcInit, ClientInit, SaidYes
<1> QED
  BY <1>2, <1>3 DEF AnswerInv, AnswersAreLogged

-----------------------------------------------------------------------------
(* What a commit stands for *)

\* A commit has the yes votes of both clusters, before and after it was decided.
CommitHasVotes ==
    \A tid \in CrossTid : outcome[tid] = "commit" =>
        \A c \in TouchedClusters(tid) : <<c, tid>> \in Yes

\* A transaction is committed only when, in each of the two clusters, the leader
\* that the client asked has it PREPARED in its own log.
CommitIsPrepared ==
    \A tid \in CrossTid : outcome[tid] = "commit" =>
        \A c \in TouchedClusters(tid) :
            \E s \in Server : ClusterOf(s) = c /\ InLog(s, tid, "PREPARED")

\* The abstract steps keep the votes of a commit: none takes a vote back.
LEMMA NextCommitHasVotes ==
    AtomicityInv /\ VoteInv /\ AtomicityInv' /\ CommitHasVotes /\ [Next]_vars
        => CommitHasVotes'
<1> SUFFICES ASSUME AtomicityInv, VoteInv, AtomicityInv', CommitHasVotes, [Next]_vars
             PROVE  CommitHasVotes'
  OBVIOUS
<1> DEFINE D == [t \in CrossTid |-> outcome[t]]
<1>0. \A t \in CrossTid : D[t] = outcome[t] /\ D'[t] = outcome'[t]
  OBVIOUS
<1>1. ASSUME D' = D, Yes \subseteq Yes' PROVE CommitHasVotes'
  <2>1. \A t \in CrossTid : outcome'[t] = outcome[t]
    BY <1>0, <1>1
  <2> QED
    BY <1>1, <2>1 DEF CommitHasVotes
<1>2. ASSUME NEW s \in Server, Commitment!Learn(s) PROVE CommitHasVotes'
  BY <1>1, <1>2 DEF Commitment!Learn, Yes
<1>3. ASSUME NEW x \in CrossTid, Commitment!Vote(x) PROVE CommitHasVotes'
  BY <1>1, <1>3 DEF Commitment!Vote, Yes
<1>4. ASSUME NEW x \in CrossTid, Commitment!Decide(x) PROVE CommitHasVotes'
  <2>1. /\ Yes' = Yes
        /\ D' = [D EXCEPT ![x] = IF Commitment!VotedByAll(x) THEN "commit" ELSE "abort"]
    BY <1>4 DEF Commitment!Decide, Yes
  <2>2. Commitment!VotedByAll(x) => \A c \in TouchedClusters(x) : <<c, x>> \in Yes
    BY DEF Commitment!VotedByAll, TouchedClusters, Yes
  <2>3. outcome'[x] = "commit" => Commitment!VotedByAll(x)
    BY <1>0, <2>1
  <2>4. \A t \in CrossTid : t # x => outcome'[t] = outcome[t]
    BY <1>0, <2>1
  <2> QED
    BY <2>1, <2>2, <2>3, <2>4 DEF CommitHasVotes
<1>5. CASE UNCHANGED AbstractState
  BY <1>1, <1>5 DEF AbstractState
<1> QED
  BY <1>2, <1>3, <1>4, <1>5, NextAbstract DEF Commitment!Next

-----------------------------------------------------------------------------
(* The theorems *)

\* The rounds, the answers and the commits always have what they stand for.
THEOREM AnswersInvariance ==
    Spec => [](AtomicityInv /\ VoteInv /\ AnswerInv /\ CommitHasVotes)
<1>1. Init => AnswerInv /\ CommitHasVotes
  <2>1. Init => CommitHasVotes
    BY CrossIsTid DEF Init, ClientInit, CommitHasVotes
  <2> QED
    BY <2>1, InitAnswers
<1>2. AtomicityInv /\ AnswerInv /\ [Next]_vars => AnswerInv'
  BY NextAnswers
<1>3. AtomicityInv /\ VoteInv /\ AtomicityInv' /\ CommitHasVotes /\ [Next]_vars
        => CommitHasVotes'
  BY NextCommitHasVotes
<1> QED
  BY <1>1, <1>2, <1>3, VotesInvariance, PTL DEF Spec

\* A server answers yes to a TpcPrepare only with the transaction PREPARED in its
\* log, and to a Transfer only with it COMMITTED, although the alarms of all its
\* unfinished calls run the one round of the server (runPaxos).
THEOREM AnswersAlwaysLogged == Spec => []AnswersAreLogged
<1>1. AnswerInv => AnswersAreLogged
  BY DEF AnswerInv
<1> QED
  BY <1>1, AnswersInvariance, PTL

\* The client commits a cross-shard transaction only after a leader of each of its
\* clusters prepared it, and no crash, retry or Sync ever removes that entry.
THEOREM CommitsArePrepared == Spec => []CommitIsPrepared
<1>1. AtomicityInv /\ AnswerInv /\ CommitHasVotes => CommitIsPrepared
  <2> SUFFICES ASSUME AtomicityInv, AnswerInv, CommitHasVotes,
                      NEW tid \in CrossTid, outcome[tid] = "commit",
                      NEW c \in TouchedClusters(tid)
               PROVE  \E s \in Server : ClusterOf(s) = c /\ InLog(s, tid, "PREPARED")
    BY DEF CommitIsPrepared
  <2>1. <<c, tid>> \in Yes
    BY DEF CommitHasVotes
  <2>2. PICK s \in Server : ClusterOf(s) = c /\ SaidYes(s, tid)
    BY <2>1, VoteOfCluster
  <2>3. InLog(s, tid, "PREPARED")
    BY <2>2, CrossIsTid DEF AnswerInv, AnswersAreLogged
  <2> QED
    BY <2>2, <2>3
<1> QED
  BY <1>1, AnswersInvariance, PTL

=============================================================================
