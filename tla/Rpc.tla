-------------------------------- MODULE Rpc ---------------------------------
(***************************************************************************)
(* The calls of tpc.proto between the client program and the servers: the  *)
(* vocabulary and the shared state of modules ServerImpl and Client.       *)
(*                                                                         *)
(* A TransferReq is its tid: Txn[tid] is the transaction it carries.  The  *)
(* client puts a wall clock reading in nanoseconds in tid; here tids are   *)
(* distinct positive numbers.                                              *)
(***************************************************************************)
EXTENDS Sharding, Sequences, FiniteSets

CONSTANT Txn    \* [tid -> [sender, receiver, amount]]: all transactions issued

Tid == DOMAIN Txn

Transaction == [sender : ClientId, receiver : ClientId, amount : Nat]

ASSUME TxnAssumption ==
    /\ Tid \subseteq Nat \ {0}
    /\ Txn \in [Tid -> Transaction]

\* What tid() returns on a message that was never filled in.
NoTid == 0

SenderCluster(tid)   == getClusterIdFromClientId(Txn[tid].sender)
ReceiverCluster(tid) == getClusterIdFromClientId(Txn[tid].receiver)

\* Client::processTransactions: TpcPrepare when TRUE, Transfer when FALSE.
cross_shard(tid) == SenderCluster(tid) # ReceiverCluster(tid)

VARIABLES
    inCalls,        \* {<<s, tid>>}: Transfer / TpcPrepare calls that server s
                    \* has not finished (sent, or being retried by an InCall)
    replies,        \* {[from, tid, ok, ack]}: finished Transfer / TpcPrepare
                    \* calls in the client's completion queue
    decisions       \* {[tid, to, is_commit]}: TpcCommit / TpcAbort in flight

rpcVars == <<inCalls, replies, decisions>>

Reply == [from : Server, tid : Tid, ok : BOOLEAN, ack : BOOLEAN]
Decision == [tid : Tid, to : Server, is_commit : BOOLEAN]

RpcTypeOK ==
    /\ inCalls \subseteq Server \X Tid
    /\ replies \subseteq Reply
    /\ decisions \subseteq Decision

RpcInit ==
    /\ inCalls = {}
    /\ replies = {}
    /\ decisions = {}

\* InCall::Proceed when runPaxos returned true: transferResponder.Finish.
Finish(s, tid, ack) ==
    /\ inCalls' = inCalls \ {<<s, tid>>}
    /\ replies' = replies \cup
                    {[from |-> s, tid |-> tid, ok |-> TRUE, ack |-> ack]}
    /\ UNCHANGED decisions

=============================================================================
