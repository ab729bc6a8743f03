------------------------------- MODULE InCall -------------------------------
(***************************************************************************)
(* The objects that serve the calls a server receives (in_call.cc) and the *)
(* completion queue that drives them.  An object is created to listen for  *)
(* one call of its type; when that call comes it creates the next listener *)
(* and runs the handler, again and again by an alarm when the handler asks *)
(* for it; it answers, and when the answer is out it deletes itself.  Each *)
(* object has itself as the tag of whatever it starts, so an event that    *)
(* comes twice or too late would be a use of freed memory.                 *)
(*                                                                         *)
(* The handlers are modules ServerImpl and TpcSystem; here only what       *)
(* decides over a retry is kept: runPaxos serves one transaction at a time.*)
(***************************************************************************)
EXTENDS Naturals, FiniteSets

CONSTANTS
    Type,           \* the types of calls, a subset of types::RequestTypes
    Call,           \* the calls that peers and clients make
    TypeOf,         \* [Call -> Type]
    Hasty,          \* the calls whose caller may give up, or die
    Object,         \* the addresses of InCall objects
    MaxSyncs        \* bound: how often the server falls behind its peers

\* The handlers of these types may ask to be called again.
Retried == {"TPC_PREPARE", "TRANSFER"}

NoCall == "no call"

ASSUME InCallAssumption ==
    /\ IsFiniteSet(Type) /\ IsFiniteSet(Call) /\ IsFiniteSet(Object)
    /\ TypeOf \in [Call -> Type]
    /\ Hasty \subseteq Call
    /\ NoCall \notin Call
    /\ MaxSyncs \in Nat
    /\ Cardinality(Object) >= Cardinality(Type) + Cardinality(Call)

VARIABLES
    object,         \* [Object -> its fields]
    ops,            \* what gRPC does for an object, and the events of request_cq
    caller,         \* [Call -> what the caller knows]
    running,        \* the call whose transaction runPaxos is busy with
    decided,        \* the replies it waits for have been counted
    in_sync,        \* a Sync is under way: runPaxos does nothing
    syncs,          \* how many Syncs there were
    finished        \* history: [Call -> how often it was answered]

vars == <<object, ops, caller, running, decided, in_sync, syncs, finished>>

syncVars == <<in_sync, syncs>>

\* status FREE is memory not in use; CREATE never outlasts the constructor.
Status == {"FREE", "PROCESS", "RETRY", "FINISH"}

Free == [status |-> "FREE", type |-> "none", call |-> NoCall]

\* An operation that gRPC carries out for an object, or the event it ended with.
Op == [obj : Object, kind : {"request", "alarm", "finish"},
       state : {"started", "ok", "not ok"}]

Started(o, kind) == [obj |-> o, kind |-> kind, state |-> "started"]

TypeOK ==
    /\ object \in [Object -> [status : Status, type : Type \cup {"none"},
                              call : Call \cup {NoCall}]]
    /\ ops \subseteq Op
    /\ caller \in [Call -> {"idle", "waiting", "gone", "answered"}]
    /\ running \in Call \cup {NoCall}
    /\ decided \in BOOLEAN
    /\ in_sync \in BOOLEAN
    /\ syncs \in 0 .. MaxSyncs
    /\ finished \in [Call -> Nat]

\* InCall::InCall, which calls Proceed in status CREATE: the object waits for
\* a call of its type.
Listener(type) == [status |-> "PROCESS", type |-> type, call |-> NoCall]

\* HandleRPCs creates one listener for every type.
FirstListener ==
    CHOOSE f \in [Type -> Object] : \A t, u \in Type : f[t] = f[u] => t = u

Init ==
    /\ object = [o \in Object |->
          IF \E t \in Type : FirstListener[t] = o
          THEN Listener(CHOOSE t \in Type : FirstListener[t] = o) ELSE Free]
    /\ ops = {Started(FirstListener[t], "request") : t \in Type}
    /\ caller = [c \in Call |-> "idle"]
    /\ running = NoCall
    /\ decided = FALSE
    /\ in_sync = FALSE
    /\ syncs = 0
    /\ finished = [c \in Call |-> 0]

-----------------------------------------------------------------------------
(* The callers and gRPC *)

Ends(op, state) == ops' = (ops \ {op}) \cup {[op EXCEPT !.state = state]}

CallMade(c) ==
    /\ caller[c] = "idle"
    /\ caller' = [caller EXCEPT ![c] = "waiting"]
    /\ UNCHANGED <<object, ops, running, decided, syncVars, finished>>

\* The deadline of the call passes, or the process of the caller is gone.
GivesUp(c) ==
    /\ c \in Hasty
    /\ caller[c] = "waiting"
    /\ caller' = [caller EXCEPT ![c] = "gone"]
    /\ UNCHANGED <<object, ops, running, decided, syncVars, finished>>

\* A call is handed to an object that listens for its type.
Received(c) ==
    /\ caller[c] = "waiting"
    /\ \A o \in Object : object[o].call # c
    /\ finished[c] = 0
    /\ \E o \in Object :
          /\ Started(o, "request") \in ops
          /\ object[o].type = TypeOf[c]
          /\ object' = [object EXCEPT ![o].call = c]
          /\ Ends(Started(o, "request"), "ok")
    /\ UNCHANGED <<caller, running, decided, syncVars, finished>>

AlarmFires(o) ==
    /\ Started(o, "alarm") \in ops
    /\ Ends(Started(o, "alarm"), "ok")
    /\ UNCHANGED <<object, caller, running, decided, syncVars, finished>>

\* The answer is out.  It may fail when the caller does not wait any more.
AnswerSent(o) ==
    /\ Started(o, "finish") \in ops
    /\ \/ /\ Ends(Started(o, "finish"), "ok")
          /\ caller' = [caller EXCEPT ![object[o].call] =
                           IF @ = "waiting" THEN "answered" ELSE @]
       \/ /\ caller[object[o].call] = "gone"
          /\ Ends(Started(o, "finish"), "not ok")
          /\ UNCHANGED caller
    /\ UNCHANGED <<object, running, decided, syncVars, finished>>

-----------------------------------------------------------------------------
(* The server *)

\* The replies of the peers, or their deadlines, decide the round.
RoundDecided ==
    /\ running # NoCall
    /\ ~decided
    /\ decided' = TRUE
    /\ UNCHANGED <<object, ops, caller, running, syncVars, finished>>

\* A Prepare of a peer, or its answer to one, shows that this log is behind.
SyncStarts ==
    /\ ~in_sync
    /\ syncs < MaxSyncs
    /\ in_sync' = TRUE
    /\ syncs' = syncs + 1
    /\ UNCHANGED <<object, ops, caller, running, decided, finished>>

\* handleSyncReply, for an answer or a missed deadline.
SyncEnds ==
    /\ in_sync
    /\ in_sync' = FALSE
    /\ UNCHANGED <<object, ops, caller, running, decided, syncs, finished>>

\* runPaxos, as far as its result goes: false during a Sync, while another
\* transaction runs, when it starts its own, and while that is not decided.
runPaxos(c, done) ==
    \/ /\ in_sync \/ running \notin {NoCall, c}
       /\ ~done
       /\ UNCHANGED <<running, decided>>
    \/ /\ ~in_sync
       /\ running = NoCall
       /\ ~done
       /\ running' = c
       /\ decided' = FALSE
    \/ /\ ~in_sync
       /\ running = c
       /\ done = decided
       /\ running' = IF decided THEN NoCall ELSE c
       /\ UNCHANGED decided

\* The handler that Proceed calls: all but two always have an answer.
Handled(c, done) ==
    \/ TypeOf[c] \in Retried /\ runPaxos(c, done)
    \/ TypeOf[c] \notin Retried /\ done /\ UNCHANGED <<running, decided>>

NextListener == CHOOSE o \in Object : object[o].status = "FREE"

\* Mutants: a retry creates a listener too; nothing does.
Relisten_Always(o) == TRUE
Relisten_Never(o)  == FALSE

\* A new InCall is created when a call is taken up, not when it is retried.
Relisten(o) == object[o].status = "PROCESS"

\* Mutants of the status that follows an answer.
AfterFinish_Same(o)    == object[o]
AfterFinish_Deleted(o) == Free

\* Finish was called: the object stays until the answer is out.
AfterFinish(o) == [object[o] EXCEPT !.status = "FINISH"]

\* Mutant: no alarm is set for a caller that is gone.
Retry_Waiting(o) ==
    IF caller[object[o].call] = "waiting" THEN {Started(o, "alarm")} ELSE {}

\* InCall::Retry
Retry(o) == {Started(o, "alarm")}

\* Proceed in status PROCESS or RETRY; e is the event that led to it.
ProcessCall(o, e) ==
    LET c      == object[o].call
        listen == Relisten(o)
        type   == object[o].type
    IN
    /\ object[o].status \in {"PROCESS", "RETRY"}
    /\ \E done \in BOOLEAN :
          /\ Handled(c, done)
          /\ object' = [p \in Object |->
                CASE p = o -> IF done THEN AfterFinish(o)
                              ELSE [object[o] EXCEPT !.status = "RETRY"]
                  [] p # o /\ listen /\ p = NextListener -> Listener(type)
                  [] OTHER -> object[p]]
          /\ ops' = (ops \ {e})
                      \cup (IF listen THEN {Started(NextListener, "request")} ELSE {})
                      \cup (IF done THEN {Started(o, "finish")} ELSE Retry(o))
          /\ finished' = [finished EXCEPT ![c] = IF done THEN @ + 1 ELSE @]
    /\ UNCHANGED <<caller, syncVars>>

\* Mutant: the object is not deleted.
AfterDelete_Kept(o) == object[o]

\* delete this
AfterDelete(o) == Free

\* Proceed in status FINISH.
DeleteCall(o, e) ==
    /\ object[o].status = "FINISH"
    /\ object' = [object EXCEPT ![o] = AfterDelete(o)]
    /\ ops' = ops \ {e}
    /\ UNCHANGED <<caller, running, decided, syncVars, finished>>

\* An event that is not ok is taken off the queue, and that is all.
DropEvent(e) ==
    /\ e.state = "not ok"
    /\ ops' = ops \ {e}
    /\ UNCHANGED <<object, caller, running, decided, syncVars, finished>>

\* HandleRPCs takes an event of object o off request_cq.
HandleEvent(o) ==
    \E e \in ops :
        /\ e.obj = o
        /\ \/ e.state = "ok" /\ (ProcessCall(o, e) \/ DeleteCall(o, e))
           \/ DropEvent(e)

Next ==
    \/ \E c \in Call : CallMade(c) \/ GivesUp(c) \/ Received(c)
    \/ \E o \in Object : AlarmFires(o) \/ AnswerSent(o) \/ HandleEvent(o)
    \/ RoundDecided
    \/ SyncStarts
    \/ SyncEnds

\* The loop of HandleRPCs never ends and a completion queue passes over no
\* event for ever; alarms fire, answers go out, calls reach their listener, and
\* peers answer or their deadline passes, to a Sync too.
Fairness ==
    /\ \A o \in Object : WF_vars(HandleEvent(o)) /\ WF_vars(AlarmFires(o)) /\ WF_vars(AnswerSent(o))
    /\ \A c \in Call : WF_vars(Received(c))
    /\ WF_vars(RoundDecided)
    /\ WF_vars(SyncEnds)

Spec == Init /\ [][Next]_vars /\ Fairness

-----------------------------------------------------------------------------
(* Properties *)

\* For every type exactly one object is there to take the next call, however
\* many are being served or retried: no call is refused for want of a listener,
\* and listeners do not multiply with the alarms.
OneListener ==
    \A t \in Type :
        Cardinality({o \in Object : object[o].status = "PROCESS" /\ object[o].type = t}) = 1

\* An object has at most one operation or event at a time, and one that was
\* deleted has none: no event is ever delivered to freed memory, or to an object
\* that serves another call by now.
NoDanglingTag ==
    \A op \in ops :
        /\ object[op.obj].status # "FREE"
        /\ \A other \in ops : other.obj = op.obj => other = op
        /\ op.kind = "finish" <=> object[op.obj].status = "FINISH"

\* Finish is called at most once for a call, although every retry comes back
\* through the same code.
AnsweredOnce == \A c \in Call : finished[c] =< 1

\* An object with nothing under way is one whose answer could not be sent: the
\* event loop drops that event, and the object is never deleted.  No other
\* object is left behind.
LeaksOnlyTheAbandoned ==
    \A o \in Object :
        object[o].status # "FREE" /\ (\A op \in ops : op.obj # o) =>
            object[o].status = "FINISH" /\ caller[object[o].call] = "gone"

\* Every caller that waits gets its answer, also when several transactions
\* compete for runPaxos and other callers are gone.
WaitersAnswered ==
    \A c \in Call : caller[c] = "waiting" ~> caller[c] # "waiting"

\* A transaction that has started comes to its end on this server even when the
\* caller is gone: it does not keep runPaxos from the others.
RoundsEnd == \A c \in Call : running = c ~> running # c

=============================================================================
