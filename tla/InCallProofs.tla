---------------------------- MODULE InCallProofs ----------------------------
(***************************************************************************)
(* The call objects of a server are sound for any types and calls, however *)
(* many callers give up and however often a handler is retried: no event   *)
(* finds freed memory, no call is answered twice, and a listener for every *)
(* type is always there.                                                   *)
(***************************************************************************)
EXTENDS InCall, FiniteSetTheorems, TLAPS

-----------------------------------------------------------------------------
(* The inductive invariant *)

\* An object that serves a call, or listens, is of a type, and serves a call of
\* that type; freed memory serves nothing.
ServesItsType ==
    \A o \in Object :
        IF object[o].status = "FREE" THEN object[o].call = NoCall
        ELSE /\ object[o].type \in Type
             /\ object[o].call # NoCall => TypeOf[object[o].call] = object[o].type
             /\ object[o].status \in {"RETRY", "FINISH"} => object[o].call # NoCall

\* What gRPC does for an object follows from the status of the object.
OpFits(op) ==
    /\ op.kind = "request" =>
          /\ object[op.obj].status = "PROCESS"
          /\ op.state = IF object[op.obj].call = NoCall THEN "started" ELSE "ok"
    /\ op.kind = "alarm" => object[op.obj].status = "RETRY" /\ op.state # "not ok"
    /\ op.kind = "finish" =>
          /\ object[op.obj].status = "FINISH"
          /\ op.state = "not ok" => caller[object[op.obj].call] = "gone"

OpFitsStatus == \A op \in ops : OpFits(op)

OneOpEach == \A op, other \in ops : op.obj = other.obj => op = other

\* No two objects serve the same call.
ServedByOne ==
    \A o, p \in Object :
        object[o].call = object[p].call /\ object[o].call # NoCall => o = p

\* A call that is being worked on has not been answered.
NotYetAnswered ==
    \A o \in Object : object[o].status \in {"PROCESS", "RETRY"} /\ object[o].call # NoCall
                          => finished[object[o].call] = 0

IsListener(o, t) == object[o].status = "PROCESS" /\ object[o].type = t

\* OneListener without counting.
ListenerPerType ==
    \A t \in Type :
        /\ \E o \in Object : IsListener(o, t)
        /\ \A o, p \in Object : IsListener(o, t) /\ IsListener(p, t) => o = p

CallInv ==
    /\ TypeOK
    /\ ServesItsType
    /\ OpFitsStatus
    /\ OneOpEach
    /\ ServedByOne
    /\ NotYetAnswered
    /\ AnsweredOnce
    /\ ListenerPerType
    /\ LeaksOnlyTheAbandoned

-----------------------------------------------------------------------------
(* Counting objects *)

\* A set that maps one to one into a finite set is no larger.
LEMMA OneToOne ==
    ASSUME NEW S, NEW T, IsFiniteSet(T), NEW f \in [S -> T],
           \A x, y \in S : f[x] = f[y] => x = y
    PROVE  IsFiniteSet(S) /\ Cardinality(S) =< Cardinality(T)
<1>1. f \in Injection(S, T)
  BY DEF Injection, IsInjective
<1> QED
  BY <1>1, FS_Injection

\* HandleRPCs finds an object for every type: there are enough addresses.
LEMMA FirstListenerExists ==
    /\ FirstListener \in [Type -> Object]
    /\ \A t, u \in Type : FirstListener[t] = FirstListener[u] => t = u
<1> DEFINE m == Cardinality(Type)
           n == Cardinality(Object)
<1>1. /\ IsFiniteSet(Type) /\ IsFiniteSet(Object) /\ IsFiniteSet(Call)
      /\ n >= m + Cardinality(Call)
  BY InCallAssumption
<1>2. /\ m \in Nat /\ n \in Nat /\ Cardinality(Call) \in Nat
      /\ ExistsBijection(1 .. m, Type) /\ ExistsBijection(1 .. n, Object)
  BY <1>1, FS_CardinalityType
<1>3. PICK f \in [1 .. m -> Type] : \A t \in Type : \E i \in 1 .. m : f[i] = t
  BY <1>2 DEF ExistsBijection, Bijection, Surjection
<1>4. PICK g \in [1 .. n -> Object] : \A i, j \in 1 .. n : g[i] = g[j] => i = j
  BY <1>2 DEF ExistsBijection, Bijection, Injection, IsInjective
<1> DEFINE at(t) == CHOOSE i \in 1 .. m : f[i] = t
           h     == [t \in Type |-> g[at(t)]]
<1>5. \A t \in Type : at(t) \in 1 .. m /\ f[at(t)] = t
  BY <1>3
<1>6. 1 .. m \subseteq 1 .. n
  BY <1>1, <1>2
<1> HIDE DEF at, m, n
<1>7. h \in [Type -> Object]
  BY <1>4, <1>5, <1>6
<1>8. \A t, u \in Type : h[t] = h[u] => t = u
  BY <1>4, <1>5, <1>6
<1> HIDE DEF h
<1> QED
  BY <1>7, <1>8 DEF FirstListener

\* When a call is taken up there is memory for the next listener: the objects in
\* use are one listener for each type and one object for each other call.
LEMMA NextListenerIsFree ==
    ASSUME CallInv, NEW o \in Object,
           object[o].status = "PROCESS", object[o].call # NoCall
    PROVE  /\ NextListener \in Object
           /\ object[NextListener].status = "FREE"
           /\ NextListener # o
<1> DEFINE P == {p \in Object : object[p].status = "PROCESS"}
           Q == {p \in Object : object[p].status \in {"RETRY", "FINISH"}}
           c == object[o].call
           F == [p \in P |-> object[p].type]
           G == [p \in Q |-> object[p].call]
<1>1. /\ IsFiniteSet(Type) /\ IsFiniteSet(Object) /\ IsFiniteSet(Call)
      /\ Cardinality(Object) >= Cardinality(Type) + Cardinality(Call)
  BY InCallAssumption
<1>2. /\ IsFiniteSet(Call \ {c})
      /\ Cardinality(Call \ {c}) = Cardinality(Call) - 1
  <2>1. c \in Call
    BY DEF CallInv, TypeOK
  <2> QED
    BY <1>1, <2>1, FS_RemoveElement
<1>3. IsFiniteSet(P) /\ Cardinality(P) =< Cardinality(Type)
  <2>1. F \in [P -> Type]
    BY DEF CallInv, ServesItsType
  <2>2. \A x, y \in P : F[x] = F[y] => x = y
    BY <2>1 DEF CallInv, ListenerPerType, IsListener
  <2> QED
    BY <1>1, <2>1, <2>2, OneToOne
<1>4. IsFiniteSet(Q) /\ Cardinality(Q) =< Cardinality(Call \ {c})
  <2>1. G \in [Q -> Call \ {c}]
    BY DEF CallInv, TypeOK, ServesItsType, ServedByOne
  <2>2. \A x, y \in Q : G[x] = G[y] => x = y
    BY DEF CallInv, ServedByOne, ServesItsType
  <2> QED
    BY <1>2, <2>1, <2>2, OneToOne
<1>5. \E p \in Object : object[p].status = "FREE"
  <2> SUFFICES ASSUME \A p \in Object : object[p].status # "FREE"
               PROVE  FALSE
    OBVIOUS
  <2>1. Object = P \cup Q
    BY DEF CallInv, TypeOK, Status
  <2>2. Cardinality(Object) = Cardinality(P) + Cardinality(Q) - Cardinality(P \cap Q)
    BY <1>3, <1>4, <2>1, FS_Union
  <2>3. /\ Cardinality(P) \in Nat /\ Cardinality(Q) \in Nat
        /\ Cardinality(P \cap Q) \in Nat /\ Cardinality(Type) \in Nat
        /\ Cardinality(Call) \in Nat
    BY <1>1, <1>3, <1>4, FS_CardinalityType, FS_Intersection
  <2> HIDE DEF P, Q, c
  <2> QED
    BY <1>1, <1>2, <1>3, <1>4, <2>2, <2>3
<1> QED
  BY <1>5 DEF NextListener

-----------------------------------------------------------------------------
(* The steps of the callers and of gRPC *)

\* An operation that has ended: its event.
Ended(o, kind, state) == [obj |-> o, kind |-> kind, state |-> state]

\* The fields of an operation and of its event.
LEMMA OpFields ==
    ASSUME NEW o, NEW kind, NEW state
    PROVE  /\ Started(o, kind).obj = o /\ Ended(o, kind, state).obj = o
           /\ Started(o, kind).kind = kind /\ Ended(o, kind, state).kind = kind
           /\ Started(o, kind).state = "started" /\ Ended(o, kind, state).state = state
  BY DEF Started, Ended

\* What the end of an operation does to the operations that are pending.
LEMMA EndsIs ==
    ASSUME NEW o, NEW kind, NEW state, Ends(Started(o, kind), state)
    PROVE  ops' = (ops \ {Started(o, kind)}) \cup {Ended(o, kind, state)}
<1>1. [Started(o, kind) EXCEPT !.state = state] = Ended(o, kind, state)
  BY DEF Started, Ended
<1> QED
  BY <1>1 DEF Ends

\* HandleRPCs starts with one listener of each type and nothing else.
LEMMA InitCallInv == Init => CallInv
<1> SUFFICES ASSUME Init PROVE CallInv
  OBVIOUS
<1> DEFINE F == FirstListener
           Used(o) == \E t \in Type : F[t] = o
           typeOf(o) == CHOOSE t \in Type : F[t] = o
<1>1. F \in [Type -> Object] /\ \A t, u \in Type : F[t] = F[u] => t = u
  BY FirstListenerExists
<1>2. \A t \in Type : Used(F[t]) /\ typeOf(F[t]) = t
  BY <1>1
<1>3. \A o \in Object : Used(o) => typeOf(o) \in Type /\ F[typeOf(o)] = o
  OBVIOUS
<1>4. /\ object \in [Object -> [status : Status, type : Type \cup {"none"},
                                call : Call \cup {NoCall}]]
      /\ \A o \in Object : object[o] = IF Used(o) THEN Listener(typeOf(o)) ELSE Free
  BY <1>3 DEF Init, Listener, Free, Status
<1>5. ops = {Started(F[t], "request") : t \in Type}
  BY DEF Init
<1>6. /\ caller = [c \in Call |-> "idle"] /\ running = NoCall /\ decided = FALSE
      /\ in_sync = FALSE /\ syncs = 0 /\ finished = [c \in Call |-> 0]
  BY DEF Init
<1> HIDE DEF F, Used, typeOf
<1>7. TypeOK
  <2>1. \A t \in Type : Started(F[t], "request") \in Op
    BY <1>1 DEF Started, Op
  <2>2. ops \subseteq Op
    BY <1>5, <2>1
  <2>3. /\ caller \in [Call -> {"idle", "waiting", "gone", "answered"}]
        /\ finished \in [Call -> Nat] /\ syncs \in 0 .. MaxSyncs
    BY <1>6, InCallAssumption
  <2> QED
    BY <1>4, <1>6, <2>2, <2>3 DEF TypeOK
<1>8. ServesItsType /\ ServedByOne /\ NotYetAnswered
  BY <1>3, <1>4 DEF ServesItsType, ServedByOne, NotYetAnswered, Listener, Free
<1>9. OpFitsStatus /\ OneOpEach
  <2>1. \A op \in ops : \E t \in Type : op = Started(F[t], "request")
    BY <1>5
  <2>2. \A t \in Type : /\ Started(F[t], "request").obj = F[t]
                        /\ Started(F[t], "request").kind = "request"
                        /\ Started(F[t], "request").state = "started"
    BY DEF Started
  <2>3. \A t \in Type : /\ F[t] \in Object
                        /\ object[F[t]].status = "PROCESS"
                        /\ object[F[t]].call = NoCall
    BY <1>1, <1>2, <1>4 DEF Listener
  <2>4. OpFitsStatus
    BY <2>1, <2>2, <2>3 DEF OpFitsStatus, OpFits
  <2>5. OneOpEach
    BY <1>1, <2>1, <2>2 DEF OneOpEach
  <2> QED
    BY <2>4, <2>5
<1>10. AnsweredOnce
  BY <1>6 DEF AnsweredOnce
<1>11. ListenerPerType
  BY <1>1, <1>2, <1>3, <1>4 DEF ListenerPerType, IsListener, Listener, Free
<1>12. LeaksOnlyTheAbandoned
  <2> SUFFICES ASSUME NEW o \in Object, object[o].status # "FREE"
               PROVE  \E op \in ops : op.obj = o
    BY DEF LeaksOnlyTheAbandoned
  <2>1. Used(o) /\ typeOf(o) \in Type /\ F[typeOf(o)] = o
    BY <1>3, <1>4 DEF Free
  <2>2. Started(o, "request") \in ops
    BY <1>5, <2>1
  <2> QED
    BY <2>2 DEF Started
<1> QED
  BY <1>7, <1>8, <1>9, <1>10, <1>11, <1>12 DEF CallInv

\* The objects do not depend on what the callers do, on runPaxos or on Syncs,
\* except that an object may be abandoned once its caller is gone, for good.
LEMMA ObjectFrame ==
    ASSUME CallInv, TypeOK', UNCHANGED <<object, ops, finished>>,
           \A c \in Call : caller[c] = "gone" => caller'[c] = "gone"
    PROVE  CallInv'
<1>1. ServesItsType' /\ OneOpEach' /\ ServedByOne' /\ NotYetAnswered' /\ AnsweredOnce'
  BY DEF CallInv, ServesItsType, OneOpEach, ServedByOne, NotYetAnswered, AnsweredOnce
<1>2. ListenerPerType'
  BY DEF CallInv, ListenerPerType, IsListener
<1>3. \A o \in Object : object[o].status = "FINISH" => object[o].call \in Call
  BY DEF CallInv, TypeOK, ServesItsType
<1>4. OpFitsStatus'
  BY <1>3 DEF CallInv, OpFitsStatus, OpFits, TypeOK, Op
<1>5. LeaksOnlyTheAbandoned'
  BY <1>3 DEF CallInv, LeaksOnlyTheAbandoned
<1> QED
  BY <1>1, <1>2, <1>4, <1>5 DEF CallInv

\* A caller that sends its call or gives up touches no object.
LEMMA CallerInv ==
    ASSUME CallInv, NEW c \in Call, CallMade(c) \/ GivesUp(c)
    PROVE  CallInv'
<1>1. UNCHANGED <<object, ops, running, decided, in_sync, syncs, finished>>
  BY DEF CallMade, GivesUp, syncVars
<1>2. TypeOK'
  BY <1>1 DEF CallInv, TypeOK, CallMade, GivesUp
<1>3. \A d \in Call : caller[d] = "gone" => caller'[d] = "gone"
  BY DEF CallInv, TypeOK, CallMade, GivesUp
<1> QED
  BY <1>1, <1>2, <1>3, ObjectFrame

\* The flags of the server, which runPaxos sets, are no part of the invariant.
LEMMA ServerFlagsInv ==
    ASSUME CallInv, RoundDecided \/ SyncStarts \/ SyncEnds
    PROVE  CallInv'
<1>1. UNCHANGED <<object, ops, caller, finished>>
  BY DEF RoundDecided, SyncStarts, SyncEnds, syncVars
<1>2. TypeOK'
  <2>1. CASE RoundDecided
    BY <2>1 DEF CallInv, TypeOK, RoundDecided, syncVars
  <2>2. CASE SyncStarts
    BY <2>2, InCallAssumption DEF CallInv, TypeOK, SyncStarts
  <2>3. CASE SyncEnds
    BY <2>3 DEF CallInv, TypeOK, SyncEnds
  <2> QED
    BY <2>1, <2>2, <2>3
<1> QED
  BY <1>1, <1>2, ObjectFrame

\* A request arrives: the listener of its type becomes the object of that call.
LEMMA ReceivedInv ==
    ASSUME CallInv, NEW c \in Call, Received(c)
    PROVE  CallInv'
<1> DEFINE ev(o) == Ended(o, "request", "ok")
<1>1. PICK o \in Object :
        /\ Started(o, "request") \in ops
        /\ object[o].type = TypeOf[c]
        /\ object' = [object EXCEPT ![o].call = c]
        /\ ops' = (ops \ {Started(o, "request")}) \cup {ev(o)}
  BY EndsIs DEF Received
<1>2. /\ UNCHANGED <<caller, running, decided, in_sync, syncs, finished>>
      /\ finished[c] = 0
      /\ \A p \in Object : object[p].call # c
  BY DEF Received, syncVars
<1>3. /\ object[o].status = "PROCESS" /\ object[o].call = NoCall
      /\ \A op \in ops : op.obj = o => op = Started(o, "request")
      /\ c # NoCall
  BY <1>1, InCallAssumption DEF CallInv, OpFitsStatus, OpFits, OneOpEach, Started
<1>4. /\ object'[o] = [object[o] EXCEPT !.call = c]
      /\ \A p \in Object \ {o} : object'[p] = object[p]
      /\ object'[o].status = "PROCESS" /\ object'[o].call = c
      /\ object'[o].type = object[o].type
  BY <1>1, <1>3 DEF CallInv, TypeOK
<1> DEFINE e == ev(o)
<1>5. /\ e.obj = o /\ e.kind = "request" /\ e.state = "ok"
      /\ \A op \in ops' : op = e \/ (op \in ops /\ op.obj # o)
      /\ \A op \in ops : op \in ops' \/ op.obj = o
      /\ e \in ops' /\ e \in Op
  <2>1. e.obj = o /\ e.kind = "request" /\ e.state = "ok"
    BY OpFields
  <2>2. e \in Op
    BY DEF Ended, Op
  <2>3. Started(o, "request").obj = o
    BY OpFields
  <2> QED
    BY <1>1, <1>3, <2>1, <2>2, <2>3
<1> HIDE DEF e
<1>6. TypeOK'
  <2>1. object' \in [Object -> [status : Status, type : Type \cup {"none"},
                               call : Call \cup {NoCall}]]
    BY <1>1 DEF CallInv, TypeOK
  <2>2. ops' \subseteq Op
    BY <1>5 DEF CallInv, TypeOK
  <2> QED
    BY <1>2, <2>1, <2>2 DEF CallInv, TypeOK
<1>7. ServesItsType'
  BY <1>1, <1>3, <1>4 DEF CallInv, ServesItsType
<1>8. OpFitsStatus'
  <2>1. \A op \in ops : op.obj \in Object
    BY DEF CallInv, TypeOK, Op
  <2> SUFFICES ASSUME NEW op \in ops'
               PROVE  OpFits(op)'
    BY DEF OpFitsStatus
  <2>2. CASE op = e
    BY <1>3, <1>4, <1>5, <2>2 DEF OpFits
  <2>3. CASE op \in ops /\ op.obj # o
    <3>1. OpFits(op) /\ object'[op.obj] = object[op.obj] /\ caller' = caller
      BY <1>2, <1>4, <2>1, <2>3 DEF CallInv, OpFitsStatus
    <3> QED
      BY <3>1 DEF OpFits
  <2> QED
    BY <1>5, <2>2, <2>3
<1>9. OneOpEach'
  BY <1>5 DEF CallInv, OneOpEach
<1>10. ServedByOne'
  <2> SUFFICES ASSUME NEW p \in Object, NEW q \in Object,
                      object'[p].call = object'[q].call, object'[p].call # NoCall
               PROVE  p = q
    BY DEF ServedByOne
  <2>1. \A r \in Object : object'[r].call = IF r = o THEN c ELSE object[r].call
    BY <1>4
  <2> QED
    BY <1>2, <2>1 DEF CallInv, ServedByOne
<1>11. NotYetAnswered' /\ AnsweredOnce'
  BY <1>2, <1>4 DEF CallInv, NotYetAnswered, AnsweredOnce
<1>12. ListenerPerType'
  <2>1. \A p \in Object, t \in Type : IsListener(p, t)' <=> IsListener(p, t)
    BY <1>3, <1>4 DEF IsListener
  <2> QED
    BY <2>1 DEF CallInv, ListenerPerType
<1>13. LeaksOnlyTheAbandoned'
  BY <1>2, <1>4, <1>5 DEF CallInv, LeaksOnlyTheAbandoned
<1> QED
  BY <1>6, <1>7, <1>8, <1>9, <1>10, <1>11, <1>12, <1>13 DEF CallInv

\* An operation of gRPC ends.  Only that of an answer may end badly, and only
\* for a caller that is gone.
OperationEnds(o, k, st) ==
    /\ Started(o, k) \in ops
    /\ k \in {"alarm", "finish"}
    /\ \/ st = "ok"
       \/ st = "not ok" /\ k = "finish" /\ caller[object[o].call] = "gone"
    /\ ops' = (ops \ {Started(o, k)}) \cup {Ended(o, k, st)}
    /\ UNCHANGED <<object, running, decided, in_sync, syncs, finished>>
    /\ caller' \in [Call -> {"idle", "waiting", "gone", "answered"}]
    /\ \A c \in Call : caller[c] = "gone" => caller'[c] = "gone"

\* An operation ends: its tag goes from the pending operations to the queue.
LEMMA OperationEndsInv ==
    ASSUME CallInv, NEW o \in Object, NEW k, NEW st, OperationEnds(o, k, st)
    PROVE  CallInv'
<1> DEFINE e == Ended(o, k, st)
           b == Started(o, k)
<1>1. /\ e.obj = o /\ e.kind = k /\ e.state = st
      /\ b.obj = o /\ b.kind = k /\ b.state = "started"
  BY OpFields
<1>2. e \in Op
  BY DEF Ended, Op, OperationEnds
<1>3. b \in ops /\ ops' = (ops \ {b}) \cup {e}
  BY DEF OperationEnds
<1> HIDE DEF e, b
<1>4. \A op \in ops : op.obj = o => op = b
  BY <1>1, <1>3 DEF CallInv, OneOpEach
<1>5. \/ k = "alarm" /\ object[o].status = "RETRY" /\ st = "ok"
      \/ /\ k = "finish" /\ object[o].status = "FINISH"
         /\ st = "ok" \/ (st = "not ok" /\ caller[object[o].call] = "gone")
  BY <1>1, <1>3 DEF CallInv, OpFitsStatus, OpFits, OperationEnds
<1>6. /\ \A op \in ops' : op = e \/ (op \in ops /\ op.obj # o)
      /\ \A op \in ops : op \in ops' \/ op.obj = o
      /\ e \in ops'
  BY <1>1, <1>3, <1>4
<1>7. /\ UNCHANGED <<object, running, decided, in_sync, syncs, finished>>
      /\ caller' \in [Call -> {"idle", "waiting", "gone", "answered"}]
      /\ \A c \in Call : caller[c] = "gone" => caller'[c] = "gone"
  BY DEF OperationEnds
<1>8. TypeOK'
  <2>1. ops' \subseteq Op
    BY <1>2, <1>6 DEF CallInv, TypeOK
  <2> QED
    BY <1>7, <2>1 DEF CallInv, TypeOK
<1>9. \A op \in ops : op.obj \in Object
  BY DEF CallInv, TypeOK, Op
<1>10. \A p \in Object : object[p].status = "FINISH" => object[p].call \in Call
  BY DEF CallInv, TypeOK, ServesItsType
<1>11. ServesItsType' /\ ServedByOne' /\ NotYetAnswered' /\ AnsweredOnce'
  BY <1>7 DEF CallInv, ServesItsType, ServedByOne, NotYetAnswered, AnsweredOnce
<1>12. OpFitsStatus'
  <2>1. \A p \in Object : object[p].status = "FINISH" /\ caller[object[p].call] = "gone"
                              => caller'[object[p].call] = "gone"
    BY <1>7, <1>10
  <2> SUFFICES ASSUME NEW op \in ops'
               PROVE  OpFits(op)'
    BY DEF OpFitsStatus
  <2>2. CASE op = e
    <3>1. object[o].status = "FINISH" => object[o].call \in Call
      BY <1>10
    <3> QED
      BY <1>1, <1>5, <1>7, <2>2, <3>1 DEF OpFits
  <2>3. CASE op \in ops
    <3>1. OpFits(op) /\ object' = object /\ op.obj \in Object
      BY <1>7, <1>9, <2>3 DEF CallInv, OpFitsStatus
    <3> QED
      BY <2>1, <3>1 DEF OpFits
  <2> QED
    BY <1>6, <2>2, <2>3
<1>13. OneOpEach'
  BY <1>1, <1>6 DEF CallInv, OneOpEach
<1>14. ListenerPerType'
  BY <1>7 DEF CallInv, ListenerPerType, IsListener
<1>15. LeaksOnlyTheAbandoned'
  BY <1>1, <1>6, <1>7, <1>10 DEF CallInv, LeaksOnlyTheAbandoned
<1> QED
  BY <1>8, <1>11, <1>12, <1>13, <1>14, <1>15 DEF CallInv

\* An alarm fires: its object comes to the queue again.
LEMMA AlarmFiresInv ==
    ASSUME CallInv, NEW o \in Object, AlarmFires(o)
    PROVE  CallInv'
<1>1. /\ Started(o, "alarm") \in ops
      /\ ops' = (ops \ {Started(o, "alarm")})
                   \cup {Ended(o, "alarm", "ok")}
      /\ UNCHANGED <<object, caller, running, decided, in_sync, syncs, finished>>
  BY EndsIs DEF AlarmFires, syncVars
<1>2. caller' \in [Call -> {"idle", "waiting", "gone", "answered"}]
  BY <1>1 DEF CallInv, TypeOK
<1> QED
  BY <1>1, <1>2, OperationEndsInv DEF OperationEnds

\* The answer has left, or its caller is gone: the object is told once, by its tag.
LEMMA AnswerSentInv ==
    ASSUME CallInv, NEW o \in Object, AnswerSent(o)
    PROVE  CallInv'
<1>1. /\ Started(o, "finish") \in ops
      /\ UNCHANGED <<object, running, decided, in_sync, syncs, finished>>
  BY DEF AnswerSent, syncVars
<1>2. object[o].call \in Call
  BY <1>1 DEF CallInv, TypeOK, OpFitsStatus, OpFits, ServesItsType, Started
<1>3. CASE /\ Ends(Started(o, "finish"), "ok")
           /\ caller' = [caller EXCEPT ![object[o].call] =
                            IF @ = "waiting" THEN "answered" ELSE @]
  <2>1. ops' = (ops \ {Started(o, "finish")})
                 \cup {Ended(o, "finish", "ok")}
    BY <1>3, EndsIs
  <2>2. /\ caller' \in [Call -> {"idle", "waiting", "gone", "answered"}]
        /\ \A c \in Call : caller[c] = "gone" => caller'[c] = "gone"
    BY <1>2, <1>3 DEF CallInv, TypeOK
  <2> QED
    BY <1>1, <2>1, <2>2, OperationEndsInv DEF OperationEnds
<1>4. CASE /\ caller[object[o].call] = "gone"
           /\ Ends(Started(o, "finish"), "not ok")
           /\ UNCHANGED caller
  <2>1. ops' = (ops \ {Started(o, "finish")})
                 \cup {Ended(o, "finish", "not ok")}
    BY <1>4, EndsIs
  <2>2. caller' \in [Call -> {"idle", "waiting", "gone", "answered"}]
    BY <1>4 DEF CallInv, TypeOK
  <2> QED
    BY <1>1, <1>4, <2>1, <2>2, OperationEndsInv DEF OperationEnds
<1> QED
  BY <1>3, <1>4 DEF AnswerSent

-----------------------------------------------------------------------------
(* The event loop *)

\* An event that is ok is that of a call to be worked on or of an answer.
LEMMA EventOf ==
    ASSUME CallInv, NEW o \in Object, NEW e \in ops, e.obj = o
    PROVE  /\ \A op \in ops \ {e} : op.obj # o /\ op.obj \in Object
           /\ object[o].status # "FREE"
           /\ object[o].status = "FINISH" => e.kind = "finish"
           /\ e.state = "ok" => object[o].call \in Call
           /\ e.state = "not ok" =>
                 object[o].status = "FINISH" /\ caller[object[o].call] = "gone"
<1>1. \A op \in ops : op.obj \in Object /\ op.kind \in {"request", "alarm", "finish"}
                       /\ op.state \in {"started", "ok", "not ok"}
  BY DEF CallInv, TypeOK, Op
<1>2. \A op \in ops \ {e} : op.obj # o
  BY DEF CallInv, OneOpEach
<1>3. OpFits(e)
  BY DEF CallInv, OpFitsStatus
<1>4. object[o].call \in Call \cup {NoCall}
  BY DEF CallInv, TypeOK
<1>5. object[o].status \in {"RETRY", "FINISH"} => object[o].call # NoCall
  BY DEF CallInv, ServesItsType
<1> QED
  BY <1>1, <1>2, <1>3, <1>4, <1>5 DEF OpFits

\* What ProcessCall does to the objects and the operations: n is the object of
\* the next listener, if there is to be one.
Processes(o, e, n, listen, done) ==
    /\ listen = (object[o].status = "PROCESS")
    /\ listen => n \in Object /\ object[n].status = "FREE" /\ n # o
    /\ object' = [p \in Object |->
          CASE p = o -> [object[o] EXCEPT !.status = IF done THEN "FINISH" ELSE "RETRY"]
            [] p # o /\ listen /\ p = n -> Listener(object[o].type)
            [] OTHER -> object[p]]
    /\ ops' = (ops \ {e}) \cup (IF listen THEN {Started(n, "request")} ELSE {})
                 \cup {Started(o, IF done THEN "finish" ELSE "alarm")}
    /\ finished' = [finished EXCEPT ![object[o].call] = IF done THEN @ + 1 ELSE @]

\* What Proceed does with an object whose request was received or whose alarm fired:
\* the next listener on the first pass, then the answer or another alarm.
LEMMA ProcessCallIs ==
    ASSUME CallInv, NEW o \in Object, NEW e \in ops, e.obj = o, e.state = "ok",
           ProcessCall(o, e)
    PROVE  \E listen, done \in BOOLEAN : Processes(o, e, NextListener, listen, done)
<1> DEFINE listen == object[o].status = "PROCESS"
<1>1. PICK done \in BOOLEAN :
        /\ object' = [p \in Object |->
              CASE p = o -> IF done THEN AfterFinish(o)
                            ELSE [object[o] EXCEPT !.status = "RETRY"]
                [] p # o /\ Relisten(o) /\ p = NextListener -> Listener(object[o].type)
                [] OTHER -> object[p]]
        /\ ops' = (ops \ {e})
                    \cup (IF Relisten(o) THEN {Started(NextListener, "request")} ELSE {})
                    \cup (IF done THEN {Started(o, "finish")} ELSE Retry(o))
        /\ finished' = [finished EXCEPT ![object[o].call] = IF done THEN @ + 1 ELSE @]
  BY DEF ProcessCall
<1>2. listen => /\ NextListener \in Object /\ object[NextListener].status = "FREE"
                /\ NextListener # o
  <2>1. object[o].call \in Call
    BY EventOf
  <2> QED
    BY <2>1, NextListenerIsFree, InCallAssumption
<1>3. Processes(o, e, NextListener, listen, done)
  <2>1. CASE done
    BY <1>1, <1>2, <2>1 DEF Processes, Relisten, AfterFinish
  <2>2. CASE ~done
    BY <1>1, <1>2, <2>2 DEF Processes, Relisten, Retry
  <2> QED
    BY <2>1, <2>2
<1>4. listen \in BOOLEAN
  OBVIOUS
<1> QED
  BY <1>3, <1>4

\* Proceed keeps the invariant, on the first pass of a call and on each retry.
LEMMA ProcessCallInv ==
    ASSUME CallInv, NEW o \in Object, NEW e \in ops, e.obj = o, e.state = "ok",
           ProcessCall(o, e)
    PROVE  CallInv'
<1> DEFINE c == object[o].call
           n == NextListener
<1>1. PICK listen \in BOOLEAN, done \in BOOLEAN : Processes(o, e, n, listen, done)
  BY ProcessCallIs
<1> DEFINE new == IF done THEN "FINISH" ELSE "RETRY"
           a   == Started(o, IF done THEN "finish" ELSE "alarm")
           b   == Started(n, "request")
<1> HIDE DEF n
<1>2. /\ object[o].status = (IF listen THEN "PROCESS" ELSE "RETRY")
      /\ c \in Call /\ c # NoCall
      /\ \A op \in ops \ {e} : op.obj # o /\ op.obj \in Object
      /\ finished[c] = 0
      /\ object[o].type \in Type /\ TypeOf[c] = object[o].type
  <2>1. /\ c \in Call /\ \A op \in ops \ {e} : op.obj # o /\ op.obj \in Object
    BY EventOf
  <2>2. object[o].status \in {"PROCESS", "RETRY"} /\ c # NoCall
    BY <2>1, InCallAssumption DEF ProcessCall
  <2>3. finished[c] = 0
    BY <2>2 DEF CallInv, NotYetAnswered
  <2>4. object[o].type \in Type /\ TypeOf[c] = object[o].type
    BY <2>2 DEF CallInv, ServesItsType
  <2>5. listen = (object[o].status = "PROCESS")
    BY <1>1 DEF Processes
  <2> QED
    BY <2>1, <2>2, <2>3, <2>4, <2>5
<1>3. listen => /\ n \in Object /\ n # o /\ object[n].status = "FREE"
                /\ object[n].call = NoCall
                /\ \A op \in ops \ {e} : op.obj # n
  <2>1. listen => n \in Object /\ n # o /\ object[n].status = "FREE"
    BY <1>1 DEF Processes
  <2>2. \A op \in ops : object[op.obj].status # "FREE"
    <3>1. \A op \in ops : op.obj \in Object
      BY DEF CallInv, TypeOK, Op
    <3> QED
      BY <3>1, EventOf
  <2>3. listen => object[n].call = NoCall
    BY <2>1 DEF CallInv, ServesItsType
  <2> QED
    BY <2>1, <2>2, <2>3
<1>4. /\ object'[o] = [object[o] EXCEPT !.status = new]
      /\ listen => object'[n] = Listener(object[o].type)
      /\ \A p \in Object \ {o} : ~(listen /\ p = n) => object'[p] = object[p]
      /\ DOMAIN object' = Object
  BY <1>1, <1>3 DEF Processes
<1>5. /\ object'[o].status = new /\ object'[o].call = c
      /\ object'[o].type = object[o].type
      /\ listen => /\ object'[n].status = "PROCESS" /\ object'[n].call = NoCall
                   /\ object'[n].type = object[o].type
  BY <1>4 DEF Listener, CallInv, TypeOK
<1>6. /\ \A op \in ops' : \/ op = a
                          \/ listen /\ op = b
                          \/ op \in ops /\ op # e
      /\ a \in ops' /\ (listen => b \in ops')
      /\ \A op \in ops : op = e \/ op \in ops'
  <2>1. ops' = (ops \ {e}) \cup (IF listen THEN {b} ELSE {}) \cup {a}
    BY <1>1 DEF Processes
  <2> HIDE DEF a, b
  <2> QED
    BY <2>1
<1>7. /\ a.obj = o /\ a.kind = (IF done THEN "finish" ELSE "alarm") /\ a.state = "started"
      /\ b.obj = n /\ b.kind = "request" /\ b.state = "started"
  BY OpFields
<1>8. a \in Op /\ (listen => b \in Op)
  BY <1>3 DEF Op, Started
<1>9. /\ caller' = caller /\ in_sync' = in_sync /\ syncs' = syncs
      /\ finished' = [finished EXCEPT ![c] = IF done THEN @ + 1 ELSE @]
  BY <1>1 DEF ProcessCall, Processes, syncVars
<1> HIDE DEF a, b
<1>10. TypeOK'
  <2>1. \A p \in Object : object'[p] \in [status : Status, type : Type \cup {"none"},
                                          call : Call \cup {NoCall}]
    <3> SUFFICES ASSUME NEW p \in Object
                 PROVE  object'[p] \in [status : Status, type : Type \cup {"none"},
                                        call : Call \cup {NoCall}]
      OBVIOUS
    <3>1. object[p] \in [status : Status, type : Type \cup {"none"},
                         call : Call \cup {NoCall}]
      BY DEF CallInv, TypeOK
    <3>2. CASE p = o
      BY <1>4, <3>1, <3>2 DEF Status
    <3>3. CASE listen /\ p = n
      BY <1>2, <1>4, <3>3 DEF Status, Listener
    <3>4. CASE p # o /\ ~(listen /\ p = n)
      BY <1>4, <3>1, <3>4
    <3> QED
      BY <3>2, <3>3, <3>4
  <2>2. object' \in [Object -> [status : Status, type : Type \cup {"none"},
                               call : Call \cup {NoCall}]]
    <3>1. object' = [p \in Object |-> object'[p]]
      BY <1>1 DEF Processes
    <3> QED
      BY <2>1, <3>1
  <2>3. ops' \subseteq Op
    BY <1>6, <1>8 DEF CallInv, TypeOK
  <2>4. running' \in Call \cup {NoCall} /\ decided' \in BOOLEAN
    <3>1. PICK d \in BOOLEAN : Handled(c, d)
      BY DEF ProcessCall
    <3> QED
      BY <1>2, <3>1 DEF CallInv, TypeOK, Handled, runPaxos
  <2>5. finished' \in [Call -> Nat]
    <3>1. finished \in [Call -> Nat]
      BY DEF CallInv, TypeOK
    <3>2. CASE done
      BY <1>2, <1>9, <3>1, <3>2
    <3>3. CASE ~done
      BY <1>2, <1>9, <3>1, <3>3
    <3> QED
      BY <3>2, <3>3
  <2> QED
    BY <1>9, <2>2, <2>3, <2>4, <2>5 DEF CallInv, TypeOK
<1>11. ServesItsType'
  <2> SUFFICES ASSUME NEW p \in Object
               PROVE  IF object'[p].status = "FREE" THEN object'[p].call = NoCall
                      ELSE /\ object'[p].type \in Type
                           /\ object'[p].call # NoCall =>
                                 TypeOf[object'[p].call] = object'[p].type
                           /\ object'[p].status \in {"RETRY", "FINISH"} =>
                                 object'[p].call # NoCall
    BY DEF ServesItsType
  <2>1. CASE p = o
    BY <1>2, <1>5, <2>1
  <2>2. CASE listen /\ p = n
    BY <1>2, <1>5, <2>2
  <2>3. CASE p # o /\ ~(listen /\ p = n)
    BY <1>4, <2>3 DEF CallInv, ServesItsType
  <2> QED
    BY <2>1, <2>2, <2>3
<1>12. OpFitsStatus'
  <2> SUFFICES ASSUME NEW op \in ops'
               PROVE  OpFits(op)'
    BY DEF OpFitsStatus
  <2>1. CASE op = a
    BY <1>5, <1>7, <2>1 DEF OpFits
  <2>2. CASE listen /\ op = b
    BY <1>5, <1>7, <2>2 DEF OpFits
  <2>3. CASE op \in ops /\ op # e
    <3>1. object'[op.obj] = object[op.obj] /\ OpFits(op)
      BY <1>2, <1>3, <1>4, <2>3 DEF CallInv, OpFitsStatus
    <3> QED
      BY <1>9, <3>1 DEF OpFits
  <2> QED
    BY <1>6, <2>1, <2>2, <2>3
<1>13. OneOpEach'
  <2>1. \A op \in ops' : /\ op.obj = o => op = a
                         /\ listen /\ op.obj = n => op = b
                         /\ op.obj # o /\ ~(listen /\ op.obj = n) => op \in ops
    BY <1>2, <1>3, <1>6, <1>7
  <2> QED
    BY <2>1 DEF CallInv, OneOpEach
<1>14. ServedByOne'
  <2>1. \A p \in Object : object'[p].call = object[p].call
    BY <1>3, <1>4, <1>5
  <2> QED
    BY <2>1 DEF CallInv, ServedByOne
<1>15. NotYetAnswered'
  <2> SUFFICES ASSUME NEW p \in Object, object'[p].status \in {"PROCESS", "RETRY"},
                      object'[p].call # NoCall
               PROVE  finished'[object'[p].call] = 0
    BY DEF NotYetAnswered
  <2>1. CASE p = o
    BY <1>2, <1>5, <1>9, <2>1 DEF CallInv, TypeOK
  <2>2. CASE p # o
    <3>1. object'[p] = object[p]
      BY <1>4, <1>5, <2>2
    <3>2. object[p].call # c /\ finished[object[p].call] = 0
      BY <1>2, <2>2, <3>1 DEF CallInv, ServedByOne, NotYetAnswered
    <3> QED
      BY <1>9, <3>1, <3>2 DEF CallInv, TypeOK
  <2> QED
    BY <2>1, <2>2
<1>16. AnsweredOnce'
  <2>1. \A d \in Call : finished[d] \in Nat /\ finished[d] =< 1
    BY DEF CallInv, TypeOK, AnsweredOnce
  <2>2. \A d \in Call : finished'[d] = IF d = c /\ done THEN finished[d] + 1 ELSE finished[d]
    BY <1>9 DEF CallInv, TypeOK
  <2> QED
    BY <1>2, <2>1, <2>2 DEF AnsweredOnce
<1>17. ListenerPerType'
  <2>1. \A t \in Type : \A p \in Object :
          IsListener(p, t)' <=> IF listen THEN \/ p = n /\ t = object[o].type
                                               \/ p # o /\ p # n /\ IsListener(p, t)
                                ELSE IsListener(p, t)
    <3> SUFFICES ASSUME NEW t \in Type, NEW p \in Object
                 PROVE  IsListener(p, t)' <=>
                            IF listen THEN \/ p = n /\ t = object[o].type
                                           \/ p # o /\ p # n /\ IsListener(p, t)
                            ELSE IsListener(p, t)
      OBVIOUS
    <3>1. CASE p = o
      BY <1>2, <1>3, <1>5, <3>1 DEF IsListener
    <3>2. CASE listen /\ p = n
      BY <1>5, <3>2 DEF IsListener
    <3>3. CASE p # o /\ ~(listen /\ p = n)
      BY <1>4, <3>3 DEF IsListener
    <3> QED
      BY <3>1, <3>2, <3>3
  <2>2. CASE ~listen
    BY <2>1, <2>2 DEF CallInv, ListenerPerType
  <2>3. CASE listen
    <3> SUFFICES ASSUME NEW t \in Type
                 PROVE  \E x \in Object : \A p \in Object : IsListener(p, t)' <=> p = x
      BY DEF ListenerPerType
    <3>1. PICK x \in Object : \A p \in Object : IsListener(p, t) <=> p = x
      BY DEF CallInv, ListenerPerType
    <3>2. IsListener(o, object[o].type) /\ ~IsListener(n, t)
      BY <1>2, <1>3, <2>3 DEF IsListener
    <3>3. CASE t = object[o].type
      <4>1. x = o
        BY <3>1, <3>2, <3>3
      <4>2. \A p \in Object : IsListener(p, t)' <=> p = n
        BY <2>1, <2>3, <3>1, <3>3, <4>1
      <4> QED
        BY <1>3, <2>3, <4>2
    <3>4. CASE t # object[o].type
      <4>1. x # o /\ x # n
        BY <1>3, <2>3, <3>1, <3>2, <3>4 DEF IsListener
      <4> QED
        BY <2>1, <2>3, <3>1, <3>4, <4>1
    <3> QED
      BY <3>3, <3>4
  <2> QED
    BY <2>2, <2>3
<1>18. LeaksOnlyTheAbandoned'
  <2> SUFFICES ASSUME NEW p \in Object, object'[p].status # "FREE",
                      \A op \in ops' : op.obj # p
               PROVE  object'[p].status = "FINISH" /\ caller'[object'[p].call] = "gone"
    BY DEF LeaksOnlyTheAbandoned
  <2>1. p # o /\ ~(listen /\ p = n)
    BY <1>6, <1>7
  <2>2. object'[p] = object[p] /\ \A op \in ops : op.obj # p
    BY <1>4, <1>6, <2>1
  <2> QED
    BY <1>9, <2>2 DEF CallInv, LeaksOnlyTheAbandoned
<1> QED
  BY <1>10, <1>11, <1>12, <1>13, <1>14, <1>15, <1>16, <1>17, <1>18 DEF CallInv

\* The object deletes itself at the event of its answer, its last operation.
LEMMA DeleteCallInv ==
    ASSUME CallInv, NEW o \in Object, NEW e \in ops, e.obj = o, e.state = "ok",
           DeleteCall(o, e)
    PROVE  CallInv'
<1>1. /\ object[o].status = "FINISH"
      /\ object' = [object EXCEPT ![o] = Free]
      /\ ops' = ops \ {e}
      /\ UNCHANGED <<caller, running, decided, in_sync, syncs, finished>>
  BY DEF DeleteCall, AfterDelete, syncVars
<1>2. \A op \in ops' : op \in ops /\ op.obj # o /\ op.obj \in Object
  BY <1>1, EventOf
<1>3. /\ object'[o] = Free /\ \A p \in Object \ {o} : object'[p] = object[p]
      /\ Free.status = "FREE" /\ Free.call = NoCall
  BY <1>1 DEF CallInv, TypeOK, Free
<1>4. TypeOK'
  <2>1. Free \in [status : Status, type : Type \cup {"none"}, call : Call \cup {NoCall}]
    BY DEF Free, Status
  <2> QED
    BY <1>1, <2>1 DEF CallInv, TypeOK
<1>5. ServesItsType'
  BY <1>3 DEF CallInv, ServesItsType
<1>6. OpFitsStatus'
  <2> SUFFICES ASSUME NEW op \in ops'
               PROVE  OpFits(op)'
    BY DEF OpFitsStatus
  <2>1. OpFits(op) /\ object'[op.obj] = object[op.obj]
    BY <1>2, <1>3 DEF CallInv, OpFitsStatus
  <2> QED
    BY <1>1, <2>1 DEF OpFits
<1>7. OneOpEach'
  BY <1>1 DEF CallInv, OneOpEach
<1>8. ServedByOne'
  BY <1>3 DEF CallInv, ServedByOne
<1>9. NotYetAnswered' /\ AnsweredOnce'
  BY <1>1, <1>3 DEF CallInv, NotYetAnswered, AnsweredOnce
<1>10. ListenerPerType'
  <2>1. \A p \in Object, t \in Type : IsListener(p, t)' <=> IsListener(p, t)
    BY <1>1, <1>3 DEF IsListener
  <2> QED
    BY <2>1 DEF CallInv, ListenerPerType
<1>11. LeaksOnlyTheAbandoned'
  <2> SUFFICES ASSUME NEW p \in Object, object'[p].status # "FREE",
                      \A op \in ops' : op.obj # p
               PROVE  object'[p].status = "FINISH" /\ caller'[object'[p].call] = "gone"
    BY DEF LeaksOnlyTheAbandoned
  <2>1. object'[p] = object[p] /\ \A op \in ops : op.obj # p
    BY <1>1, <1>3
  <2> QED
    BY <1>1, <2>1 DEF CallInv, LeaksOnlyTheAbandoned
<1> QED
  BY <1>4, <1>5, <1>6, <1>7, <1>8, <1>9, <1>10, <1>11 DEF CallInv

\* The only event that can be dropped is that of an answer nobody waits for.
LEMMA DropEventInv ==
    ASSUME CallInv, NEW o \in Object, NEW e \in ops, e.obj = o, DropEvent(e)
    PROVE  CallInv'
<1>1. /\ e.state = "not ok" /\ ops' = ops \ {e}
      /\ UNCHANGED <<object, caller, running, decided, in_sync, syncs, finished>>
  BY DEF DropEvent, syncVars
<1>2. object[o].status = "FINISH" /\ caller[object[o].call] = "gone"
  BY <1>1, EventOf
<1>3. TypeOK'
  BY <1>1 DEF CallInv, TypeOK
<1>4. ServesItsType' /\ ServedByOne' /\ NotYetAnswered' /\ AnsweredOnce'
  BY <1>1 DEF CallInv, ServesItsType, ServedByOne, NotYetAnswered, AnsweredOnce
<1>5. OpFitsStatus' /\ OneOpEach'
  BY <1>1 DEF CallInv, OpFitsStatus, OpFits, OneOpEach
<1>6. ListenerPerType'
  BY <1>1 DEF CallInv, ListenerPerType, IsListener
<1>7. LeaksOnlyTheAbandoned'
  BY <1>1, <1>2 DEF CallInv, LeaksOnlyTheAbandoned
<1> QED
  BY <1>3, <1>4, <1>5, <1>6, <1>7 DEF CallInv

-----------------------------------------------------------------------------
(* The theorems *)

\* Every step keeps the invariant.
LEMMA NextCallInv == CallInv /\ [Next]_vars => CallInv'
<1> SUFFICES ASSUME CallInv, [Next]_vars
             PROVE  CallInv'
  OBVIOUS
<1>1. CASE \E c \in Call : CallMade(c) \/ GivesUp(c) \/ Received(c)
  BY <1>1, CallerInv, ReceivedInv
<1>2. ASSUME NEW o \in Object, AlarmFires(o) \/ AnswerSent(o)
      PROVE  CallInv'
  BY <1>2, AlarmFiresInv, AnswerSentInv
<1>3. ASSUME NEW o \in Object, HandleEvent(o)
      PROVE  CallInv'
  <2>1. PICK e \in ops : /\ e.obj = o
                         /\ \/ e.state = "ok" /\ (ProcessCall(o, e) \/ DeleteCall(o, e))
                            \/ DropEvent(e)
    BY <1>3 DEF HandleEvent
  <2> QED
    BY <2>1, ProcessCallInv, DeleteCallInv, DropEventInv
<1>4. CASE RoundDecided \/ SyncStarts \/ SyncEnds
  BY <1>4, ServerFlagsInv
<1>5. CASE UNCHANGED vars
  <2>1. UNCHANGED <<object, ops, caller, running, decided, in_sync, syncs, finished>>
    BY <1>5 DEF vars
  <2>2. TypeOK'
    BY <2>1 DEF CallInv, TypeOK
  <2> QED
    BY <2>1, <2>2, ObjectFrame
<1> QED
  BY <1>1, <1>2, <1>3, <1>4, <1>5 DEF Next

\* The state of a call object, what gRPC does for it and what its caller knows
\* fit together in every state, whatever calls come and whichever callers go.
THEOREM CallObjectsInvariance == Spec => []CallInv
<1>1. Init => CallInv
  BY InitCallInv
<1>2. CallInv /\ [Next]_vars => CallInv'
  BY NextCallInv
<1> QED
  BY <1>1, <1>2, PTL DEF Spec

\* The types of the call objects, their operations and the callers.
THEOREM CallTypeCorrectness == Spec => []TypeOK
<1>1. CallInv => TypeOK
  BY DEF CallInv
<1> QED
  BY <1>1, CallObjectsInvariance, PTL

\* No event of the completion queue is delivered to an object that was deleted, to
\* one that serves another call by now, or in another phase of its life.
THEOREM NoDanglingTags == Spec => []NoDanglingTag
<1>1. CallInv => NoDanglingTag
  <2> SUFFICES ASSUME CallInv, NEW op \in ops
               PROVE  /\ object[op.obj].status # "FREE"
                      /\ \A other \in ops : other.obj = op.obj => other = op
                      /\ op.kind = "finish" <=> object[op.obj].status = "FINISH"
    BY DEF NoDanglingTag
  <2>1. op.kind \in {"request", "alarm", "finish"} /\ OpFits(op)
    BY DEF CallInv, TypeOK, Op, OpFitsStatus
  <2>2. \A other \in ops : other.obj = op.obj => other = op
    BY DEF CallInv, OneOpEach
  <2> QED
    BY <2>1, <2>2 DEF OpFits
<1> QED
  BY <1>1, CallObjectsInvariance, PTL

\* A call is answered at most once, although the handler of a Transfer or a
\* TpcPrepare is run again by every alarm.
THEOREM AnsweredAtMostOnce == Spec => []AnsweredOnce
<1>1. CallInv => AnsweredOnce
  BY DEF CallInv
<1> QED
  BY <1>1, CallObjectsInvariance, PTL

\* There is exactly one listener of every type, at all times.
THEOREM AlwaysOneListener == Spec => []OneListener
<1>1. CallInv => OneListener
  <2> SUFFICES ASSUME CallInv, NEW t \in Type
               PROVE  Cardinality({o \in Object : object[o].status = "PROCESS"
                                                    /\ object[o].type = t}) = 1
    BY DEF OneListener
  <2>1. PICK x \in Object : \A o \in Object : IsListener(o, t) <=> o = x
    BY DEF CallInv, ListenerPerType
  <2>2. {o \in Object : object[o].status = "PROCESS" /\ object[o].type = t} = {x}
    BY <2>1 DEF IsListener
  <2> QED
    BY <2>2, FS_Singleton
<1> QED
  BY <1>1, CallObjectsInvariance, PTL

\* The only objects that are never deleted are those whose answer failed because
\* the caller was gone.
THEOREM OnlyTheAbandonedLeak == Spec => []LeaksOnlyTheAbandoned
<1>1. CallInv => LeaksOnlyTheAbandoned
  BY DEF CallInv
<1> QED
  BY <1>1, CallObjectsInvariance, PTL

=============================================================================
