---------------------------- MODULE AtomicCommit ----------------------------
(***************************************************************************)
(* What two-phase commit promises: every transaction has one outcome,      *)
(* commit exactly when all the shards it touches voted yes, fixed once and *)
(* for all before any replica records it.  How votes and outcomes travel,  *)
(* and which processes fail, does not appear here.                         *)
(***************************************************************************)
EXTENDS Naturals

CONSTANTS
    Replica,
    Transaction,
    Participants    \* [Transaction -> the shards it touches]

VARIABLES
    yes,            \* {<<shard, transaction>>}: the votes for commit
    decided,        \* [Transaction -> "none", "commit" or "abort"]
    recorded        \* [Replica -> [Transaction -> what the replica has recorded]]

Undecided == [t \in Transaction |-> "none"]

Init ==
    /\ yes = {}
    /\ decided = Undecided
    /\ recorded = [r \in Replica |-> Undecided]

VotedByAll(t) == \A c \in Participants[t] : <<c, t>> \in yes

Vote(t) ==
    /\ decided[t] = "none"
    /\ \E c \in Participants[t] : yes' = yes \cup {<<c, t>>}
    /\ UNCHANGED <<decided, recorded>>

Decide(t) ==
    /\ decided[t] = "none"
    /\ decided' = [decided EXCEPT ![t] = IF VotedByAll(t) THEN "commit" ELSE "abort"]
    /\ UNCHANGED <<yes, recorded>>

\* A replica may learn several outcomes at once.
Learn(r) ==
    /\ UNCHANGED <<yes, decided>>
    /\ \E news \in SUBSET {t \in Transaction : decided[t] # "none"} :
          recorded' = [recorded EXCEPT ![r] =
                          [t \in Transaction |-> IF t \in news THEN decided[t] ELSE @[t]]]

Next ==
    \/ \E r \in Replica : Learn(r)
    \/ \E t \in Transaction : Vote(t) \/ Decide(t)

Spec == Init /\ [][Next]_<<yes, decided, recorded>>

=============================================================================
