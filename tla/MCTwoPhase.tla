---------------------------- MODULE MCTwoPhase ------------------------------
(* Two clusters with one account each, and cross-shard transfers. *)
EXTENDS TpcRefinement

\* The two transfers need the same two locks; the first one empties account 1.
Conflicting == <<[sender |-> 1, receiver |-> 2, amount |-> 2],
                 [sender |-> 2, receiver |-> 1, amount |-> 1]>>

\* Each of the two can be paid from account 1, but not both.
SameSender == <<[sender |-> 1, receiver |-> 2, amount |-> 2],
                [sender |-> 1, receiver |-> 2, amount |-> 1]>>

OneTransfer == SubSeq(Conflicting, 1, 1)

\* All transfers in one set; the leaders are the first servers of the clusters.
OneSet == <<[transactions |-> Tid, disconnected |-> {},
             leaders |-> <<1, ClusterSize + 1>>]>>
=============================================================================
