--------------------------- MODULE MCReplication ----------------------------
(* One cluster and transfers inside its shard: clients 1 and 2. *)
EXTENDS StableLeader

\* The first transfer empties account 1; the second is refused unless it comes
\* after the first.
Transfers == <<[sender |-> 1, receiver |-> 2, amount |-> 2],
               [sender |-> 2, receiver |-> 1, amount |-> 3],
               [sender |-> 1, receiver |-> 2, amount |-> 1]>>

TwoTransfers == SubSeq(Transfers, 1, 2)

\* All transfers in one set, to one leader.
OneSet == <<[transactions |-> Tid, disconnected |-> {}, leaders |-> <<1>>]>>

\* Server 3 misses the first set and leads the second while 1 is cut off;
\* server 2 leads the third.
FailoverSets ==
    <<[transactions |-> {1}, disconnected |-> {3}, leaders |-> <<1>>],
      [transactions |-> {2}, disconnected |-> {1}, leaders |-> <<3>>],
      [transactions |-> {3}, disconnected |-> {}, leaders |-> <<2>>]>>

\* Two sets with different leaders, everyone connected.
TwoLeaders ==
    <<[transactions |-> {1}, disconnected |-> {}, leaders |-> <<1>>],
      [transactions |-> {2}, disconnected |-> {}, leaders |-> <<2>>]>>

\* The leader of the first set is cut off in the second.
LeaderCutOff ==
    <<[transactions |-> {1}, disconnected |-> {}, leaders |-> <<1>>],
      [transactions |-> {3}, disconnected |-> {1}, leaders |-> <<2>>]>>

\* Server 3 misses the first set and catches up during the second.
LeftBehind ==
    <<[transactions |-> {1}, disconnected |-> {3}, leaders |-> <<1>>],
      [transactions |-> {2, 3}, disconnected |-> {}, leaders |-> <<1>>]>>
=============================================================================
