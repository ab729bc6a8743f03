------------------------------ MODULE Sharding ------------------------------
(***************************************************************************)
(* How servers and bank clients are spread over clusters: the constants of *)
(* constants.h and the mapping functions of utils.cc.                      *)
(*                                                                         *)
(* Servers and clients are the program's own integer ids, both numbered    *)
(* from 1.  utils.cc computes ceil((double) a / b); for the positive ids   *)
(* of the program this is integer division rounded up.                     *)
(***************************************************************************)
EXTENDS Integers

CONSTANTS
    NumClusters,    \* constants::num_clusters, first argument of the driver
    ClusterSize,    \* constants::cluster_size, second argument of the driver
    TotalClients    \* constants::total_clients

ASSUME ShardingAssumption ==
    /\ NumClusters \in Nat \ {0}
    /\ ClusterSize \in Nat \ {0}
    /\ TotalClients \in Nat \ {0}

CeilDiv(a, b) == (a + b - 1) \div b

getClusterIdFromClientId(id) == CeilDiv(id * NumClusters, TotalClients)

getClusterIdFromServerId(id) == CeilDiv(id, ClusterSize)

\* setupApplicationState numbers the servers S1, S2, ... cluster by cluster.
Server == 1 .. (NumClusters * ClusterSize)

ClientId == 1 .. TotalClients

isClientInCluster(client, cluster) == getClusterIdFromClientId(client) = cluster

getServersInCluster(cluster) ==
    {s \in Server : getClusterIdFromServerId(s) = cluster}

\* ServerImpl::isClientInCluster: the client's account is kept by server s.
InClusterOf(s, client) == isClientInCluster(client, getClusterIdFromServerId(s))

\* The accounts of the shard that server s replicates.
Shard(s) == {client \in ClientId : InClusterOf(s, client)}

\* The peers a server opens a stub for in ServerImpl::run.
stubs(s) == getServersInCluster(getClusterIdFromServerId(s)) \ {s}

=============================================================================
