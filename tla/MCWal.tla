------------------------------- MODULE MCWal --------------------------------
(* Two cross-shard transactions and one inside the shard. *)
EXTENDS Wal

\* An earlier process died with a transaction prepared.
EarlierRun == <<LineOf("CS_PREPARE", 9, 1, 9)>>
=============================================================================
