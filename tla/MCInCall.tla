------------------------------ MODULE MCInCall ------------------------------
(* Two transfers that compete for runPaxos and one call of a peer. *)
EXTENDS InCall

CallTypes == [c \in Call |-> IF c = "accept" THEN "ACCEPT" ELSE "TRANSFER"]
=============================================================================
