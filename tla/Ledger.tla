------------------------------- MODULE Ledger -------------------------------
(***************************************************************************)
(* What a cluster promises for the transfers inside its shard: it behaves  *)
(* like one ledger.  A transfer enters the ledger once, at its end, and    *)
(* only when the balance after all earlier transfers pays for it.  Every   *)
(* replica applies the ledger in order, each transfer once, and clients    *)
(* are told only of transfers that are in the ledger for good.             *)
(***************************************************************************)
EXTENDS Integers, SequencesExt

CONSTANTS
    Replica,
    Account,
    Transfer,       \* [id -> [sender, receiver, amount]]
    Initial         \* the balance every account starts with

VARIABLES
    ledger,         \* the transfers, in the order agreed upon
    applied,        \* [Replica -> how much of the ledger it has applied]
    balance,        \* [Replica -> [Account -> balance]]
    confirmed       \* the transfers confirmed to their client

Init ==
    /\ ledger = <<>>
    /\ applied = [r \in Replica |-> 0]
    /\ balance = [r \in Replica |-> [a \in Account |-> Initial]]
    /\ confirmed = {}

\* The balances of replica r once it has also applied the transfers ids.
After(r, ids) ==
    [a \in Account |-> balance[r][a]
        + MapThenSumSet(LAMBDA i : IF Transfer[ids[i]].receiver = a
                                   THEN Transfer[ids[i]].amount ELSE 0, DOMAIN ids)
        - MapThenSumSet(LAMBDA i : IF Transfer[ids[i]].sender = a
                                   THEN Transfer[ids[i]].amount ELSE 0, DOMAIN ids)]

\* A replica that is up to date adds a transfer to the ledger.
Enter(r, id) ==
    /\ applied[r] = Len(ledger)
    /\ id \notin Range(ledger)
    /\ balance[r][Transfer[id].sender] >= Transfer[id].amount
    /\ ledger' = Append(ledger, id)
    /\ applied' = [applied EXCEPT ![r] = @ + 1]
    /\ balance' = [balance EXCEPT ![r] = After(r, <<id>>)]
    /\ UNCHANGED confirmed

CatchUp(r) ==
    /\ \E n \in (applied[r] + 1) .. Len(ledger) :
          /\ applied' = [applied EXCEPT ![r] = n]
          /\ balance' = [balance EXCEPT ![r] =
                            After(r, SubSeq(ledger, applied[r] + 1, n))]
    /\ UNCHANGED <<ledger, confirmed>>

Confirm(id) ==
    /\ id \in Range(ledger)
    /\ confirmed' = confirmed \cup {id}
    /\ UNCHANGED <<ledger, applied, balance>>

Next ==
    \/ \E r \in Replica : CatchUp(r) \/ \E id \in DOMAIN Transfer : Enter(r, id)
    \/ \E id \in DOMAIN Transfer : Confirm(id)

Spec == Init /\ [][Next]_<<ledger, applied, balance, confirmed>>

=============================================================================
