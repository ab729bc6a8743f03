-------------------------------- MODULE Wal ---------------------------------
(***************************************************************************)
(* The write-ahead log of one server (wal.cc): a text file that is only    *)
(* appended to, and transferIndex, which remembers where in it each        *)
(* undecided transaction was prepared.  A decision names only a tid; the   *)
(* rest of the transaction is read back from the file.  The in-memory log  *)
(* that ServerImpl keeps of the returned entries is modelled with it.      *)
(*                                                                         *)
(* A line is its words; the transaction in it is named by the tid it       *)
(* belongs to.  A position is the number of a line.  The file is opened    *)
(* for every access, and never truncated: a server starts with the lines   *)
(* earlier processes left.                                                 *)
(***************************************************************************)
EXTENDS Integers, SequencesExt

CONSTANTS
    CrossTid,       \* the cross-shard transactions
    IntraTid,       \* the transactions inside the shard
    BallotNum,      \* the ballots they are proposed with
    Leftover,       \* the lines found at start-up
    Faults,         \* what may go wrong, a subset of {"open", "write"}
    MaxEntries      \* bound: nothing is appended to a log this long

Tid    == CrossTid \cup IntraTid
Absent == -1        \* tid of the entry that stands for an error

Command  == {"CS_PREPARE", "CS_COMMIT", "CS_ABORT", "IN_COMMIT", "IS_COMMIT", "CS_"}
Line     == [command : Command, tid : Int, ballot : Int, txn : Int]
WALEntry == [tid : Int, ballot : Int, txn : Int, type : {"INTRA", "CROSS"},
             status : {"NO_STATUS", "PREPARED", "COMMITTED", "ABORTED"}]

ASSUME WalAssumption ==
    /\ CrossTid \cap IntraTid = {} /\ Tid \subseteq Nat /\ BallotNum \subseteq Nat
    /\ Leftover \in Seq(Line)
    /\ Faults \subseteq {"open", "write"}
    /\ MaxEntries \in Nat

VARIABLES
    file,           \* the lines of walFile
    transferIndex,  \* [tid -> position], where tid is prepared and undecided
    log,            \* ServerImpl::log
    faulty          \* history: an open or a write has failed

walVars == <<file, transferIndex, log, faulty>>

TypeOK ==
    /\ file \in Seq(Line)
    /\ DOMAIN transferIndex \subseteq Tid
    /\ \A tid \in DOMAIN transferIndex : transferIndex[tid] \in Nat \cup {-1}
    /\ log \in Seq(WALEntry)
    /\ faulty \in BOOLEAN

Init ==
    /\ file = Leftover
    /\ transferIndex = <<>>
    /\ log = <<>>
    /\ faulty = FALSE

-----------------------------------------------------------------------------
(* Files *)

Entry(tid, ballot, txn, type, status) ==
    [tid |-> tid, ballot |-> ballot, txn |-> txn, type |-> type, status |-> status]

ErrorEntry == Entry(Absent, -1, -1, "CROSS", "NO_STATUS")

LineOf(command, tid, ballot, txn) ==
    [command |-> command, tid |-> tid, ballot |-> ballot, txn |-> txn]

\* One access to the file: it succeeds, or the file cannot be opened, or the
\* line is lost although the stream was opened (no one looks at its state).
Access == {"done"} \cup Faults

Note(accesses) == faulty' = (faulty \/ \E a \in accesses : a # "done")

\* Mutant: the file is opened without std::ios::app.
Written_Truncates(access, line) == IF access = "done" THEN <<line>> ELSE file

\* What is on the disk after a line was written.
Written(access, line) == IF access = "done" THEN Append(file, line) ELSE file

\* Mutant: the position is taken after the line was written.
tellp_After(access) == IF access = "open" THEN -1 ELSE Len(file) + 2

\* The position of a stream opened for appending; -1 when it is not open.
tellp(access) == IF access = "open" THEN -1 ELSE Len(file) + 1

Remember(tid, position) ==
    [t \in DOMAIN transferIndex \cup {tid} |->
        IF t = tid THEN position ELSE transferIndex[t]]

\* The values an uninitialised tid, ballot and transaction may have.
Garbage == {Entry(t, b, x, "CROSS", "PREPARED") :
               t \in Tid \cup {Absent}, b \in BallotNum, x \in Tid}

\* WAL::getTransactionFromFile: the entries it may return.  The command word is
\* not looked at.  A position that is not the start of a line gives an empty
\* string, and then the variables keep what was on the stack.
getTransactionFromFile(position) ==
    IF position \in DOMAIN file
    THEN {Entry(file[position].tid, file[position].ballot, file[position].txn,
                "CROSS", "PREPARED")}
    ELSE Garbage

-----------------------------------------------------------------------------
(* The operations of WAL with what ServerImpl does with the entry returned *)

\* ServerImpl::prepareTransaction.  The entry is returned in any case.
prepareTransaction(tid, ballot, access) ==
    /\ file' = Written(access, LineOf("CS_PREPARE", tid, ballot, tid))
    /\ transferIndex' = Remember(tid, tellp(access))
    /\ log' = Append(log, Entry(tid, ballot, tid, "CROSS", "PREPARED"))
    /\ Note({access})

\* ServerImpl::commitTransaction, which logs the error entry too.
commitIntra(tid, ballot, access) ==
    /\ file' = Written(access, LineOf("IN_COMMIT", tid, ballot, tid))
    /\ log' = Append(log, IF access = "open" THEN ErrorEntry
                          ELSE Entry(tid, ballot, tid, "INTRA", "COMMITTED"))
    /\ Note({access})
    /\ UNCHANGED transferIndex

\* Mutant: the transaction stays in transferIndex.
Resolved_Kept(tid) == transferIndex

\* transferIndex.erase
Resolved(tid) == [t \in DOMAIN transferIndex \ {tid} |-> transferIndex[t]]

\* WAL::commitTransaction(TpcTid) and WAL::abortTransaction for a tid that is
\* prepared, with the first lines of ServerImpl::processTpcDecision.  For any
\* other tid nothing happens.
processTpcDecision(tid, isCommit, reading, writing) ==
    \E e \in IF reading = "open" THEN {ErrorEntry}
             ELSE getTransactionFromFile(transferIndex[tid]) :
       /\ \/ /\ writing = "open"
             /\ UNCHANGED <<file, transferIndex, log>>
          \/ /\ writing # "open"
             /\ file' = Written(writing, LineOf(IF isCommit THEN "CS_COMMIT" ELSE "CS_ABORT",
                                                tid, e.ballot, e.txn))
             /\ transferIndex' = Resolved(tid)
             /\ log' = IF e.tid = Absent THEN log
                       ELSE Append(log, [e EXCEPT !.status =
                                IF isCommit THEN "COMMITTED" ELSE "ABORTED"])
       /\ Note({reading, writing})

\* The command word of an entry that comes from a peer; a bare prefix for the
\* error entry of a peer whose file could not be opened.
SyncedCommand(e) ==
    IF e.type = "INTRA" THEN "IS_COMMIT"
    ELSE CASE e.status = "PREPARED"  -> "CS_PREPARE"
           [] e.status = "COMMITTED" -> "CS_COMMIT"
           [] e.status = "ABORTED"   -> "CS_ABORT"
           [] OTHER                  -> "CS_"

\* The loop of ServerImpl::handleSyncReply with WAL::insertEntry: the file is
\* opened once for each entry, access[i] for the i-th.
handleSyncReply(entries, access) ==
    LET inserted   == {i \in DOMAIN entries : access[i] # "open"}
        kept       == {i \in DOMAIN entries : access[i] = "done"}
        line(i)    == LineOf(SyncedCommand(entries[i]), entries[i].tid,
                             entries[i].ballot, entries[i].txn)
        position(i) == Len(file) + Cardinality({j \in kept : j < i}) + 1
        last(tid)  == {i \in inserted : /\ entries[i].tid = tid
                                        /\ \A j \in inserted : entries[j].tid = tid => j =< i}
        synced     == {entries[i].tid : i \in inserted}
        open       == {t \in synced : \A i \in last(t) : entries[i].status = "PREPARED"}
    IN
    /\ file' = file \o FlattenSeq([i \in DOMAIN entries |->
                           IF i \in kept THEN <<line(i)>> ELSE <<>>])
    /\ transferIndex' = [t \in (DOMAIN transferIndex \ synced) \cup open |->
                           IF t \in open THEN position(CHOOSE i \in last(t) : TRUE)
                           ELSE transferIndex[t]]
    /\ log' = log \o entries
    /\ Note({access[i] : i \in DOMAIN entries})

-----------------------------------------------------------------------------
(* The specification *)

\* The entries another server's log may hold, the error entry included; but not
\* one that the peer decided from unset variables.
PeerEntry ==
    {Entry(t, b, t, "CROSS", s) : t \in CrossTid, b \in BallotNum,
                                  s \in {"PREPARED", "COMMITTED", "ABORTED"}}
      \cup {Entry(t, b, t, "INTRA", "COMMITTED") : t \in IntraTid, b \in BallotNum}
      \cup {ErrorEntry}

Next ==
    /\ Len(log) < MaxEntries
    /\ \/ \E tid \in CrossTid, b \in BallotNum, a \in Access : prepareTransaction(tid, b, a)
       \/ \E tid \in IntraTid, b \in BallotNum, a \in Access : commitIntra(tid, b, a)
       \/ \E tid \in DOMAIN transferIndex, c \in BOOLEAN, r \in Access, w \in Access :
             processTpcDecision(tid, c, r, w)
       \/ \E e1, e2 \in PeerEntry, a1, a2 \in Access :
             handleSyncReply(<<e1, e2>>, <<a1, a2>>)

Spec == Init /\ [][Next]_walVars

-----------------------------------------------------------------------------
(* Properties *)

\* Where transferIndex points into the file there is the PREPARE line of that
\* very transaction, however the file grew and whichever opens failed: a
\* decision never brings back a line of another transaction.
IndexPointsHome ==
    \A tid \in DOMAIN transferIndex :
        LET p == transferIndex[tid] IN
        p \in DOMAIN file =>
            file[p].command = "CS_PREPARE" /\ file[p].tid = tid /\ file[p].txn = tid

\* The prepared entries of the log that no later entry of their tid resolves.
Unresolved ==
    {log[i] : i \in {j \in DOMAIN log :
        /\ log[j].status = "PREPARED"
        /\ \A k \in (j + 1) .. Len(log) : log[k].tid # log[j].tid}}

\* As long as the disk works, what a decision reads back is exactly the latest
\* prepared entry of the log for each undecided transaction, its ballot included,
\* also when it came by Sync or was prepared twice.  Module ServerImpl relies on
\* this: its variable prepared is this set.
IndexIsUnresolved ==
    ~faulty =>
        Unresolved = UNION {getTransactionFromFile(transferIndex[tid]) :
                               tid \in DOMAIN transferIndex}

\* What a line says, as an entry of the log.
Decode(line) ==
    Entry(line.tid, line.ballot, line.txn,
          IF line.command \in {"IN_COMMIT", "IS_COMMIT"} THEN "INTRA" ELSE "CROSS",
          CASE line.command = "CS_PREPARE" -> "PREPARED"
            [] line.command = "CS_ABORT"   -> "ABORTED"
            [] line.command = "CS_"        -> "NO_STATUS"
            [] OTHER                       -> "COMMITTED")

\* As long as the disk works, the lines written since the start tell the whole
\* log, in order: the log could be rebuilt from the file.
FileTellsLog ==
    ~faulty =>
        log = [i \in 1 .. (Len(file) - Len(Leftover)) |-> Decode(file[Len(Leftover) + i])]

=============================================================================
