----------------------------- MODULE CsvReader ------------------------------
(***************************************************************************)
(* How the client program cuts its input file into transaction sets        *)
(* (csv_reader.cc), one set for every processNextSet of the operator.  The *)
(* only sign of a new set is a row with the number that comes next, so a   *)
(* set is complete only when the first row of the following one has been   *)
(* read, and that row is kept for the next call.                           *)
(*                                                                         *)
(* A row is what parseCSVLine makes of it; the transaction and the leaders *)
(* of a row are named by the number of its line.                           *)
(***************************************************************************)
EXTENDS Integers, Sequences, FiniteSetsExt

CONSTANTS
    ServerId,       \* the names in constants::server_ids
    SetNo,          \* the numbers written in front of sets
    Alive,          \* the server columns
    MaxRows,        \* bound: the length of the file
    MaxCalls        \* bound: how often the operator asks for a set

ASSUME CsvAssumption ==
    /\ SetNo \subseteq Nat \ {0}
    /\ Alive \subseteq SUBSET ServerId
    /\ MaxRows \in Nat /\ MaxCalls \in Nat

VARIABLES
    rows,           \* the file
    pos,            \* how many of its lines were read
    currentSetNo,
    currentTransactionSet,
    nextTransactionSet,
    answer,         \* how the last call ended
    returned        \* history: the sets handed to the client

csvVars == <<rows, pos, currentSetNo, currentTransactionSet, nextTransactionSet,
             answer, returned>>

-----------------------------------------------------------------------------
(* Rows *)

Unnumbered == -1

\* A row whose columns are missing or hold no numbers, an empty line included:
\* parseCSVLine throws.
Malformed == [set_no |-> 0, servers |-> {}]

CSVLine ==
    {Malformed} \cup [set_no : {Unnumbered}, servers : {{}}]
                \cup [set_no : SetNo, servers : Alive]

\* A set under construction.  leaders is the line they were read from, 0 if none.
EmptySet == [transactions |-> <<>>, servers |-> {}, leaders |-> 0]

Init ==
    /\ rows \in UNION {[1 .. n -> CSVLine] : n \in 0 .. MaxRows}
    /\ pos = 0
    /\ currentSetNo = 0
    /\ currentTransactionSet = EmptySet
    /\ nextTransactionSet = EmptySet
    /\ answer = "not asked"
    /\ returned = <<>>

-----------------------------------------------------------------------------
(* readNextSet *)

\* The loop ends at the first row of the following set, at a row that cannot be
\* parsed, or behind the last row.
EndsLoop(i, no) == rows[i] = Malformed \/ rows[i].set_no = no + 1

Stop(no) ==
    Min({i \in (pos + 1) .. Len(rows) : EndsLoop(i, no)} \cup {Len(rows) + 1})

\* Mutant: the transactions of the next set are not cleared.
Cleared_Kept(set) == [set EXCEPT !.servers = {}]

\* What is left of the set that is swapped out: its leaders are not cleared.
Cleared(set) == [set EXCEPT !.servers = {}, !.transactions = <<>>]

\* Mutant: an unnumbered row replaces servers and leaders too.
Headers_All(no, last) == (pos + 1) .. last

\* The rows among those read that carry the number of the set.
Headers(no, last) == {i \in (pos + 1) .. last : rows[i].set_no = no}

\* The current set after the rows up to last: the row kept by the last call,
\* then every row read, whatever its number.  Servers and leaders are those of
\* the last row that has the number of the set.
Assembled(no, last) ==
    LET headers == Headers(no, last)
        kept    == nextTransactionSet
    IN  [transactions |-> kept.transactions \o [i \in 1 .. (last - pos) |-> pos + i],
         servers |-> IF headers = {} THEN kept.servers ELSE rows[Max(headers)].servers,
         leaders |-> IF headers = {} THEN kept.leaders ELSE Max(headers)]

\* Mutants: the row that starts the next set is dropped, or its servers are.
Kept_Nothing(i)   == EmptySet
Kept_NoServers(i) == [transactions |-> <<i>>, servers |-> {}, leaders |-> i]

\* The row that starts the next set is kept for the next call.
Kept(i) == [transactions |-> <<i>>, servers |-> rows[i].servers, leaders |-> i]

disconnected(servers) == ServerId \ servers

readNextSet ==
    LET no   == currentSetNo + 1
        stop == Stop(no)
        set  == Assembled(no, stop - 1)
        swapped == Cleared(currentTransactionSet)
    IN
    /\ currentSetNo < MaxCalls
    /\ currentSetNo' = no
    /\ currentTransactionSet' = set
    /\ UNCHANGED rows
    /\ \/ \* an exception from the parser, which mainloop reports
          /\ stop =< Len(rows) /\ rows[stop] = Malformed
          /\ pos' = stop
          /\ nextTransactionSet' = swapped
          /\ answer' = "exception"
          /\ UNCHANGED returned
       \/ \* the row of the next set was reached, or the end of the file
          /\ stop =< Len(rows) => rows[stop] # Malformed
          /\ pos' = Min({stop, Len(rows)})
          /\ nextTransactionSet' = IF stop =< Len(rows) THEN Kept(stop) ELSE swapped
          /\ \/ /\ set.transactions = <<>>
                /\ answer' = "no more sets"
                /\ UNCHANGED returned
             \/ /\ set.transactions # <<>>
                /\ answer' = "set"
                /\ returned' = Append(returned,
                      [set_no |-> no, transactions |-> set.transactions,
                       servers |-> set.servers, leaders |-> set.leaders,
                       disconnected |-> disconnected(set.servers)])

Next == readNextSet

Spec == Init /\ [][Next]_csvVars

-----------------------------------------------------------------------------
(* Properties *)

Numbered == {i \in DOMAIN rows : rows[i].set_no \in SetNo}

\* The file as it is meant to be: every row parses, and the numbered rows, the
\* first row being one, count 1, 2, 3, ...
WellFormed ==
    /\ \A i \in DOMAIN rows : rows[i] # Malformed
    /\ rows # <<>> => 1 \in Numbered
    /\ \A i \in Numbered : rows[i].set_no = Cardinality({j \in Numbered : j =< i})

\* The k-th set of a well-formed file, by definition: its numbered row and all
\* rows up to the next numbered one.
SetAsWritten(k) ==
    LET head == CHOOSE i \in Numbered : rows[i].set_no = k
        last == Min({i \in Numbered : i > head} \cup {Len(rows) + 1}) - 1
    IN  [set_no |-> k, transactions |-> [i \in 1 .. (last - head + 1) |-> head + i - 1],
         servers |-> rows[head].servers, leaders |-> head,
         disconnected |-> ServerId \ rows[head].servers]

\* From a well-formed file readNextSet returns the sets as they are written, one
\* after the other, although it reads one row too many each time and swaps the two
\* sets under construction; and it says "no more sets" only when all were returned.
SetsAsWritten ==
    WellFormed =>
        /\ returned = [k \in 1 .. Len(returned) |-> SetAsWritten(k)]
        /\ answer = "no more sets" => Len(returned) = Cardinality(Numbered)

Issued == UNION {{s.transactions[i] : i \in DOMAIN s.transactions} :
                    s \in {returned[k] : k \in DOMAIN returned}}

\* Whatever is in the file, no row becomes two transactions and the rows of one
\* set come before those of the next: the client never pays a row twice.
EachOnceInOrder ==
    \A j, k \in DOMAIN returned :
        \A a \in DOMAIN returned[j].transactions, b \in DOMAIN returned[k].transactions :
            (j < k \/ (j = k /\ a < b)) =>
                returned[j].transactions[a] < returned[k].transactions[b]

\* A row that was read and neither returned nor kept for the next call is lost
\* only together with all rows down to one that cannot be parsed, for which the
\* operator saw an exception.
LostOnlyAboveMalformed ==
    \A i \in 1 .. pos :
        \/ i \in Issued
        \/ \E k \in DOMAIN nextTransactionSet.transactions :
              nextTransactionSet.transactions[k] = i
        \/ \E j \in i .. pos : rows[j] = Malformed /\ i .. j \cap Issued = {}

\* A set that contains a row with its own number is run with the servers and the
\* leaders of that row, whatever was read, lost or skipped before: the swapped
\* sets never leak the columns of an older one.
NumberedRowGoverns ==
    \A k \in DOMAIN returned :
        LET set  == returned[k]
            head == {i \in DOMAIN rows :
                        /\ \E a \in DOMAIN set.transactions : set.transactions[a] = i
                        /\ rows[i].set_no = set.set_no}
        IN  head # {} => /\ set.servers = rows[Max(head)].servers
                         /\ set.leaders = Max(head)

=============================================================================
