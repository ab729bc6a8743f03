-------------------------- MODULE CsvReaderProofs ---------------------------
(***************************************************************************)
(* The sets of a file, for files of any length with any numbers in them:   *)
(* no row is issued twice or lost silently, the row with the number of a   *)
(* set gives it its servers and leaders, and a well-formed file is         *)
(* returned as it is written.                                              *)
(***************************************************************************)
EXTENDS CsvReader, FiniteSetTheorems, SequenceTheorems, TLAPS

-----------------------------------------------------------------------------
(* Least and greatest numbers *)

\* A set of numbers that is not empty has a least one.
LEMMA LeastExists ==
    ASSUME NEW S \in SUBSET Nat, S # {}
    PROVE  \E x \in S : \A y \in S : x =< y
<1>1. PICK x \in S : \A y \in S : ~(<<y, x>> \in OpToRel(<, Nat))
  BY NatLessThanWellFounded, WFMin
<1>2. \A y \in S : ~(y < x)
  BY <1>1 DEF OpToRel
<1> QED
  BY <1>2

\* What Min is.
LEMMA MinIs ==
    ASSUME NEW S \in SUBSET Nat, S # {}
    PROVE  Min(S) \in S /\ \A y \in S : Min(S) =< y
  BY LeastExists DEF Min

\* What Max is, of numbers that have a bound.
LEMMA MaxIs ==
    ASSUME NEW S \in SUBSET Nat, S # {}, NEW b \in Nat, \A x \in S : x =< b
    PROVE  Max(S) \in S /\ \A y \in S : Max(S) >= y
<1> DEFINE T == {b - x : x \in S}
<1>1. T \in SUBSET Nat /\ T # {}
  <2>1. \A x \in S : b - x \in Nat
    OBVIOUS
  <2> QED
    BY <2>1
<1>2. PICK t \in T : \A u \in T : t =< u
  BY <1>1, LeastExists
<1>3. PICK x \in S : t = b - x
  BY <1>2
<1>4. \A y \in S : b - y \in T
  OBVIOUS
<1> HIDE DEF T
<1>5. \A y \in S : x >= y
  BY <1>2, <1>3, <1>4
<1> QED
  BY <1>5 DEF Max

-----------------------------------------------------------------------------
(* The inductive invariant *)

Draft == [transactions : Seq(Nat), servers : SUBSET ServerId, leaders : Nat]

ReaderTypeOK ==
    /\ rows \in Seq(CSVLine)
    /\ pos \in 0 .. Len(rows)
    /\ currentSetNo \in Nat
    /\ currentTransactionSet \in Draft
    /\ nextTransactionSet \in Draft
    /\ returned \in Seq([set_no : Nat, transactions : Seq(Nat), servers : SUBSET ServerId,
                         leaders : Nat, disconnected : SUBSET ServerId])

\* What is kept for the next call is the last row that was read, or nothing.
LastRowKept ==
    \/ nextTransactionSet.transactions = <<>>
    \/ pos # 0 /\ rows[pos] # Malformed /\ nextTransactionSet = Kept(pos)

\* The first row of the next set.
FirstRow == pos + 1 - Len(nextTransactionSet.transactions)

\* The rows of the sets that were returned are above it.
ReturnedAbove ==
    \A k \in DOMAIN returned : \A a \in DOMAIN returned[k].transactions :
        returned[k].transactions[a] \in 1 .. (FirstRow - 1)

ReaderInv ==
    /\ ReaderTypeOK
    /\ LastRowKept
    /\ ReturnedAbove
    /\ EachOnceInOrder
    /\ LostOnlyAboveMalformed
    /\ NumberedRowGoverns

-----------------------------------------------------------------------------
(* One call of readNextSet *)

\* The rows before Stop are read into the set, the one at Stop ends it.
LEMMA StopIs ==
    ASSUME ReaderTypeOK, NEW no \in Nat
    PROVE  /\ Stop(no) \in (pos + 1) .. (Len(rows) + 1)
           /\ Stop(no) =< Len(rows) => EndsLoop(Stop(no), no)
           /\ \A i \in (pos + 1) .. (Stop(no) - 1) : ~EndsLoop(i, no)
<1> DEFINE S == {i \in (pos + 1) .. Len(rows) : EndsLoop(i, no)} \cup {Len(rows) + 1}
<1>0. pos \in Nat /\ Len(rows) \in Nat /\ pos =< Len(rows)
  BY DEF ReaderTypeOK
<1>1. S \in SUBSET Nat /\ S # {} /\ Stop(no) = Min(S)
  BY <1>0 DEF Stop
<1>2. Stop(no) \in S /\ \A i \in S : Stop(no) =< i
  <2> HIDE DEF S
  <2> QED
    BY <1>1, MinIs
<1>3. \A i \in (pos + 1) .. Len(rows) : EndsLoop(i, no) => i \in S
  OBVIOUS
<1>4. /\ Stop(no) \in (pos + 1) .. (Len(rows) + 1)
      /\ Stop(no) =< Len(rows) => EndsLoop(Stop(no), no)
  BY <1>0, <1>2
<1> HIDE DEF S
<1>5. ASSUME NEW i \in (pos + 1) .. (Stop(no) - 1), EndsLoop(i, no) PROVE FALSE
  BY <1>0, <1>2, <1>3, <1>4, <1>5
<1> QED
  BY <1>4, <1>5

\* A row of the file.
LEMMA RowIs ==
    ASSUME ReaderTypeOK, NEW i \in 1 .. Len(rows)
    PROVE  /\ rows[i].servers \in SUBSET ServerId
           /\ rows[i].set_no \in {0, Unnumbered} \cup SetNo
           /\ rows[i].set_no = 0 => rows[i] = Malformed
<1>1. rows[i] \in CSVLine
  BY DEF ReaderTypeOK
<1>2. CASE rows[i] = Malformed
  BY <1>2 DEF Malformed
<1>3. CASE rows[i] \in [set_no : {Unnumbered}, servers : {{}}]
  BY <1>3 DEF Unnumbered
<1>4. CASE rows[i] \in [set_no : SetNo, servers : Alive]
  BY <1>4, CsvAssumption
<1> QED
  BY <1>1, <1>2, <1>3, <1>4 DEF CSVLine

\* The transactions of the set are consecutive rows, with the kept one in front.
LEMMA AssembledRows ==
    ASSUME ReaderTypeOK, LastRowKept, NEW no \in Nat, NEW last \in pos .. Len(rows)
    PROVE  LET t == Assembled(no, last).transactions
           IN  /\ FirstRow \in 1 .. (pos + 1)
               /\ t \in Seq(Nat)
               /\ Len(t) = last - FirstRow + 1
               /\ \A a \in 1 .. Len(t) : t[a] = FirstRow + a - 1
<1> DEFINE kept == nextTransactionSet.transactions
           q == [i \in 1 .. (last - pos) |-> pos + i]
<1>0. pos \in Nat /\ Len(rows) \in Nat /\ last \in Nat /\ pos =< last
  BY DEF ReaderTypeOK
<1>1. Assembled(no, last).transactions = kept \o q
  BY DEF Assembled
<1>2. q \in Seq(Nat) /\ Len(q) = last - pos /\ \A i \in 1 .. (last - pos) : q[i] = pos + i
  BY <1>0
<1> HIDE DEF q
<1>3. CASE kept = <<>>
  <2>1. FirstRow = pos + 1 /\ kept \o q = q
    BY <1>0, <1>2, <1>3 DEF FirstRow
  <2> QED
    BY <1>0, <1>1, <1>2, <2>1
<1>4. CASE pos # 0 /\ kept = <<pos>>
  <2>1. FirstRow = pos
    BY <1>0, <1>4 DEF FirstRow
  <2>2. /\ kept \o q \in Seq(Nat) /\ Len(kept \o q) = 1 + last - pos
        /\ \A a \in 1 .. (1 + last - pos) :
              (kept \o q)[a] = pos + a - 1
    <3>1. kept \in Seq(Nat) /\ Len(kept) = 1 /\ kept[1] = pos
      BY <1>0, <1>4
    <3> HIDE DEF kept
    <3>2. /\ kept \o q \in Seq(Nat) /\ Len(kept \o q) = Len(kept) + Len(q)
          /\ \A i \in 1 .. Len(kept) + Len(q) :
                (kept \o q)[i] = IF i <= Len(kept) THEN kept[i] ELSE q[i - Len(kept)]
      BY <1>2, <3>1, ConcatProperties, Zenon
    <3>3. Len(kept \o q) = 1 + last - pos
      BY <1>0, <1>2, <3>1, <3>2
    <3>4. ASSUME NEW a \in 1 .. (1 + last - pos) PROVE (kept \o q)[a] = pos + a - 1
      <4>1. (kept \o q)[a] = IF a <= 1 THEN pos ELSE q[a - 1]
        <5>1. a \in 1 .. Len(kept) + Len(q)
          BY <1>0, <1>2, <3>1
        <5>2. (kept \o q)[a] = IF a <= Len(kept) THEN kept[a] ELSE q[a - Len(kept)]
          BY <3>2, <5>1
        <5>3. a <= 1 => a = 1
          BY <1>0
        <5> HIDE DEF q
        <5> QED
          BY <3>1, <5>2, <5>3
      <4>2. a > 1 => a - 1 \in 1 .. (last - pos)
        BY <1>0
      <4> QED
        BY <1>0, <1>2, <4>1, <4>2
    <3> QED
      BY <3>2, <3>3, <3>4
  <2> QED
    BY <1>0, <1>1, <1>4, <2>1, <2>2
<1> QED
  BY <1>3, <1>4 DEF LastRowKept, Kept

\* What a call works on: the number of the set, the row at which it stops, and the
\* set it puts together and may hand to the client.
NextNo == currentSetNo + 1

StopRow == Stop(NextNo)

SetRead == Assembled(NextNo, StopRow - 1)

Handed ==
    [set_no |-> NextNo, transactions |-> SetRead.transactions, servers |-> SetRead.servers,
     leaders |-> SetRead.leaders, disconnected |-> disconnected(SetRead.servers)]

\* The set under construction is one, with the rows from FirstRow to StopRow.
LEMMA SetReadIs ==
    ASSUME ReaderTypeOK, LastRowKept
    PROVE  /\ NextNo \in Nat \ {0}
           /\ StopRow \in (pos + 1) .. (Len(rows) + 1)
           /\ FirstRow \in 1 .. (pos + 1)
           /\ SetRead \in Draft
           /\ Len(SetRead.transactions) = StopRow - FirstRow
           /\ \A a \in 1 .. (StopRow - FirstRow) : SetRead.transactions[a] = FirstRow + a - 1
<1> DEFINE H == Headers(NextNo, StopRow - 1)
           t == SetRead.transactions
<1>0. pos \in Nat /\ Len(rows) \in Nat /\ pos =< Len(rows) /\ currentSetNo \in Nat
  BY DEF ReaderTypeOK
<1>1. NextNo \in Nat \ {0}
  BY <1>0 DEF NextNo
<1>2. StopRow \in (pos + 1) .. (Len(rows) + 1)
  BY <1>1, StopIs DEF StopRow
<1>3. StopRow - 1 \in pos .. Len(rows)
  BY <1>0, <1>2
<1>4. /\ FirstRow \in 1 .. (pos + 1)
      /\ t \in Seq(Nat)
      /\ Len(t) = (StopRow - 1) - FirstRow + 1
      /\ \A a \in 1 .. Len(t) : t[a] = FirstRow + a - 1
  BY <1>1, <1>3, AssembledRows DEF SetRead
<1>5. nextTransactionSet \in Draft
  BY DEF ReaderTypeOK
<1>6. /\ SetRead.servers = IF H = {} THEN nextTransactionSet.servers ELSE rows[Max(H)].servers
      /\ SetRead.leaders = IF H = {} THEN nextTransactionSet.leaders ELSE Max(H)
      /\ SetRead = [transactions |-> t, servers |-> SetRead.servers, leaders |-> SetRead.leaders]
  BY DEF SetRead, Assembled
<1>7. H # {} => Max(H) \in 1 .. Len(rows)
  <2>1. H \in SUBSET Nat /\ \A x \in H : x =< Len(rows) /\ x >= 1
    BY <1>0, <1>3 DEF Headers
  <2> HIDE DEF H
  <2>2. H # {} => Max(H) \in H
    BY <1>0, <2>1, MaxIs, Zenon
  <2> SUFFICES ASSUME H # {} PROVE Max(H) \in 1 .. Len(rows)
    OBVIOUS
  <2> DEFINE m == Max(H)
  <2>3. m \in Nat /\ m =< Len(rows) /\ m >= 1
    BY <2>1, <2>2
  <2> HIDE DEF m
  <2>4. m \in 1 .. Len(rows)
    BY <1>0, <2>3
  <2> QED
    BY <2>4 DEF m
<1>8. SetRead.servers \in SUBSET ServerId /\ SetRead.leaders \in Nat
  <2> HIDE DEF H
  <2>1. CASE H = {}
    BY <1>5, <1>6, <2>1 DEF Draft
  <2>2. CASE H # {}
    <3>1. rows[Max(H)].servers \in SUBSET ServerId
      BY <1>7, <2>2, RowIs
    <3> QED
      BY <1>6, <1>7, <2>2, <3>1
  <2> QED
    BY <2>1, <2>2
<1>9. SetRead \in Draft
  <2> HIDE DEF t
  <2> QED
    BY <1>4, <1>6, <1>8 DEF Draft
<1>10. StopRow - 1 - FirstRow + 1 = StopRow - FirstRow
  BY <1>0, <1>2, <1>4
<1> QED
  BY <1>1, <1>2, <1>4, <1>9, <1>10

\* Clearing a set leaves its leaders.
LEMMA ClearedIs ==
    ASSUME NEW c \in Draft
    PROVE  Cleared(c) \in Draft /\ Cleared(c).transactions = <<>>
<1>1. ASSUME NEW e \in Seq(Nat), NEW z \in SUBSET ServerId
      PROVE  /\ [c EXCEPT !.servers = z, !.transactions = e] \in Draft
             /\ [c EXCEPT !.servers = z, !.transactions = e].transactions = e
  BY DEF Draft
<1>2. <<>> \in Seq(Nat) /\ {} \in SUBSET ServerId
  OBVIOUS
<1> QED
  BY <1>1, <1>2, Zenon DEF Cleared

\* How a call ends, and where the next one begins.
CallFails ==
    /\ StopRow =< Len(rows) /\ rows[StopRow] = Malformed
    /\ pos' = StopRow /\ FirstRow' = StopRow + 1
    /\ nextTransactionSet'.transactions = <<>>
    /\ answer' = "exception"
    /\ returned' = returned

CallEnds ==
    /\ StopRow =< Len(rows) => rows[StopRow] # Malformed
    /\ pos' = IF StopRow =< Len(rows) THEN StopRow ELSE Len(rows)
    /\ FirstRow' = StopRow
    /\ IF StopRow =< Len(rows) THEN nextTransactionSet' = Kept(StopRow)
       ELSE nextTransactionSet'.transactions = <<>>
    /\ \/ StopRow = FirstRow /\ answer' = "no more sets" /\ returned' = returned
       \/ StopRow # FirstRow /\ answer' = "set" /\ returned' = Append(returned, Handed)

\* readNextSet fails or ends, and keeps the state in its type.
LEMMA ReadIs ==
    ASSUME ReaderTypeOK, LastRowKept, readNextSet
    PROVE  /\ ReaderTypeOK' /\ LastRowKept'
           /\ rows' = rows /\ currentSetNo' = NextNo
           /\ CallFails \/ CallEnds
<1> DEFINE swapped == Cleared(currentTransactionSet)
           L == Len(rows)
<1>0. /\ pos \in Nat /\ L \in Nat /\ pos =< L /\ currentSetNo \in Nat
      /\ rows \in Seq(CSVLine) /\ currentTransactionSet \in Draft
  BY DEF ReaderTypeOK
<1>1. /\ NextNo \in Nat \ {0} /\ StopRow \in (pos + 1) .. (L + 1)
      /\ FirstRow \in 1 .. (pos + 1) /\ SetRead \in Draft
      /\ Len(SetRead.transactions) = StopRow - FirstRow
  BY SetReadIs
<1>2. swapped \in Draft /\ swapped.transactions = <<>>
  BY <1>0, ClearedIs
<1>3. Min({StopRow, L}) = IF StopRow =< L THEN StopRow ELSE L
  <2>1. {StopRow, L} \in SUBSET Nat /\ {StopRow, L} # {}
    BY <1>0, <1>1
  <2>2. Min({StopRow, L}) \in {StopRow, L} /\ \A y \in {StopRow, L} : Min({StopRow, L}) =< y
    BY <2>1, MinIs
  <2> QED
    BY <1>0, <1>1, <2>2
<1>4. /\ rows' = rows /\ currentSetNo' = NextNo /\ currentTransactionSet' = SetRead
      /\ \/ /\ StopRow =< L /\ rows[StopRow] = Malformed
            /\ pos' = StopRow
            /\ nextTransactionSet' = swapped
            /\ answer' = "exception"
            /\ returned' = returned
         \/ /\ StopRow =< L => rows[StopRow] # Malformed
            /\ pos' = IF StopRow =< L THEN StopRow ELSE L
            /\ nextTransactionSet' = IF StopRow =< L THEN Kept(StopRow) ELSE swapped
            /\ \/ /\ SetRead.transactions = <<>>
                  /\ answer' = "no more sets" /\ returned' = returned
               \/ /\ SetRead.transactions # <<>>
                  /\ answer' = "set" /\ returned' = Append(returned, Handed)
  BY <1>3 DEF readNextSet, NextNo, StopRow, SetRead, Handed
<1> HIDE DEF swapped
<1>5. SetRead.transactions = <<>> <=> StopRow = FirstRow
  <2>1. SetRead.transactions \in Seq(Nat)
    BY <1>1 DEF Draft
  <2> QED
    BY <1>0, <1>1, <2>1
<1>6. StopRow =< L => /\ Kept(StopRow) \in Draft
                      /\ Len(Kept(StopRow).transactions) = 1
  BY <1>0, <1>1, RowIs DEF Kept, Draft
<1>7. Len(<<>>) = 0
  OBVIOUS
<1>8. CASE /\ StopRow =< L /\ rows[StopRow] = Malformed
           /\ pos' = StopRow
           /\ nextTransactionSet' = swapped
           /\ answer' = "exception"
           /\ returned' = returned
  <2>1. CallFails
    <3>1. nextTransactionSet'.transactions = <<>>
      BY <1>2, <1>8
    <3>2. Len(nextTransactionSet'.transactions) = 0
      BY <3>1, <1>7
    <3>3. FirstRow' = StopRow + 1
      <4>1. FirstRow' = StopRow + 1 - 0
        BY <3>2, <1>8 DEF FirstRow
      <4>2. StopRow \in Int
        BY <1>0, <1>1
      <4> QED
        BY <4>1, <4>2
    <3> QED
      BY <1>8, <3>1, <3>3 DEF CallFails
  <2>2. ReaderTypeOK'
    BY <1>0, <1>1, <1>2, <1>4, <1>8 DEF ReaderTypeOK
  <2> QED
    BY <1>2, <1>4, <1>8, <2>1, <2>2 DEF LastRowKept
<1>9. CASE /\ StopRow =< L => rows[StopRow] # Malformed
           /\ pos' = IF StopRow =< L THEN StopRow ELSE L
           /\ nextTransactionSet' = IF StopRow =< L THEN Kept(StopRow) ELSE swapped
           /\ \/ /\ SetRead.transactions = <<>>
                 /\ answer' = "no more sets" /\ returned' = returned
              \/ /\ SetRead.transactions # <<>>
                 /\ answer' = "set" /\ returned' = Append(returned, Handed)
  <2>0. /\ StopRow =< L => pos' = StopRow /\ nextTransactionSet' = Kept(StopRow)
        /\ ~(StopRow =< L) => pos' = L /\ StopRow = L + 1 /\ nextTransactionSet' = swapped
    <3>1. StopRow \in Nat /\ StopRow =< L + 1
      BY <1>0, <1>1
    <3>2. CASE StopRow =< L
      BY <1>9, <3>2
    <3>3. CASE ~(StopRow =< L)
      <4>1. StopRow = L + 1
        BY <1>0, <3>1, <3>3
      <4> QED
        BY <1>9, <3>3, <4>1
    <3> QED
      BY <3>2, <3>3
  <2>1. FirstRow' = StopRow
    <3>0. StopRow \in Nat
      BY <1>0, <1>1
    <3>1. CASE StopRow =< L
      <4>1. pos' = StopRow /\ Len(nextTransactionSet'.transactions) = 1
        BY <1>6, <2>0, <3>1
      <4> QED
        BY <3>0, <4>1 DEF FirstRow
    <3>2. CASE ~(StopRow =< L)
      <4>1. pos' = L /\ StopRow = L + 1 /\ Len(nextTransactionSet'.transactions) = 0
        BY <1>2, <1>7, <2>0, <3>2
      <4> QED
        BY <1>0, <4>1 DEF FirstRow
    <3> QED
      BY <3>1, <3>2
  <2>2. CallEnds
    BY <1>0, <1>1, <1>2, <1>5, <1>9, <2>1 DEF CallEnds
  <2>3. pos' \in 0 .. L /\ nextTransactionSet' \in Draft
    BY <1>0, <1>1, <1>2, <1>6, <2>0
  <2>4. Handed \in [set_no : Nat, transactions : Seq(Nat), servers : SUBSET ServerId,
                    leaders : Nat, disconnected : SUBSET ServerId]
    BY <1>1 DEF Handed, disconnected, Draft
  <2>5. returned' \in Seq([set_no : Nat, transactions : Seq(Nat), servers : SUBSET ServerId,
                           leaders : Nat, disconnected : SUBSET ServerId])
    <3> DEFINE R == [set_no : Nat, transactions : Seq(Nat), servers : SUBSET ServerId,
                     leaders : Nat, disconnected : SUBSET ServerId]
    <3>1. returned \in Seq(R) /\ Handed \in R /\ returned' \in {returned, Append(returned, Handed)}
      BY <1>9, <2>4 DEF ReaderTypeOK
    <3> HIDE DEF R
    <3>2. returned' \in Seq(R)
      BY <3>1
    <3> QED
      BY <3>2 DEF R
  <2>6. ReaderTypeOK'
    BY <1>0, <1>1, <1>4, <2>3, <2>5 DEF ReaderTypeOK
  <2>7. LastRowKept'
    <3>1. CASE StopRow =< L
      <4>1. pos' = StopRow /\ StopRow # 0 /\ rows'[StopRow] # Malformed
        <5>1. StopRow # 0
          BY <1>0, <1>1
        <5>2. rows' = rows /\ rows[StopRow] # Malformed
          BY <1>4, <1>9, <3>1
        <5> QED
          BY <2>0, <3>1, <5>1, <5>2
      <4> QED
        BY <1>4, <2>0, <3>1, <4>1 DEF LastRowKept, Kept
    <3>2. CASE ~(StopRow =< L)
      BY <1>2, <2>0, <3>2 DEF LastRowKept
    <3> QED
      BY <3>1, <3>2
  <2> QED
    BY <1>4, <2>2, <2>6, <2>7
<1> QED
  BY <1>4, <1>8, <1>9

-----------------------------------------------------------------------------
(* What a call keeps *)

\* The sets returned before, and the one returned now.
SetReturned ==
    /\ DOMAIN returned = 1 .. Len(returned) /\ Len(returned) \in Nat
    /\ DOMAIN returned' = 1 .. (Len(returned) + 1)
    /\ \A k \in DOMAIN returned : returned'[k] = returned[k]
    /\ returned'[Len(returned) + 1] = Handed
    /\ DOMAIN Handed.transactions = 1 .. (StopRow - FirstRow)
    /\ \A a \in DOMAIN Handed.transactions :
          /\ Handed.transactions[a] = FirstRow + a - 1
          /\ Handed.transactions[a] \in FirstRow .. (StopRow - 1)
    /\ \A i \in FirstRow .. (StopRow - 1) :
          \E a \in DOMAIN Handed.transactions : Handed.transactions[a] = i

\* The new set has the rows from FirstRow to StopRow.
LEMMA ReturnedNow ==
    ASSUME ReaderTypeOK, LastRowKept, returned' = Append(returned, Handed)
    PROVE  SetReturned
<1> DEFINE R == [set_no : Nat, transactions : Seq(Nat), servers : SUBSET ServerId,
                 leaders : Nat, disconnected : SUBSET ServerId]
           h == Handed.transactions
<1>1. returned \in Seq(R)
  BY DEF ReaderTypeOK
<1> HIDE DEF R
<1>2. /\ DOMAIN returned = 1 .. Len(returned) /\ Len(returned) \in Nat
      /\ DOMAIN returned' = 1 .. (Len(returned) + 1)
      /\ \A k \in DOMAIN returned : returned'[k] = returned[k]
      /\ returned'[Len(returned) + 1] = Handed
  BY <1>1
<1>3. /\ StopRow \in (pos + 1) .. (Len(rows) + 1) /\ FirstRow \in 1 .. (pos + 1)
      /\ h \in Seq(Nat) /\ Len(h) = StopRow - FirstRow
      /\ \A a \in 1 .. (StopRow - FirstRow) : h[a] = FirstRow + a - 1
      /\ pos \in Nat /\ Len(rows) \in Nat
  BY SetReadIs DEF Handed, Draft, ReaderTypeOK
<1> HIDE DEF h
<1>4. StopRow \in Nat /\ FirstRow \in Nat /\ FirstRow =< StopRow
  BY <1>3
<1>5. DOMAIN h = 1 .. (StopRow - FirstRow)
  BY <1>3
<1>6. \A a \in DOMAIN h : h[a] = FirstRow + a - 1 /\ h[a] \in FirstRow .. (StopRow - 1)
  BY <1>3, <1>4, <1>5
<1>7. ASSUME NEW i \in FirstRow .. (StopRow - 1)
      PROVE  \E a \in DOMAIN h : h[a] = i
  <2>1. i - FirstRow + 1 \in 1 .. (StopRow - FirstRow)
        /\ FirstRow + (i - FirstRow + 1) - 1 = i
    BY <1>4
  <2> QED
    BY <1>5, <1>6, <2>1
<1> QED
  BY <1>2, <1>5, <1>6, <1>7 DEF SetReturned, h

\* A row is issued when it is one of a set that was returned.
RowsIssued ==
    \A i : i \in Issued <=>
        \E k \in DOMAIN returned : \E a \in DOMAIN returned[k].transactions :
            returned[k].transactions[a] = i

\* The transactions handed to the client.
LEMMA IssuedIs == RowsIssued
<1> DEFINE Rows(s) == {s.transactions[a] : a \in DOMAIN s.transactions}
           R == {returned[k] : k \in DOMAIN returned}
<1>1. Issued = UNION {Rows(s) : s \in R}
  BY Zenon DEF Issued
<1>2. \A i : i \in Issued <=> \E s \in R : i \in Rows(s)
  BY <1>1, Zenon
<1>3. \A s, i : i \in Rows(s) <=> \E a \in DOMAIN s.transactions : s.transactions[a] = i
  OBVIOUS
<1> HIDE DEF Rows
<1>4. \A s : s \in R <=> \E k \in DOMAIN returned : s = returned[k]
  OBVIOUS
<1> HIDE DEF R
<1>5. ASSUME NEW i, i \in Issued
      PROVE  \E k \in DOMAIN returned : \E a \in DOMAIN returned[k].transactions :
                 returned[k].transactions[a] = i
  <2>1. PICK s \in R : i \in Rows(s)
    BY <1>2, <1>5
  <2>2. PICK k \in DOMAIN returned : s = returned[k]
    BY <1>4
  <2>3. PICK a \in DOMAIN s.transactions : s.transactions[a] = i
    BY <1>3, <2>1
  <2> QED
    BY <2>2, <2>3
<1>6. ASSUME NEW k \in DOMAIN returned, NEW a \in DOMAIN returned[k].transactions
      PROVE  returned[k].transactions[a] \in Issued
  BY <1>2, <1>3, <1>4
<1> QED
  BY <1>5, <1>6 DEF RowsIssued

\* A new set comes after all the others.
LEMMA ReturnedAboveStep ==
    ASSUME ReaderTypeOK, LastRowKept, ReturnedAbove, CallFails \/ CallEnds
    PROVE  ReturnedAbove'
<1>0. /\ StopRow \in (pos + 1) .. (Len(rows) + 1) /\ FirstRow \in 1 .. (pos + 1)
      /\ pos \in Nat /\ Len(rows) \in Nat
  BY SetReadIs DEF ReaderTypeOK
<1>1. /\ StopRow \in Nat /\ FirstRow \in Nat /\ FirstRow =< StopRow /\ FirstRow >= 1
      /\ FirstRow' = StopRow \/ FirstRow' = StopRow + 1
  <2>1. FirstRow' = StopRow \/ FirstRow' = StopRow + 1
    BY DEF CallFails, CallEnds
  <2> QED
    BY <1>0, <2>1
<1>2. CASE returned' = returned
  BY <1>1, <1>2 DEF ReturnedAbove
<1>3. CASE returned' = Append(returned, Handed)
  <2>1. SetReturned
    BY <1>3, ReturnedNow
  <2> SUFFICES ASSUME NEW k \in DOMAIN returned', NEW a \in DOMAIN returned'[k].transactions
               PROVE  returned'[k].transactions[a] \in 1 .. (FirstRow' - 1)
    BY DEF ReturnedAbove
  <2>2. CASE k \in DOMAIN returned
    <3>1. returned'[k].transactions[a] \in 1 .. (FirstRow - 1)
      BY <2>1, <2>2 DEF SetReturned, ReturnedAbove
    <3> QED
      BY <1>1, <3>1
  <2>3. CASE k = Len(returned) + 1
    <3>1. returned'[k].transactions[a] \in FirstRow .. (StopRow - 1)
      BY <2>1, <2>3 DEF SetReturned
    <3> QED
      BY <1>1, <3>1
  <2> QED
    BY <2>1, <2>2, <2>3 DEF SetReturned
<1> QED
  BY <1>2, <1>3 DEF CallFails, CallEnds

\* Nothing is issued twice.
LEMMA EachOnceStep ==
    ASSUME ReaderTypeOK, LastRowKept, ReturnedAbove, EachOnceInOrder, CallFails \/ CallEnds
    PROVE  EachOnceInOrder'
<1>1. FirstRow \in Nat /\ StopRow \in Nat
  BY SetReadIs DEF ReaderTypeOK
<1>2. CASE returned' = returned
  BY <1>2 DEF EachOnceInOrder
<1>3. CASE returned' = Append(returned, Handed)
  <2>1. SetReturned
    BY <1>3, ReturnedNow
  <2> SUFFICES ASSUME NEW j \in DOMAIN returned', NEW k \in DOMAIN returned',
                      NEW a \in DOMAIN returned'[j].transactions,
                      NEW b \in DOMAIN returned'[k].transactions,
                      j < k \/ (j = k /\ a < b)
               PROVE  returned'[j].transactions[a] < returned'[k].transactions[b]
    BY DEF EachOnceInOrder
  <2>2. j \in Nat /\ k \in Nat /\ Len(returned) \in Nat
    BY <2>1 DEF SetReturned
  <2>3. CASE j \in DOMAIN returned /\ k \in DOMAIN returned
    BY <2>1, <2>3 DEF SetReturned, EachOnceInOrder
  <2>4. CASE j \in DOMAIN returned /\ k = Len(returned) + 1
    <3>1. returned'[j].transactions[a] \in 1 .. (FirstRow - 1)
      BY <2>1, <2>4 DEF SetReturned, ReturnedAbove
    <3>2. returned'[k].transactions[b] \in FirstRow .. (StopRow - 1)
      BY <2>1, <2>4 DEF SetReturned
    <3> QED
      BY <1>1, <3>1, <3>2
  <2>5. CASE j = Len(returned) + 1 /\ k = Len(returned) + 1
    <3>1. a < b
      BY <2>2, <2>5
    <3>2. a \in DOMAIN Handed.transactions /\ b \in DOMAIN Handed.transactions
      BY <2>1, <2>5 DEF SetReturned
    <3>3. a \in 1 .. (StopRow - FirstRow) /\ b \in 1 .. (StopRow - FirstRow)
      BY <2>1, <3>2 DEF SetReturned
    <3>4. /\ returned'[j].transactions[a] = FirstRow + a - 1
          /\ returned'[k].transactions[b] = FirstRow + b - 1
      BY <2>1, <2>5, <3>2 DEF SetReturned
    <3> QED
      BY <1>1, <3>1, <3>3, <3>4
  <2>6. CASE j = Len(returned) + 1 /\ k \in DOMAIN returned
    BY <2>1, <2>2, <2>6 DEF SetReturned
  <2> QED
    BY <2>1, <2>3, <2>4, <2>5, <2>6 DEF SetReturned
<1> QED
  BY <1>2, <1>3 DEF CallFails, CallEnds

\* Every row that was read is issued, kept, or lost above a malformed one.
LEMMA LostOnlyStep ==
    ASSUME ReaderTypeOK, LastRowKept, ReturnedAbove, LostOnlyAboveMalformed,
           rows' = rows, CallFails \/ CallEnds
    PROVE  LostOnlyAboveMalformed'
<1> DEFINE IsKept(i) == \E k \in DOMAIN nextTransactionSet.transactions :
                            nextTransactionSet.transactions[k] = i
           IsLost(i) == \E j \in i .. pos : rows[j] = Malformed /\ i .. j \cap Issued = {}
<1>0. /\ StopRow \in (pos + 1) .. (Len(rows) + 1) /\ FirstRow \in 1 .. (pos + 1)
      /\ pos \in Nat /\ Len(rows) \in Nat
  BY SetReadIs DEF ReaderTypeOK
<1>1. StopRow \in Nat /\ pos + 1 =< StopRow /\ StopRow =< Len(rows) + 1
  BY <1>0
<1>2. \/ pos' = StopRow /\ StopRow =< Len(rows)
      \/ pos' = Len(rows) /\ StopRow = Len(rows) + 1
  <2>1. \/ pos' = StopRow /\ StopRow =< Len(rows)
        \/ pos' = Len(rows) /\ ~(StopRow =< Len(rows))
    <3>1. CASE CallFails
      BY <3>1 DEF CallFails
    <3>2. CASE CallEnds
      BY <3>2 DEF CallEnds
    <3> QED
      BY <3>1, <3>2
  <2>2. CASE pos' = StopRow /\ StopRow =< Len(rows)
    BY <2>2
  <2>3. CASE pos' = Len(rows) /\ ~(StopRow =< Len(rows))
    <3>1. StopRow = Len(rows) + 1
      BY <1>0, <1>1, <2>3
    <3> QED
      BY <2>3, <3>1
  <2> QED
    BY <2>1, <2>2, <2>3
<1>3. \A i \in Issued : i \in Nat /\ i < FirstRow
  BY <1>0, IssuedIs DEF ReturnedAbove, RowsIssued
<1>4. \A i \in 1 .. pos : i < FirstRow => i \in Issued \/ IsLost(i)
  <2> SUFFICES ASSUME NEW i \in 1 .. pos, i < FirstRow, IsKept(i) PROVE FALSE
    BY DEF LostOnlyAboveMalformed
  <2>1. nextTransactionSet.transactions = <<pos>> /\ i = pos /\ FirstRow = pos
    <3>1. nextTransactionSet.transactions # <<>>
      OBVIOUS
    <3>2. nextTransactionSet.transactions = <<pos>>
      BY <3>1 DEF LastRowKept, Kept
    <3> QED
      BY <1>0, <3>2 DEF FirstRow
  <2> QED
    BY <1>0, <2>1
<1>5. \A j \in 1 .. pos : rows[j] = Malformed => j < FirstRow
  <2>1. CASE nextTransactionSet.transactions = <<>>
    <3>1. FirstRow = pos + 1
      BY <1>0, <2>1 DEF FirstRow
    <3> QED
      BY <1>0, <3>1
  <2>2. CASE pos # 0 /\ rows[pos] # Malformed /\ nextTransactionSet = Kept(pos)
    <3>1. FirstRow = pos
      BY <1>0, <2>2 DEF FirstRow, Kept
    <3> QED
      BY <1>0, <2>2, <3>1
  <2> QED
    BY <2>1, <2>2 DEF LastRowKept
<1>6. \A i \in Issued' : i \in Issued \/ (CallEnds /\ i \in FirstRow .. (StopRow - 1))
  <2>1. CASE returned' = returned
    BY <2>1 DEF Issued
  <2>2. CASE CallEnds /\ returned' = Append(returned, Handed)
    <3>1. SetReturned
      BY <2>2, ReturnedNow
    <3>2. RowsIssued /\ RowsIssued'
      BY IssuedIs, PTL
    <3> SUFFICES ASSUME NEW i \in Issued' PROVE i \in Issued \/ i \in FirstRow .. (StopRow - 1)
      BY <2>2
    <3>3. PICK k \in DOMAIN returned' :
             \E a \in DOMAIN returned'[k].transactions : returned'[k].transactions[a] = i
      BY <3>2 DEF RowsIssued
    <3>4. PICK a \in DOMAIN returned'[k].transactions : returned'[k].transactions[a] = i
      BY <3>3
    <3>5. CASE k \in DOMAIN returned
      BY <3>1, <3>2, <3>4, <3>5 DEF SetReturned, RowsIssued
    <3>6. CASE k = Len(returned) + 1
      BY <3>1, <3>4, <3>6 DEF SetReturned
    <3> QED
      BY <3>1, <3>5, <3>6 DEF SetReturned
  <2> QED
    BY <2>1, <2>2 DEF CallFails, CallEnds
<1>7. Issued \subseteq Issued'
  <2>1. CASE returned' = returned
    BY <2>1 DEF Issued
  <2>2. CASE returned' = Append(returned, Handed)
    <3>1. SetReturned
      BY <2>2, ReturnedNow
    <3>2. RowsIssued /\ RowsIssued'
      BY IssuedIs, PTL
    <3> QED
      BY <3>1, <3>2 DEF SetReturned, RowsIssued
  <2> QED
    BY <2>1, <2>2 DEF CallFails, CallEnds
<1>8. ASSUME NEW i \in 1 .. pos, i < FirstRow
      PROVE  i \in Issued' \/ \E j \in i .. pos' : rows[j] = Malformed /\ i .. j \cap Issued' = {}
  <2>1. CASE i \in Issued
    BY <1>7, <2>1
  <2>2. CASE IsLost(i)
    <3>1. PICK j \in i .. pos : rows[j] = Malformed /\ i .. j \cap Issued = {}
      BY <2>2
    <3>2. j \in Nat /\ j < FirstRow
      BY <1>0, <1>5, <3>1
    <3>3. i .. j \cap Issued' = {}
      BY <1>0, <1>6, <3>1, <3>2
    <3>4. pos' \in Nat /\ pos =< pos'
      BY <1>2, <1>0
    <3> QED
      BY <1>0, <3>1, <3>3, <3>4
  <2> QED
    BY <1>4, <1>8, <2>1, <2>2
<1>9. CASE CallFails
  <2>1. pos' = StopRow /\ returned' = returned /\ rows[StopRow] = Malformed /\ Issued' = Issued
    BY <1>9 DEF CallFails, Issued
  <2>2. ASSUME NEW i \in 1 .. StopRow, i >= FirstRow
        PROVE  i .. StopRow \cap Issued = {}
    BY <1>0, <1>3, <2>2
  <2> SUFFICES ASSUME NEW i \in 1 .. StopRow
               PROVE  \/ i \in Issued'
                      \/ \E j \in i .. pos' : rows[j] = Malformed /\ i .. j \cap Issued' = {}
    BY <2>1 DEF LostOnlyAboveMalformed
  <2>3. CASE i < FirstRow
    <3>1. i \in 1 .. pos
      BY <1>0, <2>3
    <3> QED
      BY <1>8, <2>3, <3>1
  <2>4. CASE i >= FirstRow
    <3>1. StopRow \in i .. pos'
      BY <1>0, <2>1
    <3> QED
      BY <2>1, <2>2, <2>4, <3>1
  <2> QED
    BY <1>0, <2>3, <2>4
<1>10. CASE CallEnds
  <2> DEFINE KeptNow(i) == \E k \in DOMAIN nextTransactionSet'.transactions :
                               nextTransactionSet'.transactions[k] = i
  <2> SUFFICES ASSUME NEW i \in 1 .. pos'
               PROVE  \/ i \in Issued'
                      \/ KeptNow(i)
                      \/ \E j \in i .. pos' : rows[j] = Malformed /\ i .. j \cap Issued' = {}
    BY DEF LostOnlyAboveMalformed
  <2>0. pos' \in Nat /\ pos' =< StopRow
    BY <1>0, <1>1, <1>2
  <2>1. CASE i < FirstRow
    <3>1. i \in 1 .. pos
      BY <1>0, <2>0, <2>1
    <3> QED
      BY <1>8, <2>1, <3>1
  <2>2. CASE i >= FirstRow /\ i < StopRow
    <3>1. returned' = Append(returned, Handed)
      <4>1. StopRow # FirstRow
        BY <1>0, <1>1, <2>2
      <4> QED
        BY <1>10, <4>1 DEF CallEnds
    <3>2. SetReturned
      BY <3>1, ReturnedNow
    <3>3. i \in FirstRow .. (StopRow - 1)
      BY <1>0, <2>0, <2>2
    <3>4. RowsIssued'
      BY IssuedIs, PTL
    <3>5. PICK a \in DOMAIN Handed.transactions : Handed.transactions[a] = i
      BY <3>2, <3>3 DEF SetReturned
    <3>6. Len(returned) + 1 \in DOMAIN returned' /\ returned'[Len(returned) + 1] = Handed
      BY <3>2 DEF SetReturned
    <3> QED
      BY <3>4, <3>5, <3>6 DEF RowsIssued
  <2>3. CASE i >= StopRow
    <3>1. i = StopRow /\ StopRow =< Len(rows)
      BY <1>0, <1>1, <1>2, <2>3
    <3>2. nextTransactionSet' = Kept(StopRow)
      BY <1>10, <3>1 DEF CallEnds
    <3>3. nextTransactionSet'.transactions = <<i>>
      BY <3>1, <3>2 DEF Kept
    <3> QED
      BY <3>3
  <2> QED
    BY <1>0, <2>0, <2>1, <2>2, <2>3
<1> QED
  BY <1>9, <1>10

\* The columns of a set that contains a row with its number are those of that row.
LEMMA GovernsStep ==
    ASSUME ReaderTypeOK, LastRowKept, NumberedRowGoverns, rows' = rows,
           CallFails \/ CallEnds
    PROVE  NumberedRowGoverns'
<1> DEFINE OwnRows(set) == {i \in DOMAIN rows :
                               /\ \E a \in DOMAIN set.transactions : set.transactions[a] = i
                               /\ rows[i].set_no = set.set_no}
           Governed(set) ==
               OwnRows(set) # {} => /\ set.servers = rows[Max(OwnRows(set))].servers
                                    /\ set.leaders = Max(OwnRows(set))
<1>0. /\ StopRow \in (pos + 1) .. (Len(rows) + 1) /\ FirstRow \in 1 .. (pos + 1)
      /\ pos \in Nat /\ Len(rows) \in Nat /\ NextNo \in Nat /\ DOMAIN rows = 1 .. Len(rows)
  BY SetReadIs DEF ReaderTypeOK
<1>1. NumberedRowGoverns <=> \A k \in DOMAIN returned : Governed(returned[k])
  BY DEF NumberedRowGoverns
<1>2. NumberedRowGoverns' <=> \A k \in DOMAIN returned' : Governed(returned'[k])
  BY DEF NumberedRowGoverns
<1> HIDE DEF Governed
<1>3. CASE returned' = returned
  BY <1>1, <1>2, <1>3
<1>4. CASE returned' = Append(returned, Handed)
  <2>1. SetReturned
    BY <1>4, ReturnedNow
  <2> DEFINE H == Headers(NextNo, StopRow - 1)
             G == OwnRows(Handed)
  <2>2. G = {i \in FirstRow .. (StopRow - 1) : rows[i].set_no = NextNo}
    <3>1. \A i : (\E a \in DOMAIN Handed.transactions : Handed.transactions[a] = i)
                    <=> i \in FirstRow .. (StopRow - 1)
      BY <2>1 DEF SetReturned
    <3>2. FirstRow .. (StopRow - 1) \subseteq DOMAIN rows
      BY <1>0
    <3>3. Handed.set_no = NextNo
      BY DEF Handed
    <3> QED
      BY <3>1, <3>2, <3>3
  <2>3. H = {i \in (pos + 1) .. (StopRow - 1) : rows[i].set_no = NextNo}
    BY DEF Headers
  <2>4. /\ Handed.servers = IF H = {} THEN nextTransactionSet.servers ELSE rows[Max(H)].servers
        /\ Handed.leaders = IF H = {} THEN nextTransactionSet.leaders ELSE Max(H)
    BY DEF Handed, SetRead, Assembled
  <2>5. G \in SUBSET Nat /\ H \in SUBSET Nat /\ \A x \in G \cup H : x =< Len(rows)
    BY <1>0, <2>2, <2>3
  <2>6. H \subseteq G
    BY <1>0, <2>2, <2>3
  <2> HIDE DEF H, G
  <2>7. G # {} => Max(G) \in G /\ \A x \in G : Max(G) >= x
    BY <1>0, <2>5, MaxIs, Zenon
  <2>8. H # {} => Max(H) \in H /\ \A x \in H : Max(H) >= x
    BY <1>0, <2>5, MaxIs, Zenon
  <2>9. ASSUME G # {} PROVE Handed.servers = rows[Max(G)].servers /\ Handed.leaders = Max(G)
    <3>1. CASE H # {}
      <4> DEFINE g == Max(G)
                 h == Max(H)
      <4>1. g \in G /\ h \in H /\ h \in G /\ g >= h /\ \A x \in H : h >= x
        BY <2>6, <2>7, <2>8, <2>9, <3>1
      <4> HIDE DEF g, h
      <4>2. g \in Nat /\ h \in Nat /\ h >= pos + 1
        BY <1>0, <2>3, <2>5, <4>1
      <4>3. g \in H
        BY <1>0, <2>2, <2>3, <4>1, <4>2
      <4>4. g = h
        BY <4>1, <4>2, <4>3
      <4> QED
        BY <2>4, <3>1, <4>4 DEF g, h
    <3>2. CASE H = {}
      <4> DEFINE g == Max(G)
      <4>1. g \in G /\ g \notin H
        BY <2>7, <2>9, <3>2
      <4> HIDE DEF g
      <4>2. g = pos /\ FirstRow = pos
        <5>1. FirstRow = pos \/ FirstRow = pos + 1
          <6>1. CASE nextTransactionSet.transactions = <<>>
            BY <1>0, <6>1 DEF FirstRow
          <6>2. CASE nextTransactionSet.transactions = <<pos>>
            BY <1>0, <6>2 DEF FirstRow
          <6> QED
            BY <6>1, <6>2 DEF LastRowKept, Kept
        <5>2. g \in FirstRow .. (StopRow - 1) /\ g \notin (pos + 1) .. (StopRow - 1)
          BY <2>2, <2>3, <4>1
        <5> QED
          BY <1>0, <5>1, <5>2
      <4>3. nextTransactionSet = Kept(pos)
        <5>1. nextTransactionSet.transactions # <<>>
          BY <1>0, <4>2 DEF FirstRow
        <5> QED
          BY <5>1 DEF LastRowKept
      <4>4. nextTransactionSet.servers = rows[g].servers /\ nextTransactionSet.leaders = g
        BY <4>2, <4>3 DEF Kept
      <4>5. Handed.servers = nextTransactionSet.servers
            /\ Handed.leaders = nextTransactionSet.leaders
        BY <2>4, <3>2
      <4> QED
        BY <4>4, <4>5 DEF g
    <3> QED
      BY <3>1, <3>2
  <2>10. Governed(Handed)
    BY <2>9 DEF Governed, G
  <2> QED
    BY <1>1, <1>2, <2>1, <2>10 DEF SetReturned
<1> QED
  BY <1>3, <1>4 DEF CallFails, CallEnds

-----------------------------------------------------------------------------
(* The theorems for any file *)

\* Nothing was read and nothing returned at the start.
LEMMA InitReader == Init => ReaderInv
<1> SUFFICES ASSUME Init PROVE ReaderInv
  OBVIOUS
<1>1. rows \in Seq(CSVLine)
  <2>1. PICK n \in 0 .. MaxRows : rows \in [1 .. n -> CSVLine]
    BY DEF Init
  <2>2. n \in Nat
    BY <2>1, CsvAssumption
  <2> QED
    BY <2>1, <2>2
<1>2. EmptySet \in Draft
  <2>1. <<>> \in Seq(Nat) /\ {} \in SUBSET ServerId /\ 0 \in Nat
    OBVIOUS
  <2> QED
    BY <2>1 DEF EmptySet, Draft
<1>3. returned = <<>> /\ pos = 0 /\ nextTransactionSet.transactions = <<>>
  BY DEF Init, EmptySet
<1>4. ReaderTypeOK
  <2>1. pos \in 0 .. Len(rows)
    BY <1>1, <1>3
  <2>2. \A R : <<>> \in Seq(R)
    OBVIOUS
  <2>3. currentSetNo \in Nat /\ currentTransactionSet = EmptySet /\ nextTransactionSet = EmptySet
    BY DEF Init
  <2> QED
    BY <1>1, <1>2, <1>3, <2>1, <2>2, <2>3 DEF ReaderTypeOK
<1>5. DOMAIN returned = {} /\ 1 .. pos = {}
  BY <1>3
<1> QED
  <2>1. LastRowKept
    BY <1>3 DEF LastRowKept
  <2>2. ReturnedAbove /\ EachOnceInOrder
    BY <1>5 DEF ReturnedAbove, EachOnceInOrder
  <2>3. LostOnlyAboveMalformed
    BY <1>5 DEF LostOnlyAboveMalformed
  <2>4. NumberedRowGoverns
    BY <1>5 DEF NumberedRowGoverns
  <2> QED
    BY <1>4, <2>1, <2>2, <2>3, <2>4 DEF ReaderInv

\* Every call of readNextSet keeps the invariant.
LEMMA NextReader == ReaderInv /\ [Next]_csvVars => ReaderInv'
<1> SUFFICES ASSUME ReaderInv, [Next]_csvVars PROVE ReaderInv'
  OBVIOUS
<1>1. CASE readNextSet
  <2>1. /\ ReaderTypeOK' /\ LastRowKept' /\ rows' = rows
        /\ CallFails \/ CallEnds
    BY <1>1, ReadIs DEF ReaderInv
  <2> QED
    BY <2>1, ReturnedAboveStep, EachOnceStep, LostOnlyStep, GovernsStep DEF ReaderInv
<1>2. CASE UNCHANGED csvVars
  <2> USE <1>2 DEF csvVars
  <2>1. ReaderTypeOK' /\ LastRowKept' /\ ReturnedAbove'
    BY DEF ReaderInv, ReaderTypeOK, LastRowKept, Kept, ReturnedAbove, FirstRow
  <2>2. EachOnceInOrder'
    BY DEF ReaderInv, EachOnceInOrder
  <2>3. LostOnlyAboveMalformed'
    BY DEF ReaderInv, LostOnlyAboveMalformed, Issued
  <2>4. NumberedRowGoverns'
    BY DEF ReaderInv, NumberedRowGoverns
  <2> QED
    BY <2>1, <2>2, <2>3, <2>4 DEF ReaderInv
<1> QED
  BY <1>1, <1>2 DEF Next

\* Between two calls the reader holds at most the last row it read, and all it
\* returned is above it.
THEOREM ReaderInvariance == Spec => []ReaderInv
  BY InitReader, NextReader, PTL DEF Spec

\* Whatever the file, no row becomes two transactions, in one set or in two, and the
\* sets are in the order of the file.
THEOREM RowsIssuedOnce == Spec => []EachOnceInOrder
<1>1. ReaderInv => EachOnceInOrder
  BY DEF ReaderInv
<1> QED
  BY <1>1, ReaderInvariance, PTL

\* Whatever the file, a row that readNextSet consumed is returned, or kept for the
\* next call, or lost together with a malformed row below it.
THEOREM NoRowLostSilently == Spec => []LostOnlyAboveMalformed
<1>1. ReaderInv => LostOnlyAboveMalformed
  BY DEF ReaderInv
<1> QED
  BY <1>1, ReaderInvariance, PTL

\* Whatever the file, a set that contains a row with its number has the servers and
\* the leaders of that row: the two sets that readNextSet swaps leak nothing.
THEOREM OwnRowGoverns == Spec => []NumberedRowGoverns
<1>1. ReaderInv => NumberedRowGoverns
  BY DEF ReaderInv
<1> QED
  BY <1>1, ReaderInvariance, PTL

-----------------------------------------------------------------------------
(* Well-formed files *)

\* The rows that start sets, up to row i.
NumberedTo(i) == {j \in Numbered : j =< i}

\* In a well-formed file the numbered rows are those with a positive number.
LEMMA NumberedRows ==
    ASSUME ReaderTypeOK, WellFormed
    PROVE  /\ Numbered \in SUBSET (1 .. Len(rows)) /\ IsFiniteSet(Numbered)
           /\ \A i \in 1 .. Len(rows) :
                 /\ rows[i] # Malformed /\ rows[i].set_no \in Int
                 /\ rows[i].set_no > 0 <=> i \in Numbered
           /\ \A i \in Numbered : /\ rows[i].set_no = Cardinality(NumberedTo(i))
                                  /\ IsFiniteSet(NumberedTo(i))
                                  /\ rows[i].set_no \in Nat \ {0}
<1>0. DOMAIN rows = 1 .. Len(rows) /\ Len(rows) \in Nat
  BY DEF ReaderTypeOK
<1>1. Numbered \in SUBSET (1 .. Len(rows))
  BY <1>0 DEF Numbered
<1>2. IsFiniteSet(1 .. Len(rows))
  BY <1>0, FS_Interval
<1>3. IsFiniteSet(Numbered)
  BY <1>1, <1>2, FS_Subset
<1>4. ASSUME NEW i \in 1 .. Len(rows)
      PROVE  /\ rows[i] # Malformed /\ rows[i].set_no \in Int
             /\ rows[i].set_no > 0 <=> i \in Numbered
  <2>1. rows[i] # Malformed
    BY <1>0 DEF WellFormed
  <2>2. rows[i].set_no = Unnumbered \/ rows[i].set_no \in SetNo
    BY <2>1, RowIs
  <2>3. \A n \in SetNo : n \in Nat /\ n > 0
    BY CsvAssumption
  <2>4. rows[i].set_no \in SetNo <=> i \in Numbered
    BY <1>0 DEF Numbered
  <2>5. Unnumbered = -1
    BY DEF Unnumbered
  <2> QED
    BY <2>1, <2>2, <2>3, <2>4, <2>5
<1>5. ASSUME NEW i \in Numbered
      PROVE  /\ rows[i].set_no = Cardinality(NumberedTo(i))
             /\ IsFiniteSet(NumberedTo(i))
             /\ rows[i].set_no \in Nat \ {0}
  <2>1. rows[i].set_no = Cardinality(NumberedTo(i))
    BY DEF WellFormed, NumberedTo
  <2>2. NumberedTo(i) \in SUBSET Numbered
    BY DEF NumberedTo
  <2>3. IsFiniteSet(NumberedTo(i))
    BY <1>3, <2>2, FS_Subset
  <2>4. rows[i].set_no \in Nat \ {0}
    BY CsvAssumption DEF Numbered
  <2> QED
    BY <2>1, <2>3, <2>4
<1> QED
  BY <1>1, <1>3, <1>4, <1>5

\* No number is used twice.
LEMMA NumbersDistinct ==
    ASSUME ReaderTypeOK, WellFormed, NEW i \in Numbered, NEW j \in Numbered,
           rows[i].set_no = rows[j].set_no
    PROVE  i = j
<1>1. ASSUME NEW a \in Numbered, NEW b \in Numbered, a < b, rows[a].set_no = rows[b].set_no
      PROVE  FALSE
  <2>0. a \in Nat /\ b \in Nat /\ \A n \in Numbered : n \in Nat
    BY NumberedRows DEF ReaderTypeOK
  <2>1. NumberedTo(a) \in SUBSET NumberedTo(b) /\ b \in NumberedTo(b) /\ b \notin NumberedTo(a)
    <3>1. \A n : /\ n \in NumberedTo(a) <=> n \in Numbered /\ n =< a
                 /\ n \in NumberedTo(b) <=> n \in Numbered /\ n =< b
      BY DEF NumberedTo
    <3>2. \A n \in Numbered : n =< a => n =< b
      BY <1>1, <2>0
    <3>3. b =< b /\ ~(b =< a)
      BY <1>1, <2>0
    <3> QED
      BY <3>1, <3>2, <3>3
  <2>2. Cardinality(NumberedTo(b)) = Cardinality(NumberedTo(a)) /\ IsFiniteSet(NumberedTo(b))
    BY <1>1, NumberedRows
  <2>3. NumberedTo(b) = NumberedTo(a)
    BY <2>1, <2>2, FS_Subset
  <2> QED
    BY <2>1, <2>3
<1>2. i \in Nat /\ j \in Nat
  BY NumberedRows DEF ReaderTypeOK
<1>3. i < j \/ j < i \/ i = j
  BY <1>2
<1> QED
  BY <1>1, <1>3

\* The numbers of consecutive sets are consecutive.
LEMMA NumbersConsecutive ==
    ASSUME ReaderTypeOK, WellFormed, NEW i \in Numbered, NEW m \in Numbered, i < m,
           \A j \in Numbered : j > i => j >= m
    PROVE  rows[m].set_no = rows[i].set_no + 1
<1>0. i \in Nat /\ m \in Nat /\ \A n \in Numbered : n \in Nat
  BY NumberedRows DEF ReaderTypeOK
<1>1. NumberedTo(m) = NumberedTo(i) \cup {m} /\ m \notin NumberedTo(i)
  <2>1. \A n : /\ n \in NumberedTo(i) <=> n \in Numbered /\ n =< i
               /\ n \in NumberedTo(m) <=> n \in Numbered /\ n =< m
    BY DEF NumberedTo
  <2>2. \A n \in Numbered : n =< m <=> n =< i \/ n = m
    BY <1>0
  <2>3. ~(m =< i)
    BY <1>0
  <2> QED
    BY <2>1, <2>2, <2>3
<1>2. IsFiniteSet(NumberedTo(i))
  BY NumberedRows
<1>3. Cardinality(NumberedTo(m)) = Cardinality(NumberedTo(i)) + 1
  BY <1>1, <1>2, FS_AddElement
<1> QED
  BY <1>3, NumberedRows

\* The number of the last set is the number of sets.
LEMMA LastNumber ==
    ASSUME ReaderTypeOK, WellFormed, NEW i \in Numbered, \A j \in Numbered : ~(j > i)
    PROVE  rows[i].set_no = Cardinality(Numbered)
<1>0. i \in Nat /\ \A n \in Numbered : n \in Nat
  BY NumberedRows DEF ReaderTypeOK
<1>1. NumberedTo(i) = Numbered
  <2>1. \A n \in Numbered : n =< i
    BY <1>0
  <2> QED
    BY <2>1 DEF NumberedTo
<1> QED
  BY <1>1, NumberedRows

\* The first set has number 1.
LEMMA FirstNumber ==
    ASSUME ReaderTypeOK, WellFormed, 1 \in Numbered
    PROVE  rows[1].set_no = 1
<1>0. \A n \in Numbered : n \in Nat /\ n >= 1
  BY NumberedRows DEF ReaderTypeOK
<1>1. NumberedTo(1) = {1}
  BY <1>0 DEF NumberedTo
<1>2. Cardinality({1}) = 1
  BY FS_Singleton
<1> QED
  BY <1>1, <1>2, NumberedRows

\* The set that starts at row i of a well-formed file and ends before row m.
LEMMA WrittenIs ==
    ASSUME ReaderTypeOK, WellFormed, NEW i \in Numbered, NEW m \in Nat, i < m,
           m \in Numbered \/ m = Len(rows) + 1, \A j \in Numbered : j > i => j >= m
    PROVE  SetAsWritten(rows[i].set_no) =
               [set_no |-> rows[i].set_no,
                transactions |-> [k \in 1 .. (m - i) |-> i + k - 1],
                servers |-> rows[i].servers, leaders |-> i,
                disconnected |-> ServerId \ rows[i].servers]
<1> DEFINE head == CHOOSE j \in Numbered : rows[j].set_no = rows[i].set_no
           S == {j \in Numbered : j > i} \cup {Len(rows) + 1}
<1>0. /\ i \in Nat /\ Len(rows) \in Nat /\ \A n \in Numbered : n \in Nat /\ n =< Len(rows)
  BY NumberedRows DEF ReaderTypeOK
<1>1. head = i
  BY NumbersDistinct
<1>2. S \in SUBSET Nat /\ S # {} /\ m \in S /\ \A j \in S : m =< j
  <2>1. \A j : j \in S <=> (j \in Numbered /\ j > i) \/ j = Len(rows) + 1
    OBVIOUS
  <2> HIDE DEF S
  <2>2. m =< Len(rows) + 1
    BY <1>0
  <2>3. m \in S
    BY <2>1
  <2>4. ASSUME NEW j \in S PROVE j \in Nat /\ m =< j
    <3>1. CASE j \in Numbered /\ j > i
      <4>1. j \in Nat /\ j >= m
        BY <1>0, <3>1
      <4> QED
        BY <4>1
    <3>2. CASE j = Len(rows) + 1
      BY <1>0, <2>2, <3>2
    <3> QED
      BY <2>1, <3>1, <3>2
  <2> QED
    BY <2>3, <2>4
<1>3. Min(S) = m
  <2> HIDE DEF S
  <2>1. Min(S) \in S /\ \A j \in S : Min(S) =< j
    BY <1>2, MinIs
  <2> DEFINE x == Min(S)
  <2>2. x \in Nat /\ x =< m /\ m =< x
    BY <1>2, <2>1
  <2> HIDE DEF x
  <2>3. x = m
    BY <2>2
  <2> QED
    BY <2>3 DEF x
<1>4. (m - 1) - i + 1 = m - i
  BY <1>0
<1>5. SetAsWritten(rows[i].set_no) =
         [set_no |-> rows[i].set_no,
          transactions |-> [k \in 1 .. ((Min(S) - 1) - i + 1) |-> i + k - 1],
          servers |-> rows[i].servers, leaders |-> i,
          disconnected |-> ServerId \ rows[i].servers]
  BY <1>1 DEF SetAsWritten
<1> QED
  BY <1>3, <1>4, <1>5

\* A call that starts at the row with its number hands over the set of that row, and
\* stops at the row that starts the next one.
LEMMA HandedAsWritten ==
    ASSUME ReaderTypeOK, LastRowKept, WellFormed, FirstRow \in Numbered,
           rows[FirstRow].set_no = NextNo
    PROVE  /\ Handed = SetAsWritten(NextNo) /\ StopRow # FirstRow
           /\ StopRow =< Len(rows) =>
                 StopRow \in Numbered /\ rows[StopRow].set_no = NextNo + 1
           /\ ~(StopRow =< Len(rows)) => NextNo = Cardinality(Numbered)
<1> DEFINE i == FirstRow
           m == StopRow
           H == Headers(NextNo, StopRow - 1)
<1>0. /\ NextNo \in Nat /\ m \in (pos + 1) .. (Len(rows) + 1) /\ i \in 1 .. (pos + 1)
      /\ pos \in Nat /\ Len(rows) \in Nat /\ NextNo > 0
      /\ i =< Len(rows) /\ m \in Nat /\ i \in Nat
  <2>1. i \in 1 .. Len(rows)
    BY NumberedRows
  <2> QED
    BY <2>1, SetReadIs DEF ReaderTypeOK
<1>1. i = pos \/ i = pos + 1
  <2>1. CASE nextTransactionSet.transactions = <<>>
    BY <1>0, <2>1 DEF FirstRow
  <2>2. CASE nextTransactionSet.transactions = <<pos>>
    BY <1>0, <2>2 DEF FirstRow
  <2> QED
    BY <2>1, <2>2 DEF LastRowKept, Kept
<1>2. \A j \in 1 .. Len(rows) : /\ EndsLoop(j, NextNo) <=> rows[j].set_no = NextNo + 1
                                /\ EndsLoop(j, NextNo) => j \in Numbered
  BY <1>0, NumberedRows DEF EndsLoop
<1>3. /\ m =< Len(rows) => EndsLoop(m, NextNo)
      /\ \A j \in (pos + 1) .. (m - 1) : ~EndsLoop(j, NextNo)
  BY <1>0, StopIs DEF StopRow
<1>4. m =< Len(rows) => m \in Numbered /\ rows[m].set_no = NextNo + 1
  <2>1. m =< Len(rows) => m \in 1 .. Len(rows)
    BY <1>0
  <2> QED
    BY <1>2, <1>3, <2>1
<1>5. i < m
  <2>1. m # i
    BY <1>0, <1>4
  <2> QED
    BY <1>0, <1>1, <2>1
<1>6. \A j \in Numbered : j > i => j >= m
  <2> DEFINE T == {j \in Numbered : j > i}
  <2>1. \A j : j \in T <=> j \in Numbered /\ j > i
    OBVIOUS
  <2> HIDE DEF T
  <2>2. T \in SUBSET Nat /\ \A j \in T : j \in 1 .. Len(rows)
    <3>1. \A j \in T : j \in 1 .. Len(rows)
      BY <2>1, NumberedRows
    <3>2. \A j \in 1 .. Len(rows) : j \in Nat
      BY <1>0
    <3> QED
      BY <3>1, <3>2
  <2>3. ASSUME T # {} PROVE \A j \in T : j >= m
    <3>1. PICK x \in T : \A y \in T : x =< y
      BY <2>2, <2>3, LeastExists
    <3>2. rows[x].set_no = NextNo + 1
      <4>1. x \in Numbered /\ i < x /\ \A j \in Numbered : j > i => j >= x
        BY <1>0, <2>1, <2>2, <3>1
      <4> QED
        BY <4>1, NumbersConsecutive
    <3>3. EndsLoop(x, NextNo) /\ x \in Nat /\ x >= pos + 1
      BY <1>0, <1>1, <1>2, <2>1, <2>2, <3>2
    <3>4. x >= m
      <4>1. x \notin (pos + 1) .. (m - 1)
        BY <1>3, <3>3
      <4> QED
        BY <1>0, <3>3, <4>1
    <3> QED
      BY <1>0, <2>2, <3>1, <3>3, <3>4
  <2> QED
    BY <2>1, <2>3
<1>7. m \in Numbered \/ m = Len(rows) + 1
  BY <1>0, <1>4
<1>8. SetAsWritten(NextNo) =
         [set_no |-> NextNo,
          transactions |-> [k \in 1 .. (m - i) |-> i + k - 1],
          servers |-> rows[i].servers, leaders |-> i,
          disconnected |-> ServerId \ rows[i].servers]
  <2> HIDE DEF i, m
  <2>1. i \in Numbered /\ rows[i].set_no = NextNo
    BY DEF i
  <2> QED
    BY <1>0, <1>5, <1>6, <1>7, <2>1, WrittenIs
<1>9. ~(m =< Len(rows)) => NextNo = Cardinality(Numbered)
  <2> SUFFICES ASSUME ~(m =< Len(rows)) PROVE NextNo = Cardinality(Numbered)
    OBVIOUS
  <2>1. \A j \in Numbered : j \in Nat /\ j < m
    BY <1>0, NumberedRows
  <2>2. \A j \in Numbered : ~(j > i)
    BY <1>0, <1>6, <2>1
  <2> QED
    BY <2>2, LastNumber
<1>10. SetRead.transactions = [k \in 1 .. (m - i) |-> i + k - 1]
  <2> DEFINE t == SetRead.transactions
  <2>1. t \in Seq(Nat) /\ Len(t) = m - i /\ \A k \in 1 .. (m - i) : t[k] = i + k - 1
    BY SetReadIs DEF Draft
  <2> HIDE DEF t, i, m
  <2>2. t = [k \in 1 .. (m - i) |-> t[k]]
    BY <2>1
  <2>3. t = [k \in 1 .. (m - i) |-> i + k - 1]
    BY <2>1, <2>2
  <2> QED
    BY <2>3 DEF t
<1>11. SetRead.servers = rows[i].servers /\ SetRead.leaders = i
  <2>1. \A j : j \in H <=> j \in (pos + 1) .. (m - 1) /\ rows[j].set_no = NextNo
    BY DEF Headers
  <2>2. /\ SetRead.servers = IF H = {} THEN nextTransactionSet.servers ELSE rows[Max(H)].servers
        /\ SetRead.leaders = IF H = {} THEN nextTransactionSet.leaders ELSE Max(H)
    BY DEF SetRead, Assembled
  <2> HIDE DEF H, m
  <2>3. \A j \in H : j = i
    <3> SUFFICES ASSUME NEW j \in H PROVE j = i
      OBVIOUS
    <3>1. j \in 1 .. Len(rows) /\ rows[j].set_no = NextNo
      BY <1>0, <2>1
    <3>2. j \in Numbered
      BY <1>0, <3>1, NumberedRows
    <3> QED
      BY <3>1, <3>2, NumbersDistinct
  <2>4. CASE H = {}
    <3>1. i = pos
      <4>1. i \notin (pos + 1) .. (m - 1)
        BY <2>1, <2>4
      <4> QED
        BY <1>0, <1>1, <1>5, <4>1
    <3>2. nextTransactionSet.transactions # <<>>
      BY <1>0, <3>1 DEF FirstRow
    <3>3. nextTransactionSet = Kept(pos)
      BY <3>2 DEF LastRowKept
    <3>4. nextTransactionSet.servers = rows[pos].servers /\ nextTransactionSet.leaders = pos
      BY <3>3 DEF Kept
    <3> QED
      BY <2>2, <2>4, <3>1, <3>4
  <2>5. CASE H # {}
    <3>1. H = {i}
      BY <2>3, <2>5
    <3>2. Max({i}) = i
      <4>1. {i} \in SUBSET Nat /\ {i} # {} /\ \A x \in {i} : x =< i
        BY <1>0
      <4>2. Max({i}) \in {i}
        BY <1>0, <4>1, MaxIs
      <4> QED
        BY <4>2
    <3> QED
      BY <2>2, <2>5, <3>1, <3>2
  <2> QED
    BY <2>4, <2>5
<1>12. Handed = SetAsWritten(NextNo)
  BY <1>8, <1>10, <1>11 DEF Handed, disconnected
<1> QED
  BY <1>0, <1>4, <1>5, <1>9, <1>12

\* Where a call finds a well-formed file: at its start, at the row that starts the
\* next set, which was kept, or at its end with all sets returned.
AtStart ==
    /\ pos = 0 /\ nextTransactionSet.transactions = <<>>
    /\ currentSetNo = 0 /\ returned = <<>> /\ answer = "not asked"

AtNumberedRow ==
    /\ FirstRow \in Numbered
    /\ rows[FirstRow].set_no = currentSetNo + 1
    /\ Len(returned) = currentSetNo /\ answer = "set"

AtEnd ==
    /\ pos = Len(rows) /\ nextTransactionSet.transactions = <<>>
    /\ Len(returned) = Cardinality(Numbered)

WrittenSoFar ==
    WellFormed =>
        /\ \A k \in DOMAIN returned : returned[k] = SetAsWritten(k)
        /\ AtStart \/ AtNumberedRow \/ AtEnd

\* SetsAsWritten says nothing else of the sets returned so far.
LEMMA WrittenSuffices ==
    ReaderTypeOK /\ WrittenSoFar => SetsAsWritten
<1> SUFFICES ASSUME ReaderTypeOK, WrittenSoFar, WellFormed
             PROVE  /\ returned = [k \in 1 .. Len(returned) |-> SetAsWritten(k)]
                    /\ answer = "no more sets" => Len(returned) = Cardinality(Numbered)
  BY DEF SetsAsWritten
<1> DEFINE R == [set_no : Nat, transactions : Seq(Nat), servers : SUBSET ServerId,
                 leaders : Nat, disconnected : SUBSET ServerId]
<1>1. returned \in Seq(R)
  BY DEF ReaderTypeOK
<1> HIDE DEF R
<1>2. returned = [k \in 1 .. Len(returned) |-> returned[k]] /\ DOMAIN returned = 1 .. Len(returned)
  BY <1>1
<1>3. \A k \in 1 .. Len(returned) : returned[k] = SetAsWritten(k)
  BY <1>2 DEF WrittenSoFar
<1>4. answer = "no more sets" => AtEnd
  BY DEF WrittenSoFar, AtStart, AtNumberedRow
<1>5. [k \in 1 .. Len(returned) |-> returned[k]] = [k \in 1 .. Len(returned) |-> SetAsWritten(k)]
  BY <1>3
<1> QED
  BY <1>2, <1>4, <1>5 DEF AtEnd

\* A call at a numbered row returns its set; any other call returns nothing.
LEMMA WrittenStep ==
    ASSUME ReaderTypeOK, LastRowKept, WrittenSoFar, ReaderTypeOK',
           rows' = rows, currentSetNo' = NextNo, CallFails \/ CallEnds
    PROVE  WrittenSoFar'
<1>1. Numbered' = Numbered /\ WellFormed' = WellFormed
  BY DEF Numbered, WellFormed
<1>2. \A k : SetAsWritten(k)' = SetAsWritten(k)
  BY <1>1 DEF SetAsWritten
<1> SUFFICES ASSUME WellFormed
             PROVE  /\ \A k \in DOMAIN returned' : returned'[k] = SetAsWritten(k)
                    /\ AtNumberedRow' \/ AtEnd'
  BY <1>1, <1>2 DEF WrittenSoFar
<1>0. /\ StopRow \in (pos + 1) .. (Len(rows) + 1) /\ FirstRow \in 1 .. (pos + 1)
      /\ pos \in Nat /\ Len(rows) \in Nat /\ currentSetNo \in Nat /\ NextNo = currentSetNo + 1
      /\ DOMAIN rows = 1 .. Len(rows)
  BY SetReadIs DEF ReaderTypeOK, NextNo
<1>3. /\ \A k \in DOMAIN returned : returned[k] = SetAsWritten(k)
      /\ AtStart \/ AtNumberedRow \/ AtEnd
  BY DEF WrittenSoFar
<1>4. CallEnds
  <2>1. StopRow =< Len(rows) => StopRow \in 1 .. Len(rows)
    BY <1>0
  <2> QED
    BY <2>1, NumberedRows DEF CallFails
<1>5. ASSUME FirstRow \in Numbered, rows[FirstRow].set_no = NextNo,
             Len(returned) = currentSetNo
      PROVE  /\ \A k \in DOMAIN returned' : returned'[k] = SetAsWritten(k)
             /\ AtNumberedRow' \/ AtEnd'
  <2>1. /\ Handed = SetAsWritten(NextNo) /\ StopRow # FirstRow
        /\ StopRow =< Len(rows) =>
              StopRow \in Numbered /\ rows[StopRow].set_no = NextNo + 1
        /\ ~(StopRow =< Len(rows)) => NextNo = Cardinality(Numbered)
    BY <1>5, HandedAsWritten
  <2>2. answer' = "set" /\ returned' = Append(returned, Handed)
    BY <1>4, <2>1 DEF CallEnds
  <2>3. SetReturned
    BY <2>2, ReturnedNow
  <2>4. \A k \in DOMAIN returned' : returned'[k] = SetAsWritten(k)
    <3> SUFFICES ASSUME NEW k \in DOMAIN returned' PROVE returned'[k] = SetAsWritten(k)
      OBVIOUS
    <3>1. CASE k \in DOMAIN returned
      BY <1>3, <2>3, <3>1 DEF SetReturned
    <3>2. CASE k = Len(returned) + 1
      BY <1>0, <1>5, <2>1, <2>3, <3>2 DEF SetReturned
    <3> QED
      BY <2>3, <3>1, <3>2 DEF SetReturned
  <2>5. Len(returned') = NextNo
    <3>1. Len(returned') = Len(returned) + 1
      BY <2>2 DEF ReaderTypeOK
    <3> QED
      BY <1>0, <1>5, <3>1
  <2>6. FirstRow' = StopRow
    BY <1>4 DEF CallEnds
  <2>7. CASE StopRow =< Len(rows)
    BY <1>1, <2>1, <2>2, <2>4, <2>5, <2>6, <2>7 DEF AtNumberedRow
  <2>8. CASE ~(StopRow =< Len(rows))
    BY <1>1, <1>4, <2>1, <2>4, <2>5, <2>8 DEF AtEnd, CallEnds
  <2> QED
    BY <2>7, <2>8
<1>6. ASSUME FirstRow = Len(rows) + 1, Len(returned) = Cardinality(Numbered)
      PROVE  /\ \A k \in DOMAIN returned' : returned'[k] = SetAsWritten(k)
             /\ AtNumberedRow' \/ AtEnd'
  <2>1. StopRow = FirstRow /\ ~(StopRow =< Len(rows))
    BY <1>0, <1>6
  <2>2. /\ returned' = returned /\ pos' = Len(rows)
        /\ nextTransactionSet'.transactions = <<>>
    BY <1>4, <2>1 DEF CallEnds
  <2> QED
    BY <1>1, <1>3, <1>6, <2>2 DEF AtEnd
<1>7. CASE AtStart /\ rows # <<>>
  <2>1. FirstRow = 1 /\ currentSetNo = 0 /\ Len(returned) = 0
    <3>1. /\ pos = 0 /\ nextTransactionSet.transactions = <<>> /\ currentSetNo = 0
          /\ returned = <<>>
      BY <1>7 DEF AtStart
    <3> QED
      BY <3>1 DEF FirstRow
  <2>2. 1 \in Numbered
    BY <1>7 DEF WellFormed
  <2>3. rows[FirstRow].set_no = NextNo
    BY <1>0, <2>1, <2>2, FirstNumber
  <2> QED
    BY <1>5, <2>1, <2>2, <2>3
<1>8. CASE AtStart /\ rows = <<>>
  <2>1. FirstRow = 1 /\ Len(rows) = 0 /\ Len(returned) = 0
    <3>1. pos = 0 /\ nextTransactionSet.transactions = <<>> /\ returned = <<>> /\ rows = <<>>
      BY <1>8 DEF AtStart
    <3> QED
      BY <3>1 DEF FirstRow
  <2>2. Numbered = {}
    BY <1>0, <2>1 DEF Numbered
  <2>3. Cardinality(Numbered) = 0
    BY <2>2, FS_EmptySet
  <2> QED
    BY <1>6, <2>1, <2>3
<1>9. CASE AtNumberedRow
  BY <1>0, <1>5, <1>9 DEF AtNumberedRow
<1>10. CASE AtEnd
  <2>1. FirstRow = Len(rows) + 1
    BY <1>0, <1>10 DEF AtEnd, FirstRow
  <2> QED
    BY <1>6, <1>10, <2>1 DEF AtEnd
<1> QED
  BY <1>3, <1>7, <1>8, <1>9, <1>10

\* From a well-formed file of any length readNextSet returns the sets as they are
\* written, one by one, and says that there are no more when all were returned.
THEOREM FileReturnedAsWritten == Spec => []SetsAsWritten
<1>1. Init => WrittenSoFar
  <2> SUFFICES ASSUME Init PROVE WrittenSoFar
    OBVIOUS
  <2>1. AtStart
    <3>1. EmptySet.transactions = <<>>
      BY DEF EmptySet
    <3> QED
      BY <3>1, Zenon DEF Init, AtStart
  <2>2. DOMAIN returned = {}
    <3>1. returned = <<>>
      BY DEF Init
    <3> QED
      BY <3>1
  <2> QED
    BY <2>1, <2>2 DEF WrittenSoFar
<1>2. ReaderInv /\ ReaderInv' /\ WrittenSoFar /\ [Next]_csvVars => WrittenSoFar'
  <2> SUFFICES ASSUME ReaderInv, ReaderInv', WrittenSoFar, [Next]_csvVars PROVE WrittenSoFar'
    OBVIOUS
  <2>1. CASE readNextSet
    <3>1. rows' = rows /\ currentSetNo' = NextNo /\ (CallFails \/ CallEnds)
      BY <2>1, ReadIs DEF ReaderInv
    <3> QED
      BY <3>1, WrittenStep DEF ReaderInv
  <2>2. CASE UNCHANGED csvVars
    <3> USE <2>2 DEF csvVars
    <3>1. Numbered' = Numbered /\ WellFormed' = WellFormed
      BY DEF Numbered, WellFormed
    <3>2. \A k : SetAsWritten(k)' = SetAsWritten(k)
      BY <3>1 DEF SetAsWritten
    <3>3. AtStart' = AtStart /\ AtNumberedRow' = AtNumberedRow /\ AtEnd' = AtEnd
      BY <3>1 DEF AtStart, AtNumberedRow, AtEnd, FirstRow
    <3> QED
      BY <3>1, <3>2, <3>3 DEF WrittenSoFar
  <2> QED
    BY <2>1, <2>2 DEF Next
<1>3. ReaderInv /\ WrittenSoFar => SetsAsWritten
  BY WrittenSuffices DEF ReaderInv
<1> QED
  BY <1>1, <1>2, <1>3, ReaderInvariance, PTL DEF Spec

=============================================================================
