----------------------------- MODULE WalProofs ------------------------------
(***************************************************************************)
(* The write-ahead log of a server is sound for any transactions, ballots  *)
(* and lines left by earlier processes.                                    *)
(*                                                                         *)
(* Every operation adds at most one line and one entry at a time, so the   *)
(* invariants are stated of any file f, index ix and log lg: a Sync reply  *)
(* adds several, and passes through states that are no states of module    *)
(* Wal.                                                                    *)
(***************************************************************************)
EXTENDS Wal, SequenceTheorems, FiniteSetTheorems, TLAPS

-----------------------------------------------------------------------------
(* The inductive invariant *)

Typed(f, ix, lg) ==
    /\ f \in Seq(Line)
    /\ ix = [t \in DOMAIN ix |-> ix[t]] /\ DOMAIN ix \subseteq CrossTid
    /\ \A t \in DOMAIN ix : ix[t] \in Nat \cup {-1}
    /\ lg \in Seq(WALEntry)

\* A position of the index is that of the PREPARE line of its transaction, or the
\* file could not be opened and there is none.
Home(f, ix) ==
    \A t \in DOMAIN ix :
        \/ ix[t] = -1
        \/ /\ ix[t] \in 1 .. Len(f)
           /\ f[ix[t]].command = "CS_PREPARE" /\ f[ix[t]].tid = t /\ f[ix[t]].txn = t

\* The new lines of the file are the entries of the log.
Tells(f, lg) ==
    /\ Len(f) = Len(Leftover) + Len(lg)
    /\ \A i \in 1 .. Len(lg) : Decode(f[Len(Leftover) + i]) = lg[i]

\* Entry i of a log is an undecided PREPARED entry.
IsOpen(lg, i) ==
    /\ lg[i].status = "PREPARED"
    /\ \A k \in (i + 1) .. Len(lg) : lg[k].tid # lg[i].tid

\* The index has the positions of the undecided entries, and no other.
Indexed(ix, lg) ==
    /\ \A t \in DOMAIN ix : \E i \in 1 .. Len(lg) :
          ix[t] = Len(Leftover) + i /\ lg[i].tid = t /\ IsOpen(lg, i)
    /\ \A i \in 1 .. Len(lg) : IsOpen(lg, i) => lg[i].tid \in DOMAIN ix

NoLostWrites == "write" \notin Faults

\* fy: an access to the file has failed.
Sound(f, ix, lg, fy) ==
    /\ Typed(f, ix, lg)
    /\ NoLostWrites => Home(f, ix)
    /\ ~fy => Tells(f, lg) /\ Indexed(ix, lg)

WalInv == Sound(file, transferIndex, log, faulty) /\ faulty \in BOOLEAN

-----------------------------------------------------------------------------
(* One more line, one more entry *)

\* The index once t is prepared at position p.
Put(ix, t, p) == [u \in DOMAIN ix \cup {t} |-> IF u = t THEN p ELSE ix[u]]

\* The index once t is resolved.
Drop(ix, t) == [u \in DOMAIN ix \ {t} |-> ix[u]]

\* What the last element and the others of a longer sequence are.
LEMMA Longer ==
    ASSUME NEW S, NEW q \in Seq(S), NEW x \in S
    PROVE  /\ Append(q, x) \in Seq(S) /\ Len(Append(q, x)) = Len(q) + 1
           /\ Len(q) \in Nat
           /\ \A i \in 1 .. Len(q) : Append(q, x)[i] = q[i]
           /\ Append(q, x)[Len(q) + 1] = x
  BY AppendProperties, LenProperties

\* Adding a line moves no other line.
LEMMA HomeKept ==
    ASSUME NEW f \in Seq(Line), NEW ix, NEW l \in Line, Home(f, ix)
    PROVE  Home(Append(f, l), ix)
  BY Longer DEF Home

\* A transaction prepared in the line that is added.
LEMMA HomePut ==
    ASSUME NEW f \in Seq(Line), NEW ix, NEW t, NEW l \in Line, Home(f, ix),
           l.command = "CS_PREPARE", l.tid = t, l.txn = t
    PROVE  Home(Append(f, l), Put(ix, t, Len(f) + 1))
  BY Longer DEF Home, Put

\* Forgetting a transaction, or that it has no line.
LEMMA HomeDrop ==
    ASSUME NEW f, NEW ix, NEW t, Home(f, ix)
    PROVE  Home(f, Drop(ix, t)) /\ Home(f, Put(ix, t, -1))
  BY DEF Home, Drop, Put

\* Adding a line and the entry it stands for.
LEMMA TellsMore ==
    ASSUME NEW f \in Seq(Line), NEW lg \in Seq(WALEntry), NEW l \in Line,
           NEW e \in WALEntry, Decode(l) = e, Tells(f, lg)
    PROVE  Tells(Append(f, l), Append(lg, e))
<1>1. Len(Leftover) \in Nat
  BY WalAssumption, LenProperties
<1>2. /\ Len(Append(f, l)) = Len(f) + 1 /\ Append(f, l)[Len(f) + 1] = l
      /\ \A i \in 1 .. Len(f) : Append(f, l)[i] = f[i]
  BY Longer
<1>3. /\ Len(Append(lg, e)) = Len(lg) + 1 /\ Append(lg, e)[Len(lg) + 1] = e
      /\ \A i \in 1 .. Len(lg) : Append(lg, e)[i] = lg[i]
      /\ Len(lg) \in Nat
  BY Longer
<1>4. /\ Len(f) = Len(Leftover) + Len(lg)
      /\ \A i \in 1 .. Len(lg) : Decode(f[Len(Leftover) + i]) = lg[i]
  BY DEF Tells
<1>5. ASSUME NEW i \in 1 .. (Len(lg) + 1)
      PROVE  Decode(Append(f, l)[Len(Leftover) + i]) = Append(lg, e)[i]
  <2>1. CASE i = Len(lg) + 1
    <3>1. Len(Leftover) + i = Len(f) + 1
      BY <1>1, <1>3, <1>4, <2>1
    <3> QED
      BY <1>2, <1>3, <2>1, <3>1, Zenon
  <2>2. CASE i # Len(lg) + 1
    <3>1. i \in 1 .. Len(lg) /\ Len(Leftover) + i \in 1 .. Len(f)
      BY <1>1, <1>3, <1>4, <2>2
    <3> QED
      BY <1>2, <1>3, <1>4, <3>1, Zenon
  <2> QED
    BY <2>1, <2>2
<1>6. Len(Append(f, l)) = Len(Leftover) + Len(Append(lg, e))
  BY <1>1, <1>2, <1>3, <1>4
<1> QED
  BY <1>3, <1>5, <1>6 DEF Tells

\* Which entries are undecided once an entry is added.
LEMMA OpenInLonger ==
    ASSUME NEW lg \in Seq(WALEntry), NEW e \in WALEntry
    PROVE  /\ \A i \in 1 .. Len(lg) :
                 IsOpen(Append(lg, e), i) <=> IsOpen(lg, i) /\ lg[i].tid # e.tid
           /\ IsOpen(Append(lg, e), Len(lg) + 1) <=> e.status = "PREPARED"
<1> DEFINE m == Append(lg, e)
           n == Len(lg)
<1>1. /\ n \in Nat /\ Len(m) = n + 1 /\ m[n + 1] = e
      /\ \A i \in 1 .. n : m[i] = lg[i]
  BY Longer
<1> HIDE DEF m, n
<1>2. ASSUME NEW i \in 1 .. n
      PROVE  IsOpen(m, i) <=> IsOpen(lg, i) /\ lg[i].tid # e.tid
  <2>1. (i + 1) .. Len(m) = ((i + 1) .. n) \cup {n + 1}
    BY <1>1
  <2>2. \A k \in (i + 1) .. n : m[k] = lg[k]
    BY <1>1
  <2> QED
    BY <1>1, <2>1, <2>2 DEF IsOpen, n
<1>3. IsOpen(m, n + 1) <=> e.status = "PREPARED"
  <2>1. (n + 1 + 1) .. Len(m) = {}
    BY <1>1
  <2> QED
    BY <1>1, <2>1 DEF IsOpen
<1> QED
  BY <1>2, <1>3 DEF m, n

\* The index after a PREPARED entry and after any other one.
LEMMA IndexedMore ==
    ASSUME NEW f \in Seq(Line), NEW ix, NEW lg \in Seq(WALEntry),
           NEW e \in WALEntry, Tells(f, lg), Indexed(ix, lg)
    PROVE  /\ e.status = "PREPARED" => Indexed(Put(ix, e.tid, Len(f) + 1), Append(lg, e))
           /\ e.status # "PREPARED" => Indexed(Drop(ix, e.tid), Append(lg, e))
<1> DEFINE m == Append(lg, e)
           n == Len(lg)
           L == Len(Leftover)
<1>1. /\ n \in Nat /\ Len(m) = n + 1 /\ m[n + 1] = e
      /\ \A i \in 1 .. n : m[i] = lg[i]
      /\ L \in Nat /\ Len(f) = L + n
  BY Longer, WalAssumption, LenProperties DEF Tells
<1>2. /\ \A i \in 1 .. n : IsOpen(m, i) <=> IsOpen(lg, i) /\ lg[i].tid # e.tid
      /\ IsOpen(m, n + 1) <=> e.status = "PREPARED"
  BY OpenInLonger
<1>3. /\ \A t \in DOMAIN ix : \E i \in 1 .. n :
            ix[t] = L + i /\ lg[i].tid = t /\ IsOpen(lg, i)
      /\ \A i \in 1 .. n : IsOpen(lg, i) => lg[i].tid \in DOMAIN ix
  BY DEF Indexed
<1> HIDE DEF m, n, L
<1>4. \A t \in DOMAIN ix \ {e.tid} : \E i \in 1 .. Len(m) :
         ix[t] = L + i /\ m[i].tid = t /\ IsOpen(m, i)
  <2> SUFFICES ASSUME NEW t \in DOMAIN ix \ {e.tid}
               PROVE  \E i \in 1 .. Len(m) : ix[t] = L + i /\ m[i].tid = t /\ IsOpen(m, i)
    OBVIOUS
  <2>1. PICK i \in 1 .. n : ix[t] = L + i /\ lg[i].tid = t /\ IsOpen(lg, i)
    BY <1>3
  <2>2. i \in 1 .. Len(m) /\ m[i] = lg[i] /\ IsOpen(m, i)
    BY <1>1, <1>2, <2>1
  <2> QED
    BY <2>1, <2>2
<1>5. \A i \in 1 .. Len(m) : IsOpen(m, i) =>
         \/ m[i].tid \in DOMAIN ix \ {e.tid}
         \/ i = n + 1 /\ m[i].tid = e.tid /\ e.status = "PREPARED"
  <2> SUFFICES ASSUME NEW i \in 1 .. Len(m), IsOpen(m, i)
               PROVE  \/ m[i].tid \in DOMAIN ix \ {e.tid}
                      \/ i = n + 1 /\ m[i].tid = e.tid /\ e.status = "PREPARED"
    OBVIOUS
  <2>1. i \in 1 .. n \/ i = n + 1
    BY <1>1
  <2> QED
    BY <1>1, <1>2, <1>3, <2>1
<1>6. ASSUME e.status = "PREPARED"
      PROVE  Indexed(Put(ix, e.tid, Len(f) + 1), m)
  <2> DEFINE jx == Put(ix, e.tid, Len(f) + 1)
  <2>1. /\ DOMAIN jx = DOMAIN ix \cup {e.tid}
        /\ jx[e.tid] = L + (n + 1)
        /\ \A t \in DOMAIN ix \ {e.tid} : jx[t] = ix[t]
    BY <1>1 DEF Put
  <2>2. n + 1 \in 1 .. Len(m) /\ m[n + 1].tid = e.tid /\ IsOpen(m, n + 1)
    BY <1>1, <1>2, <1>6
  <2> HIDE DEF jx
  <2>3. \A t \in DOMAIN jx : \E i \in 1 .. Len(m) :
           jx[t] = L + i /\ m[i].tid = t /\ IsOpen(m, i)
    <3> SUFFICES ASSUME NEW t \in DOMAIN jx
                 PROVE  \E i \in 1 .. Len(m) :
                            jx[t] = L + i /\ m[i].tid = t /\ IsOpen(m, i)
      OBVIOUS
    <3>1. CASE t = e.tid
      BY <2>1, <2>2, <3>1
    <3>2. CASE t # e.tid
      BY <1>4, <2>1, <3>2
    <3> QED
      BY <3>1, <3>2
  <2>4. \A i \in 1 .. Len(m) : IsOpen(m, i) => m[i].tid \in DOMAIN jx
    BY <1>5, <2>1
  <2> QED
    BY <2>3, <2>4 DEF Indexed, jx, L
<1>7. ASSUME e.status # "PREPARED"
      PROVE  Indexed(Drop(ix, e.tid), m)
  BY <1>4, <1>5, <1>7 DEF Indexed, Drop, L
<1> QED
  BY <1>6, <1>7 DEF m

-----------------------------------------------------------------------------
(* Adding an entry with its line, as WAL::insertEntry does *)

InsertFile(f, l, a) == IF a = "done" THEN Append(f, l) ELSE f

InsertIndex(f, ix, e, a) ==
    IF a = "open" THEN ix
    ELSE IF e.status = "PREPARED" THEN Put(ix, e.tid, Len(f) + 1) ELSE Drop(ix, e.tid)

\* l is the line of e, and e may be indexed if it is prepared.
LineFor(l, e) ==
    /\ l \in Line /\ e \in WALEntry /\ Decode(l) = e
    /\ e.status = "PREPARED" => e.tid \in CrossTid /\ e.txn = e.tid

\* A line and the entry it stands for have the same fields; only the PREPARE
\* command says that an entry is prepared, and it says that it is cross-shard.
LEMMA LineSays ==
    ASSUME NEW l \in Line
    PROVE  /\ Decode(l).tid = l.tid /\ Decode(l).ballot = l.ballot /\ Decode(l).txn = l.txn
           /\ Decode(l).status = "PREPARED" => l.command = "CS_PREPARE"
           /\ l.command = "CS_PREPARE" => Decode(l).type = "CROSS"
           /\ Decode(l) \in WALEntry
  BY DEF Decode, Entry, Line, Command, WALEntry

\* The types of what an insertion leaves.
LEMMA InsertTyped ==
    ASSUME NEW f, NEW ix, NEW lg, NEW l, NEW e, NEW a \in Access,
           Typed(f, ix, lg), LineFor(l, e)
    PROVE  Typed(InsertFile(f, l, a), InsertIndex(f, ix, e, a), Append(lg, e))
<1>1. f \in Seq(Line) /\ lg \in Seq(WALEntry) /\ l \in Line /\ e \in WALEntry
  BY DEF Typed, LineFor
<1>2. InsertFile(f, l, a) \in Seq(Line) /\ Append(lg, e) \in Seq(WALEntry) /\ Len(f) + 1 \in Nat
  BY <1>1, Longer, LenProperties DEF InsertFile
<1>3. e.status = "PREPARED" => e.tid \in CrossTid
  BY DEF LineFor
<1>4. /\ InsertIndex(f, ix, e, a)
           = [t \in DOMAIN InsertIndex(f, ix, e, a) |-> InsertIndex(f, ix, e, a)[t]]
      /\ DOMAIN InsertIndex(f, ix, e, a) \subseteq CrossTid
      /\ \A t \in DOMAIN InsertIndex(f, ix, e, a) :
            InsertIndex(f, ix, e, a)[t] \in Nat \cup {-1}
  BY <1>2, <1>3 DEF Typed, InsertIndex, Put, Drop
<1> QED
  BY <1>2, <1>4 DEF Typed

\* An insertion keeps the log sound, whatever becomes of its access to the file.
LEMMA InsertSound ==
    ASSUME NEW f, NEW ix, NEW lg, NEW fy \in BOOLEAN, NEW l, NEW e, NEW a \in Access,
           Sound(f, ix, lg, fy), LineFor(l, e)
    PROVE  Sound(InsertFile(f, l, a), InsertIndex(f, ix, e, a), Append(lg, e),
                 fy \/ a # "done")
<1>1. /\ f \in Seq(Line) /\ lg \in Seq(WALEntry) /\ l \in Line /\ e \in WALEntry
      /\ Decode(l) = e
  BY DEF Sound, Typed, LineFor
<1>2. Typed(InsertFile(f, l, a), InsertIndex(f, ix, e, a), Append(lg, e))
  BY InsertTyped DEF Sound
<1>3. ASSUME NoLostWrites
      PROVE  Home(InsertFile(f, l, a), InsertIndex(f, ix, e, a))
  <2>1. Home(f, ix)
    BY <1>3 DEF Sound
  <2>2. CASE a = "open"
    BY <2>1, <2>2 DEF InsertFile, InsertIndex
  <2>3. CASE a = "done"
    <3>1. CASE e.status = "PREPARED"
      <4>1. l.command = "CS_PREPARE" /\ l.tid = e.tid /\ l.txn = e.tid
        BY <1>1, <3>1, LineSays DEF LineFor
      <4>2. Home(Append(f, l), Put(ix, e.tid, Len(f) + 1))
        BY <1>1, <2>1, <4>1, HomePut
      <4> QED
        BY <2>3, <3>1, <4>2 DEF InsertFile, InsertIndex
    <3>2. CASE e.status # "PREPARED"
      <4>1. Home(Append(f, l), Drop(ix, e.tid))
        BY <1>1, <2>1, HomeKept, HomeDrop
      <4> QED
        BY <2>3, <3>2, <4>1 DEF InsertFile, InsertIndex
    <3> QED
      BY <3>1, <3>2
  <2> QED
    BY <1>3, <2>2, <2>3, WalAssumption DEF Access, NoLostWrites
<1>4. ASSUME ~(fy \/ a # "done")
      PROVE  /\ Tells(InsertFile(f, l, a), Append(lg, e))
             /\ Indexed(InsertIndex(f, ix, e, a), Append(lg, e))
  <2>1. a = "done" /\ Tells(f, lg) /\ Indexed(ix, lg)
    BY <1>4 DEF Sound
  <2>2. Tells(Append(f, l), Append(lg, e))
    BY <1>1, <2>1, TellsMore
  <2>3. /\ e.status = "PREPARED" => Indexed(Put(ix, e.tid, Len(f) + 1), Append(lg, e))
        /\ e.status # "PREPARED" => Indexed(Drop(ix, e.tid), Append(lg, e))
    BY <1>1, <2>1, IndexedMore
  <2> QED
    BY <2>1, <2>2, <2>3 DEF InsertFile, InsertIndex
<1> QED
  BY <1>2, <1>3, <1>4 DEF Sound

\* Once an access has failed, only the types and the positions matter.
LEMMA FaultySound ==
    ASSUME NEW f, NEW ix, NEW lg, Typed(f, ix, lg), NoLostWrites => Home(f, ix)
    PROVE  Sound(f, ix, lg, TRUE)
  BY DEF Sound

-----------------------------------------------------------------------------
(* The initial state and the operations *)

\* Nothing is indexed and nothing logged when a server starts.
LEMMA InitWal == Init => WalInv
<1> SUFFICES ASSUME Init PROVE WalInv
  OBVIOUS
<1>1. Len(Leftover) \in Nat /\ Leftover \in Seq(Line)
  BY WalAssumption, LenProperties
<1>2. DOMAIN transferIndex = {} /\ log \in Seq(WALEntry) /\ Len(log) = 0
  BY DEF Init
<1>3. Typed(file, transferIndex, log)
  BY <1>1, <1>2 DEF Typed, Init
<1>4. Home(file, transferIndex)
  BY <1>2 DEF Home
<1>5. Tells(file, log) /\ Indexed(transferIndex, log)
  BY <1>1, <1>2 DEF Tells, Indexed, Init
<1> QED
  BY <1>3, <1>4, <1>5 DEF WalInv, Sound, Init

\* The history variable after one access.
LEMMA NoteOne ==
    ASSUME NEW a, Note({a})
    PROVE  faulty' = (faulty \/ a # "done")
  BY DEF Note

\* ServerImpl::prepareTransaction, which takes a position in any case.
LEMMA PrepareWal ==
    ASSUME WalInv, NEW tid \in CrossTid, NEW b \in BallotNum, NEW a \in Access,
           prepareTransaction(tid, b, a)
    PROVE  WalInv'
<1> DEFINE l == LineOf("CS_PREPARE", tid, b, tid)
           e == Entry(tid, b, tid, "CROSS", "PREPARED")
<1>1. tid \in Int /\ b \in Int
  BY WalAssumption DEF Tid
<1>2. l \in Line /\ e \in WALEntry /\ Decode(l) = e /\ e.status = "PREPARED"
      /\ e.tid = tid /\ e.txn = tid
  BY <1>1 DEF LineOf, Line, Command, Entry, WALEntry, Decode
<1>3. LineFor(l, e)
  BY <1>2 DEF LineFor
<1>4. /\ file' = InsertFile(file, l, a) /\ log' = Append(log, e)
      /\ transferIndex' = Put(transferIndex, tid, tellp(a))
      /\ faulty' = (faulty \/ a # "done")
  BY NoteOne DEF prepareTransaction, Written, InsertFile, Remember, Put
<1> HIDE DEF l, e
<1>5. CASE a # "open"
  <2>1. transferIndex' = InsertIndex(file, transferIndex, e, a)
    BY <1>2, <1>4, <1>5 DEF InsertIndex, tellp
  <2> QED
    BY <1>3, <1>4, <2>1, InsertSound DEF WalInv
<1>6. CASE a = "open"
  <2>1. /\ file' = file /\ transferIndex' = Put(transferIndex, tid, -1)
        /\ faulty' = TRUE
    BY <1>4, <1>6 DEF InsertFile, tellp
  <2>2. Typed(file', transferIndex', log')
    <3>1. log' \in Seq(WALEntry)
      BY <1>2, <1>4, Longer DEF WalInv, Sound, Typed
    <3> QED
      BY <2>1, <3>1 DEF WalInv, Sound, Typed, Put
  <2>3. NoLostWrites => Home(file', transferIndex')
    BY <2>1, HomeDrop DEF WalInv, Sound
  <2> QED
    BY <2>1, <2>2, <2>3, FaultySound DEF WalInv
<1> QED
  BY <1>5, <1>6

\* ServerImpl::commitTransaction; a transaction inside the shard is never indexed.
LEMMA CommitIntraWal ==
    ASSUME WalInv, NEW tid \in IntraTid, NEW b \in BallotNum, NEW a \in Access,
           commitIntra(tid, b, a)
    PROVE  WalInv'
<1> DEFINE l == LineOf("IN_COMMIT", tid, b, tid)
           e == Entry(tid, b, tid, "INTRA", "COMMITTED")
<1>1. tid \in Int /\ b \in Int
  BY WalAssumption DEF Tid
<1>2. l \in Line /\ e \in WALEntry /\ Decode(l) = e /\ e.status = "COMMITTED" /\ e.tid = tid
  BY <1>1 DEF LineOf, Line, Command, Entry, WALEntry, Decode
<1>3. LineFor(l, e)
  BY <1>2 DEF LineFor
<1>4. /\ file' = InsertFile(file, l, a) /\ transferIndex' = transferIndex
      /\ log' = Append(log, IF a = "open" THEN ErrorEntry ELSE e)
      /\ faulty' = (faulty \/ a # "done")
  BY NoteOne DEF commitIntra, Written, InsertFile
<1> HIDE DEF l, e
<1>5. CASE a # "open"
  <2>1. tid \notin DOMAIN transferIndex
    BY WalAssumption DEF WalInv, Sound, Typed
  <2>2. ASSUME faulty' PROVE WalInv'
    <3>1. Typed(file', transferIndex', log')
      <4>1. file' \in Seq(Line) /\ log' \in Seq(WALEntry)
        BY <1>2, <1>4, <1>5, Longer DEF WalInv, Sound, Typed, InsertFile
      <4> QED
        BY <1>4, <4>1 DEF WalInv, Sound, Typed
    <3>2. NoLostWrites => Home(file', transferIndex')
      BY <1>2, <1>4, HomeKept DEF WalInv, Sound, Typed, InsertFile
    <3>3. faulty' = TRUE
      BY <1>4, <2>2 DEF WalInv
    <3> QED
      BY <3>1, <3>2, <3>3, FaultySound DEF WalInv
  <2>3. ASSUME ~faulty' PROVE WalInv'
    <3>1. Sound(file', InsertIndex(file, transferIndex, e, a), log', faulty')
      BY <1>3, <1>4, <1>5, InsertSound DEF WalInv
    <3>2. transferIndex' = transferIndex /\ ~faulty /\ Indexed(transferIndex, log)
      BY <1>4, <2>3 DEF WalInv, Sound
    <3>3. InsertIndex(file, transferIndex, e, a) = Drop(transferIndex, tid)
      BY <1>2, <1>5 DEF InsertIndex
    <3>4. Drop(transferIndex, tid) = transferIndex
      <4>1. DOMAIN transferIndex \ {tid} = DOMAIN transferIndex
        BY <2>1
      <4>2. transferIndex = [t \in DOMAIN transferIndex |-> transferIndex[t]]
        BY DEF WalInv, Sound, Typed
      <4> QED
        BY <4>1, <4>2 DEF Drop
    <3> QED
      BY <1>4, <3>1, <3>3, <3>4 DEF WalInv
  <2> QED
    BY <2>2, <2>3
<1>6. CASE a = "open"
  <2>1. ErrorEntry \in WALEntry
    BY DEF ErrorEntry, Entry, WALEntry, Absent
  <2>2. log' = Append(log, ErrorEntry) /\ file' = file /\ faulty' = TRUE
    BY <1>4, <1>6 DEF InsertFile
  <2>3. Typed(file', transferIndex', log') /\ (NoLostWrites => Home(file', transferIndex'))
    BY <1>4, <2>1, <2>2, Longer DEF WalInv, Sound, Typed
  <2> QED
    BY <2>2, <2>3, FaultySound DEF WalInv
<1> QED
  BY <1>5, <1>6

\* What a decision reads is typed; while the disk works it is what was prepared.
LEMMA ReadBack ==
    ASSUME WalInv, NEW tid \in DOMAIN transferIndex, NEW r \in Access,
           NEW e \in IF r = "open" THEN {ErrorEntry}
                     ELSE getTransactionFromFile(transferIndex[tid])
    PROVE  /\ e \in WALEntry
           /\ ~faulty /\ r # "open" =>
                e.tid = tid /\ e.type = "CROSS" /\ e.status = "PREPARED"
<1>1. ErrorEntry \in WALEntry
  BY DEF ErrorEntry, Entry, WALEntry, Absent
<1>2. \A g \in Garbage : g \in WALEntry
  BY WalAssumption DEF Garbage, Entry, WALEntry, Absent, Tid
<1>3. \A p \in DOMAIN file : file[p] \in Line /\ p \in 1 .. Len(file)
  BY LenProperties, ElementOfSeq DEF WalInv, Sound, Typed
<1>4. \A p \in DOMAIN file :
         /\ Entry(file[p].tid, file[p].ballot, file[p].txn, "CROSS", "PREPARED") \in WALEntry
         /\ Entry(file[p].tid, file[p].ballot, file[p].txn, "CROSS", "PREPARED").tid = file[p].tid
  BY <1>3 DEF Line, Entry, WALEntry
<1>5. e \in WALEntry
  BY <1>1, <1>2, <1>4 DEF getTransactionFromFile
<1>6. ASSUME ~faulty, r # "open"
      PROVE  e.tid = tid /\ e.type = "CROSS" /\ e.status = "PREPARED"
  <2>1. Tells(file, log) /\ Indexed(transferIndex, log) /\ file \in Seq(Line)
    BY <1>6 DEF WalInv, Sound, Typed
  <2>2. PICK i \in 1 .. Len(log) : transferIndex[tid] = Len(Leftover) + i /\ log[i].tid = tid
    BY <2>1 DEF Indexed
  <2> DEFINE p == transferIndex[tid]
  <2>3. Len(Leftover) \in Nat /\ Len(log) \in Nat
    BY WalAssumption, LenProperties DEF WalInv, Sound, Typed
  <2>4. p \in 1 .. Len(file) /\ p \in DOMAIN file /\ file[p] \in Line /\ Decode(file[p]) = log[i]
    <3>1. p \in 1 .. Len(file)
      BY <2>1, <2>2, <2>3 DEF Tells
    <3>2. DOMAIN file = 1 .. Len(file)
      BY <2>1, LenProperties
    <3> QED
      BY <1>3, <2>1, <2>2, <3>1, <3>2 DEF Tells
  <2>5. file[p].tid = tid
    BY <2>2, <2>4, LineSays
  <2>6. e = Entry(file[p].tid, file[p].ballot, file[p].txn, "CROSS", "PREPARED")
    BY <1>6, <2>4 DEF getTransactionFromFile
  <2> QED
    BY <2>5, <2>6 DEF Entry
<1> QED
  BY <1>5, <1>6

\* WAL::commitTransaction and WAL::abortTransaction.  The line written has the
\* transaction that was read, and the same ballot.
LEMMA DecisionWal ==
    ASSUME WalInv, NEW tid \in DOMAIN transferIndex, NEW c \in BOOLEAN,
           NEW r \in Access, NEW w \in Access, processTpcDecision(tid, c, r, w)
    PROVE  WalInv'
<1>1. PICK e \in IF r = "open" THEN {ErrorEntry}
                 ELSE getTransactionFromFile(transferIndex[tid]) :
         /\ \/ /\ w = "open"
               /\ UNCHANGED <<file, transferIndex, log>>
            \/ /\ w # "open"
               /\ file' = Written(w, LineOf(IF c THEN "CS_COMMIT" ELSE "CS_ABORT",
                                            tid, e.ballot, e.txn))
               /\ transferIndex' = Resolved(tid)
               /\ log' = IF e.tid = Absent THEN log
                         ELSE Append(log, [e EXCEPT !.status =
                                  IF c THEN "COMMITTED" ELSE "ABORTED"])
         /\ Note({r, w})
  BY DEF processTpcDecision
<1> DEFINE st == IF c THEN "COMMITTED" ELSE "ABORTED"
           l  == LineOf(IF c THEN "CS_COMMIT" ELSE "CS_ABORT", tid, e.ballot, e.txn)
           d  == [e EXCEPT !.status = st]
<1>2. /\ e \in WALEntry
      /\ ~faulty /\ r # "open" => e.tid = tid /\ e.type = "CROSS" /\ e.status = "PREPARED"
  BY ReadBack
<1>3. tid \in CrossTid /\ tid \in Nat /\ tid # Absent
  BY WalAssumption DEF WalInv, Sound, Typed, Tid, Absent
<1>4. /\ l \in Line /\ d \in WALEntry
      /\ d.status # "PREPARED" /\ d.tid = e.tid
  BY <1>2, <1>3 DEF LineOf, Line, Command, WALEntry
<1>5. faulty' = (faulty \/ r # "done" \/ w # "done") /\ faulty' \in BOOLEAN
  BY <1>1 DEF Note, WalInv
<1>6. CASE w = "open"
  <2>1. UNCHANGED <<file, transferIndex, log>> /\ faulty' = TRUE
    BY <1>1, <1>5, <1>6
  <2> QED
    BY <2>1, FaultySound DEF WalInv, Sound
<1>7. CASE w # "open"
  <2>1. /\ file' = InsertFile(file, l, w) /\ transferIndex' = Drop(transferIndex, tid)
        /\ log' = IF e.tid = Absent THEN log ELSE Append(log, d)
    BY <1>1, <1>7 DEF Written, InsertFile, Resolved, Drop
  <2>2. ASSUME ~faulty' PROVE WalInv'
    <3>1. ~faulty /\ r = "done" /\ w = "done"
      BY <1>5, <2>2
    <3>2. e.tid = tid /\ e.type = "CROSS"
      BY <1>2, <3>1
    <3>3. Decode(l) = d
      BY <1>2, <3>2 DEF Decode, Entry, LineOf, WALEntry
    <3>4. LineFor(l, d)
      BY <1>4, <3>3 DEF LineFor
    <3>5. /\ log' = Append(log, d)
          /\ transferIndex' = InsertIndex(file, transferIndex, d, w)
      BY <1>3, <1>4, <2>1, <3>1, <3>2 DEF InsertIndex
    <3>6. faulty' = (faulty \/ w # "done")
      BY <1>5, <3>1
    <3> HIDE DEF l, d
    <3> QED
      BY <1>5, <2>1, <3>4, <3>5, <3>6, InsertSound DEF WalInv
  <2>3. ASSUME faulty' PROVE WalInv'
    <3> HIDE DEF l, d
    <3>1. file \in Seq(Line) /\ log \in Seq(WALEntry)
      BY DEF WalInv, Sound, Typed
    <3>2. file' \in Seq(Line) /\ log' \in Seq(WALEntry)
      BY <1>4, <2>1, <3>1, Longer DEF InsertFile
    <3>3. Typed(file', transferIndex', log')
      BY <2>1, <3>2 DEF WalInv, Sound, Typed, Drop
    <3>4. NoLostWrites => Home(file', transferIndex')
      <4> SUFFICES ASSUME NoLostWrites PROVE Home(file', transferIndex')
        OBVIOUS
      <4>1. Home(file, Drop(transferIndex, tid))
        BY HomeDrop DEF WalInv, Sound
      <4>2. Home(Append(file, l), Drop(transferIndex, tid))
        BY <1>4, <3>1, <4>1, HomeKept
      <4> QED
        BY <2>1, <4>1, <4>2 DEF InsertFile
    <3>5. faulty' = TRUE
      BY <1>5, <2>3
    <3> QED
      BY <3>3, <3>4, <3>5, FaultySound DEF WalInv
  <2> QED
    BY <2>2, <2>3
<1> QED
  BY <1>6, <1>7

-----------------------------------------------------------------------------
(* A Sync reply of two entries *)

SyncedLine(e) == LineOf(SyncedCommand(e), e.tid, e.ballot, e.txn)

\* The line written for a peer's entry says what the entry says.
LEMMA SyncedLineFor ==
    ASSUME NEW e \in PeerEntry
    PROVE  LineFor(SyncedLine(e), e)
<1>1. CASE e \in {Entry(t, b, t, "CROSS", s) : t \in CrossTid, b \in BallotNum,
                       s \in {"PREPARED", "COMMITTED", "ABORTED"}}
  <2>1. PICK t \in CrossTid, b \in BallotNum, s \in {"PREPARED", "COMMITTED", "ABORTED"} :
           e = Entry(t, b, t, "CROSS", s)
    BY <1>1
  <2>2. t \in Int /\ b \in Int
    BY WalAssumption DEF Tid
  <2>3. /\ e.tid = t /\ e.ballot = b /\ e.txn = t /\ e.type = "CROSS" /\ e.status = s
        /\ e \in WALEntry
    BY <2>1, <2>2 DEF Entry, WALEntry
  <2>4. SyncedCommand(e) = IF s = "PREPARED" THEN "CS_PREPARE"
                           ELSE IF s = "COMMITTED" THEN "CS_COMMIT" ELSE "CS_ABORT"
    BY <2>3 DEF SyncedCommand
  <2>5. SyncedLine(e) \in Line
    BY <2>2, <2>3, <2>4 DEF SyncedLine, LineOf, Line, Command
  <2>6. Decode(SyncedLine(e)) = e
    BY <2>1, <2>3, <2>4 DEF SyncedLine, LineOf, Decode, Entry
  <2> QED
    BY <2>3, <2>5, <2>6 DEF LineFor
<1>2. CASE e \in {Entry(t, b, t, "INTRA", "COMMITTED") : t \in IntraTid, b \in BallotNum}
  <2>1. PICK t \in IntraTid, b \in BallotNum : e = Entry(t, b, t, "INTRA", "COMMITTED")
    BY <1>2
  <2>2. t \in Int /\ b \in Int
    BY WalAssumption DEF Tid
  <2>3. /\ e.tid = t /\ e.ballot = b /\ e.txn = t /\ e.type = "INTRA"
        /\ e.status = "COMMITTED" /\ e \in WALEntry
    BY <2>1, <2>2 DEF Entry, WALEntry
  <2>4. SyncedCommand(e) = "IS_COMMIT"
    BY <2>3 DEF SyncedCommand
  <2>5. SyncedLine(e) \in Line
    BY <2>2, <2>3, <2>4 DEF SyncedLine, LineOf, Line, Command
  <2>6. Decode(SyncedLine(e)) = e
    BY <2>1, <2>3, <2>4 DEF SyncedLine, LineOf, Decode, Entry
  <2> QED
    BY <2>3, <2>5, <2>6 DEF LineFor
<1>3. CASE e = ErrorEntry
  <2>1. /\ e.tid = -1 /\ e.ballot = -1 /\ e.txn = -1 /\ e.type = "CROSS"
        /\ e.status = "NO_STATUS" /\ e \in WALEntry
    BY <1>3 DEF ErrorEntry, Absent, Entry, WALEntry
  <2>2. SyncedCommand(e) = "CS_"
    BY <2>1 DEF SyncedCommand
  <2>3. SyncedLine(e) \in Line
    BY <2>1, <2>2 DEF SyncedLine, LineOf, Line, Command
  <2>4. Decode(SyncedLine(e)) = e
    BY <1>3, <2>1, <2>2 DEF SyncedLine, LineOf, Decode, ErrorEntry, Absent, Entry
  <2> QED
    BY <2>1, <2>3, <2>4 DEF LineFor
<1> QED
  BY <1>1, <1>2, <1>3 DEF PeerEntry

\* FlattenSeq of two sequences concatenates them.
LEMMA FlattenTwo ==
    ASSUME NEW S, NEW s \in Seq(S), NEW t \in Seq(S)
    PROVE  FlattenSeq(<<s, t>>) = s \o t
<1> DEFINE q == <<s, t>>
           Flat(f) == f = [i \in 1 .. Len(q) |-> IF i = 1 THEN q[i] ELSE f[i-1] \o q[i]]
           w == [i \in 1 .. 2 |-> IF i = 1 THEN s ELSE s \o t]
<1>1. Len(q) = 2 /\ q[1] = s /\ q[2] = t
  OBVIOUS
<1>2. Flat(w)
  <2>1. Flat(w) <=> w = [i \in 1 .. 2 |-> IF i = 1 THEN s ELSE w[i-1] \o q[i]]
    BY <1>1
  <2>2. \A i \in 1 .. 2 : (IF i = 1 THEN s ELSE s \o t) = IF i = 1 THEN s ELSE w[i-1] \o q[i]
    BY <1>1
  <2> QED
    BY <2>1, <2>2
<1>3. \A f : Flat(f) => f[2] = s \o t
  <2> SUFFICES ASSUME NEW f, Flat(f) PROVE f[2] = s \o t
    OBVIOUS
  <2>1. f = [i \in 1 .. 2 |-> IF i = 1 THEN q[i] ELSE f[i-1] \o q[i]]
    BY <1>1
  <2> HIDE DEF Flat
  <2>2. /\ f[1] = IF 1 = 1 THEN q[1] ELSE f[1-1] \o q[1]
        /\ f[2] = IF 2 = 1 THEN q[2] ELSE f[2-1] \o q[2]
    BY <2>1, 1 \in 1 .. 2, 2 \in 1 .. 2, Zenon
  <2>3. f[1] = q[1]
    BY <2>2
  <2>4. f[2] = f[1] \o q[2]
    BY <2>2, 2 - 1 = 1, 2 # 1
  <2> QED
    BY <1>1, <2>3, <2>4
<1>4. FlattenSeq(q) = (CHOOSE f : Flat(f))[2]
  BY <1>1 DEF FlattenSeq
<1> HIDE DEF Flat, w, q
<1>5. Flat(CHOOSE f : Flat(f))
  BY <1>2
<1>6. (CHOOSE f : Flat(f))[2] = s \o t
  BY <1>3, <1>5
<1> QED
  BY <1>4, <1>6 DEF q

\* The lines of a Sync reply are added one after the other.
LEMMA TwoLines ==
    ASSUME NEW f \in Seq(Line), NEW l1 \in Line, NEW l2 \in Line, NEW a1, NEW a2
    PROVE  f \o FlattenSeq(<<IF a1 = "done" THEN <<l1>> ELSE <<>>,
                             IF a2 = "done" THEN <<l2>> ELSE <<>> >>)
             = InsertFile(InsertFile(f, l1, a1), l2, a2)
<1> DEFINE s == IF a1 = "done" THEN <<l1>> ELSE <<>>
           t == IF a2 = "done" THEN <<l2>> ELSE <<>>
<1>1. s \in Seq(Line) /\ t \in Seq(Line)
  OBVIOUS
<1>2. FlattenSeq(<<s, t>>) = s \o t
  BY <1>1, FlattenTwo
<1>3. f \o (s \o t) = InsertFile(InsertFile(f, l1, a1), l2, a2)
  <2>1. CASE a1 = "done" /\ a2 = "done"
    BY <2>1 DEF InsertFile
  <2>2. CASE a1 = "done" /\ a2 # "done"
    BY <2>2 DEF InsertFile
  <2>3. CASE a1 # "done" /\ a2 = "done"
    BY <2>3 DEF InsertFile
  <2>4. CASE a1 # "done" /\ a2 # "done"
    BY <2>4 DEF InsertFile
  <2> QED
    BY <2>1, <2>2, <2>3, <2>4
<1> QED
  BY <1>2, <1>3

\* ServerImpl::handleSyncReply is one insertion after the other: of two entries of
\* one transaction the later one decides whether it stays indexed, and where.
LEMMA SyncIsTwoInserts ==
    ASSUME WalInv, NEW e1 \in PeerEntry, NEW e2 \in PeerEntry,
           NEW a1 \in Access, NEW a2 \in Access,
           handleSyncReply(<<e1, e2>>, <<a1, a2>>)
    PROVE  LET f1 == InsertFile(file, SyncedLine(e1), a1) IN
           /\ file' = InsertFile(f1, SyncedLine(e2), a2)
           /\ transferIndex' = InsertIndex(f1, InsertIndex(file, transferIndex, e1, a1), e2, a2)
           /\ log' = Append(Append(log, e1), e2)
           /\ faulty' = (faulty \/ a1 # "done" \/ a2 # "done")
<1> DEFINE entries == <<e1, e2>>
           access  == <<a1, a2>>
           inserted   == {i \in DOMAIN entries : access[i] # "open"}
           kept       == {i \in DOMAIN entries : access[i] = "done"}
           line(i)    == LineOf(SyncedCommand(entries[i]), entries[i].tid,
                                entries[i].ballot, entries[i].txn)
           position(i) == Len(file) + Cardinality({j \in kept : j < i}) + 1
           last(tid)  == {i \in inserted : /\ entries[i].tid = tid
                                           /\ \A j \in inserted : entries[j].tid = tid => j =< i}
           synced     == {entries[i].tid : i \in inserted}
           open       == {t \in synced : \A i \in last(t) : entries[i].status = "PREPARED"}
           f1 == InsertFile(file, SyncedLine(e1), a1)
           ix == transferIndex
           jx == InsertIndex(file, ix, e1, a1)
<1>1. /\ file' = file \o FlattenSeq([i \in DOMAIN entries |->
                            IF i \in kept THEN <<line(i)>> ELSE <<>>])
      /\ transferIndex' = [t \in (DOMAIN transferIndex \ synced) \cup open |->
                            IF t \in open THEN position(CHOOSE i \in last(t) : TRUE)
                            ELSE transferIndex[t]]
      /\ log' = log \o entries
      /\ Note({access[i] : i \in DOMAIN entries})
  BY DEF handleSyncReply
<1>2. /\ DOMAIN entries = {1, 2} /\ entries[1] = e1 /\ entries[2] = e2
      /\ access[1] = a1 /\ access[2] = a2
  OBVIOUS
<1>3. /\ e1 \in WALEntry /\ e2 \in WALEntry
      /\ SyncedLine(e1) \in Line /\ SyncedLine(e2) \in Line
  BY SyncedLineFor DEF LineFor
<1>4. file \in Seq(Line) /\ log \in Seq(WALEntry) /\ Len(file) \in Nat
  BY LenProperties DEF WalInv, Sound, Typed
<1>5. file' = InsertFile(f1, SyncedLine(e2), a2)
  <2>1. [i \in DOMAIN entries |-> IF i \in kept THEN <<line(i)>> ELSE <<>>]
          = <<IF a1 = "done" THEN <<SyncedLine(e1)>> ELSE <<>>,
              IF a2 = "done" THEN <<SyncedLine(e2)>> ELSE <<>> >>
    <3> DEFINE g == [i \in DOMAIN entries |-> IF i \in kept THEN <<line(i)>> ELSE <<>>]
    <3>1. g[1] = IF a1 = "done" THEN <<SyncedLine(e1)>> ELSE <<>>
      BY <1>2 DEF SyncedLine
    <3>2. g[2] = IF a2 = "done" THEN <<SyncedLine(e2)>> ELSE <<>>
      BY <1>2 DEF SyncedLine
    <3>3. g = [i \in 1 .. 2 |-> g[i]]
      BY <1>2
    <3> HIDE DEF g
    <3>4. g = <<g[1], g[2]>>
      BY <3>3
    <3> QED
      BY <3>1, <3>2, <3>4 DEF g
  <2> HIDE DEF entries, kept, line
  <2>2. file' = file \o FlattenSeq(<<IF a1 = "done" THEN <<SyncedLine(e1)>> ELSE <<>>,
                                     IF a2 = "done" THEN <<SyncedLine(e2)>> ELSE <<>> >>)
    BY <1>1, <2>1
  <2> QED
    BY <1>3, <1>4, <2>2, TwoLines
<1>6. log' = Append(Append(log, e1), e2)
  <2>1. log \o <<e1, e2>> = Append(Append(log, e1), e2)
    BY <1>3, <1>4
  <2> QED
    BY <1>1, <2>1
<1>7. faulty' = (faulty \/ a1 # "done" \/ a2 # "done")
  BY <1>1, <1>2 DEF Note
<1>8. /\ position(1) = Len(file) + 1
      /\ position(2) = Len(f1) + 1
  <2>1. {j \in kept : j < 1} = {}
    BY <1>2
  <2>2. {j \in kept : j < 2} = IF a1 = "done" THEN {1} ELSE {}
    <3>1. \A j : j \in kept <=> (j = 1 /\ a1 = "done") \/ (j = 2 /\ a2 = "done")
      BY <1>2
    <3> HIDE DEF kept
    <3> QED
      BY <3>1
  <2>3. Cardinality({}) = 0 /\ Cardinality({1}) = 1
    BY FS_EmptySet, FS_Singleton
  <2>4. Len(f1) = Len(file) + IF a1 = "done" THEN 1 ELSE 0
    BY <1>3, <1>4, Longer DEF InsertFile
  <2> HIDE DEF kept, f1
  <2>5. position(1) = Len(file) + 1
    <3>1. Cardinality({j \in kept : j < 1}) = 0
      BY <2>1, <2>3, Zenon
    <3> QED
      BY <1>4, <3>1
  <2>6. position(2) = Len(f1) + 1
    BY <1>4, <2>2, <2>3, <2>4
  <2> QED
    BY <2>5, <2>6
<1>9. synced = {t \in {e1.tid, e2.tid} : \/ a1 # "open" /\ t = e1.tid
                                         \/ a2 # "open" /\ t = e2.tid}
  BY <1>2
<1>10. ASSUME NEW t, a2 # "open", t = e2.tid
       PROVE  last(t) = {2}
  BY <1>2, <1>10
<1>11. ASSUME NEW t, a1 # "open", t = e1.tid, a2 = "open" \/ t # e2.tid
       PROVE  last(t) = {1}
  BY <1>2, <1>11
<1>12. open = {t \in {e1.tid, e2.tid} :
                  \/ a2 # "open" /\ t = e2.tid /\ e2.status = "PREPARED"
                  \/ /\ a1 # "open" /\ t = e1.tid /\ e1.status = "PREPARED"
                     /\ a2 = "open" \/ t # e2.tid}
  <2> HIDE DEF last, synced, entries
  <2>1. ASSUME NEW t, a2 # "open", t = e2.tid
        PROVE  t \in open <=> e2.status = "PREPARED"
    BY <1>2, <1>9, <1>10, <2>1
  <2>2. ASSUME NEW t, a1 # "open", t = e1.tid, a2 = "open" \/ t # e2.tid
        PROVE  t \in open <=> e1.status = "PREPARED"
    BY <1>2, <1>9, <1>11, <2>2
  <2>3. \A t \in open : t \in synced
    OBVIOUS
  <2> HIDE DEF open
  <2> QED
    BY <1>9, <2>1, <2>2, <2>3
<1>13. ASSUME NEW t \in open
       PROVE  position(CHOOSE i \in last(t) : TRUE) =
                 IF a2 # "open" /\ t = e2.tid THEN Len(f1) + 1 ELSE Len(file) + 1
  <2> HIDE DEF position, last, open, f1
  <2>1. CASE a2 # "open" /\ t = e2.tid
    <3>1. (CHOOSE i \in last(t) : TRUE) = 2
      BY <1>10, <2>1
    <3> QED
      BY <1>8, <2>1, <3>1
  <2>2. CASE ~(a2 # "open" /\ t = e2.tid)
    <3>1. (CHOOSE i \in last(t) : TRUE) = 1
      BY <1>11, <1>12, <2>2
    <3> QED
      BY <1>8, <2>2, <3>1
  <2> QED
    BY <2>1, <2>2
<1>14. transferIndex' = InsertIndex(f1, jx, e2, a2)
  <2> HIDE DEF position, last, open, f1, synced, entries, access
  <2> DEFINE F == [t \in (DOMAIN ix \ synced) \cup open |->
                      IF t \in open
                      THEN IF a2 # "open" /\ t = e2.tid THEN Len(f1) + 1 ELSE Len(file) + 1
                      ELSE ix[t]]
             G == InsertIndex(f1, jx, e2, a2)
  <2>1. transferIndex' = F
    BY <1>1, <1>13
  <2>2. DOMAIN F = (DOMAIN ix \ synced) \cup open
    OBVIOUS
  <2>3. DOMAIN jx = IF a1 = "open" THEN DOMAIN ix
                    ELSE IF e1.status = "PREPARED" THEN DOMAIN ix \cup {e1.tid}
                    ELSE DOMAIN ix \ {e1.tid}
    BY DEF InsertIndex, Put, Drop
  <2>4. \A t \in DOMAIN jx :
           jx[t] = IF a1 # "open" /\ t = e1.tid THEN Len(file) + 1 ELSE ix[t]
    BY DEF InsertIndex, Put, Drop
  <2>5. CASE a2 = "open"
    <3>1. G = jx
      BY <2>5 DEF InsertIndex
    <3>2. DOMAIN F = DOMAIN jx
      BY <1>9, <1>12, <2>2, <2>3, <2>5
    <3>3. \A t \in DOMAIN F : F[t] = jx[t]
      BY <1>9, <1>12, <2>4, <2>5, <3>2
    <3>4. jx = [t \in DOMAIN jx |-> jx[t]]
      BY DEF InsertIndex, Put, Drop, WalInv, Sound, Typed
    <3> HIDE DEF jx
    <3> QED
      BY <2>1, <3>1, <3>2, <3>3, <3>4
  <2>6. CASE a2 # "open"
    <3>1. DOMAIN G = IF e2.status = "PREPARED" THEN DOMAIN jx \cup {e2.tid}
                     ELSE DOMAIN jx \ {e2.tid}
      BY <2>6 DEF InsertIndex, Put, Drop
    <3>2. \A t \in DOMAIN G : G[t] = IF t = e2.tid THEN Len(f1) + 1 ELSE jx[t]
      BY <2>6 DEF InsertIndex, Put, Drop
    <3>3. G = [t \in DOMAIN G |-> G[t]]
      BY <2>6 DEF InsertIndex, Put, Drop
    <3> HIDE DEF G, jx
    <3>4. DOMAIN F = DOMAIN G
      BY <1>9, <1>12, <2>2, <2>3, <2>6, <3>1
    <3>5. \A t \in DOMAIN F : F[t] = G[t]
      <4> SUFFICES ASSUME NEW t \in DOMAIN F PROVE F[t] = G[t]
        OBVIOUS
      <4>1. CASE t = e2.tid
        BY <1>9, <1>12, <2>6, <3>2, <3>4, <4>1
      <4>2. CASE t # e2.tid
        BY <1>9, <1>12, <2>4, <2>6, <3>1, <3>2, <3>4, <4>2
      <4> QED
        BY <4>1, <4>2
    <3>6. F = [t \in DOMAIN F |-> F[t]]
      OBVIOUS
    <3> HIDE DEF F
    <3>7. F = G
      BY <3>3, <3>4, <3>5, <3>6
    <3> QED
      BY <2>1, <3>7 DEF G
  <2> QED
    BY <2>5, <2>6
<1> QED
  BY <1>5, <1>6, <1>7, <1>14

\* ServerImpl::handleSyncReply
LEMMA SyncWal ==
    ASSUME WalInv, NEW e1 \in PeerEntry, NEW e2 \in PeerEntry,
           NEW a1 \in Access, NEW a2 \in Access,
           handleSyncReply(<<e1, e2>>, <<a1, a2>>)
    PROVE  WalInv'
<1> DEFINE f1 == InsertFile(file, SyncedLine(e1), a1)
           x1 == InsertIndex(file, transferIndex, e1, a1)
           y1 == (faulty \/ a1 # "done")
<1>1. /\ file' = InsertFile(f1, SyncedLine(e2), a2)
      /\ transferIndex' = InsertIndex(f1, x1, e2, a2)
      /\ log' = Append(Append(log, e1), e2)
      /\ faulty' = (y1 \/ a2 # "done")
  BY SyncIsTwoInserts
<1>2. LineFor(SyncedLine(e1), e1) /\ LineFor(SyncedLine(e2), e2)
  BY SyncedLineFor
<1>3. Sound(f1, x1, Append(log, e1), y1) /\ y1 \in BOOLEAN
  BY <1>2, InsertSound DEF WalInv
<1> HIDE DEF f1, x1, y1
<1>4. Sound(file', transferIndex', log', faulty') /\ faulty' \in BOOLEAN
  BY <1>1, <1>2, <1>3, InsertSound
<1> QED
  BY <1>4 DEF WalInv

-----------------------------------------------------------------------------
(* The theorems *)

\* Every operation of the write-ahead log keeps it sound.
THEOREM WalInvariance == Spec => []WalInv
<1>1. Init => WalInv
  BY InitWal
<1>2. ASSUME WalInv, [Next]_walVars PROVE WalInv'
  <2>1. CASE Next
    <3>1. CASE \E tid \in CrossTid, b \in BallotNum, a \in Access : prepareTransaction(tid, b, a)
      BY <1>2, <3>1, PrepareWal
    <3>2. CASE \E tid \in IntraTid, b \in BallotNum, a \in Access : commitIntra(tid, b, a)
      BY <1>2, <3>2, CommitIntraWal
    <3>3. CASE \E tid \in DOMAIN transferIndex, c \in BOOLEAN, r \in Access, w \in Access :
                  processTpcDecision(tid, c, r, w)
      BY <1>2, <3>3, DecisionWal
    <3>4. CASE \E e1, e2 \in PeerEntry, a1, a2 \in Access :
                  handleSyncReply(<<e1, e2>>, <<a1, a2>>)
      BY <1>2, <3>4, SyncWal
    <3> QED
      BY <2>1, <3>1, <3>2, <3>3, <3>4 DEF Next
  <2>2. CASE UNCHANGED walVars
    BY <1>2, <2>2 DEF walVars, WalInv, Sound, Typed, Home, Tells, Indexed, IsOpen
  <2> QED
    BY <1>2, <2>1, <2>2
<1> QED
  BY <1>1, <1>2, PTL DEF Spec

\* The variables of the write-ahead log keep their types.
THEOREM WalTypeCorrectness == Spec => []TypeOK
<1>1. WalInv => TypeOK
  BY DEF WalInv, Sound, Typed, TypeOK, Tid
<1> QED
  BY <1>1, WalInvariance, PTL

\* If an opened file never loses what is written to it, then a decision never
\* reads a line of another transaction, whichever opens fail: an entry of
\* transferIndex points to the PREPARE line of its transaction (wal.cc:55).
THEOREM IndexAlwaysPointsHome ==
    ASSUME "write" \notin Faults
    PROVE  Spec => []IndexPointsHome
<1>1. WalInv => IndexPointsHome
  <2> SUFFICES ASSUME WalInv, NEW tid \in DOMAIN transferIndex,
                      transferIndex[tid] \in DOMAIN file
               PROVE  LET p == transferIndex[tid] IN
                      file[p].command = "CS_PREPARE" /\ file[p].tid = tid /\ file[p].txn = tid
    BY DEF IndexPointsHome
  <2>1. Home(file, transferIndex) /\ file \in Seq(Line)
    BY DEF WalInv, Sound, NoLostWrites, Typed
  <2>2. DOMAIN file = 1 .. Len(file) /\ Len(file) \in Nat
    BY <2>1, LenProperties
  <2>3. transferIndex[tid] # -1
    BY <2>2
  <2> QED
    BY <2>1, <2>3 DEF Home
<1> QED
  BY <1>1, WalInvariance, PTL

\* While the disk works, what decisions read back from the file are exactly the
\* undecided prepared entries of the log.
THEOREM IndexIsAlwaysUnresolved == Spec => []IndexIsUnresolved
<1>1. WalInv => IndexIsUnresolved
  <2> SUFFICES ASSUME WalInv, ~faulty
               PROVE  Unresolved = UNION {getTransactionFromFile(transferIndex[tid]) :
                                             tid \in DOMAIN transferIndex}
    BY DEF IndexIsUnresolved
  <2> DEFINE L == Len(Leftover)
             n == Len(log)
             Read(t) == getTransactionFromFile(transferIndex[t])
  <2>1. Tells(file, log) /\ Indexed(transferIndex, log)
    BY DEF WalInv, Sound
  <2>2. /\ L \in Nat /\ n \in Nat /\ Len(file) = L + n
        /\ DOMAIN file = 1 .. Len(file) /\ DOMAIN log = 1 .. n
        /\ \A p \in 1 .. Len(file) : file[p] \in Line
        /\ \A i \in 1 .. n : log[i] \in WALEntry
    BY <2>1, WalAssumption, LenProperties, ElementOfSeq DEF WalInv, Sound, Typed, Tells
  <2>3. \A i \in 1 .. n : Decode(file[L + i]) = log[i]
    BY <2>1 DEF Tells
  <2>4. \A t \in DOMAIN transferIndex : \E i \in 1 .. n :
           transferIndex[t] = L + i /\ log[i].tid = t /\ IsOpen(log, i)
    BY <2>1 DEF Indexed
  <2>5. \A i \in 1 .. n : IsOpen(log, i) => log[i].tid \in DOMAIN transferIndex
    BY <2>1 DEF Indexed
  <2>6. Unresolved = {log[i] : i \in {j \in 1 .. n : IsOpen(log, j)}}
    BY <2>2 DEF Unresolved, IsOpen
  <2>7. ASSUME NEW i \in 1 .. n, IsOpen(log, i)
        PROVE  getTransactionFromFile(L + i) = {log[i]}
    <3> DEFINE l == file[L + i]
    <3>1. L + i \in DOMAIN file /\ l \in Line /\ Decode(l) = log[i]
      BY <2>2, <2>3
    <3>2. log[i].status = "PREPARED"
      BY <2>7 DEF IsOpen
    <3>3. l.command = "CS_PREPARE"
      BY <3>1, <3>2, LineSays
    <3>4. Decode(l) = Entry(l.tid, l.ballot, l.txn, "CROSS", "PREPARED")
      BY <3>3 DEF Decode
    <3> QED
      BY <3>1, <3>4 DEF getTransactionFromFile
  <2>8. ASSUME NEW i \in 1 .. n, NEW j \in 1 .. n, IsOpen(log, i), IsOpen(log, j),
               log[i].tid = log[j].tid
        PROVE  i = j
    <3>1. ~(i < j) /\ ~(j < i)
      BY <2>2, <2>8 DEF IsOpen
    <3> QED
      BY <3>1
  <2>9. ASSUME NEW t \in DOMAIN transferIndex
        PROVE  \E i \in 1 .. n : IsOpen(log, i) /\ log[i].tid = t /\ Read(t) = {log[i]}
    BY <2>4, <2>7
  <2>10. ASSUME NEW i \in 1 .. n, IsOpen(log, i)
         PROVE  log[i].tid \in DOMAIN transferIndex /\ Read(log[i].tid) = {log[i]}
    BY <2>5, <2>8, <2>9, <2>10
  <2> HIDE DEF Read, n
  <2>11. \A x : x \in Unresolved <=> \E i \in 1 .. n : IsOpen(log, i) /\ x = log[i]
    BY <2>6
  <2>12. \A x : x \in UNION {Read(tid) : tid \in DOMAIN transferIndex}
                  <=> \E t \in DOMAIN transferIndex : x \in Read(t)
    OBVIOUS
  <2>13. Unresolved = UNION {Read(tid) : tid \in DOMAIN transferIndex}
    BY <2>9, <2>10, <2>11, <2>12
  <2> QED
    BY <2>13 DEF Read
<1> QED
  BY <1>1, WalInvariance, PTL

\* While the disk works, the log could be rebuilt from the lines written since the
\* start.
THEOREM FileAlwaysTellsLog == Spec => []FileTellsLog
<1>1. WalInv => FileTellsLog
  <2> SUFFICES ASSUME WalInv, ~faulty
               PROVE  log = [i \in 1 .. (Len(file) - Len(Leftover)) |->
                                Decode(file[Len(Leftover) + i])]
    BY DEF FileTellsLog
  <2>1. Tells(file, log) /\ log \in Seq(WALEntry)
    BY DEF WalInv, Sound, Typed
  <2>2. Len(Leftover) \in Nat /\ Len(log) \in Nat
    BY <2>1, WalAssumption, LenProperties
  <2>3. 1 .. (Len(file) - Len(Leftover)) = 1 .. Len(log)
    BY <2>1, <2>2 DEF Tells
  <2>4. log = [i \in 1 .. Len(log) |-> log[i]]
    BY <2>1, SeqDef, LenProperties
  <2>5. [i \in 1 .. Len(log) |-> log[i]]
           = [i \in 1 .. Len(log) |-> Decode(file[Len(Leftover) + i])]
    BY <2>1 DEF Tells
  <2> QED
    BY <2>3, <2>4, <2>5
<1> QED
  BY <1>1, WalInvariance, PTL

=============================================================================
