-------------------------- MODULE AuditChainProofs --------------------------
(***************************************************************************)
(* Proofs about AuditChain, for any contents and any number of rows,       *)
(* batches and damages.  The argument: every hash in the table was         *)
(* computed by append_events, and damage moves hashes about but computes   *)
(* none; the loop of verify_chain carries along exactly the events it has  *)
(* passed, because each of them, hashed onto the ones before, gave the     *)
(* hash that its row holds.  So what has been passed is a trail that was   *)
(* appended.                                                               *)
(***************************************************************************)
EXTENDS AuditChain, SequenceTheorems, TLAPS

\* What is known of the rows of a table or of a reader.
GoodRows(s) == /\ s \in Seq(Row)
               /\ \A i \in DOMAIN s : s[i].hash \in appended

Ordered(s) == /\ \A i \in DOMAIN s : s[i].seq >= i
              /\ \A i, j \in DOMAIN s : i < j => s[i].seq < s[j].seq

TableInv == /\ GoodRows(rows) /\ Ordered(rows)
            /\ appended \subseteq Hash /\ GENESIS \in appended
            /\ damage \in 0 .. MaxDamage

\* The loop has passed the events before `at` and carries them along.
ReaderInv == /\ GoodRows(reader.rows)
             /\ reader.at \in 1 .. Len(reader.rows) + 1
             /\ reader.prev = Events(SubSeq(reader.rows, 1, reader.at - 1))
             /\ reader.prev \in appended
             /\ reader.on \in BOOLEAN

\* The report agrees with where the loop is.
ReportInv == /\ reader.report \in Report
             /\ reader.report.ok => reader.at = Len(reader.rows) + 1
             /\ reader.report.bad # 0 => /\ reader.report.bad = reader.at
                                         /\ reader.at \in DOMAIN reader.rows

ReaderRec == [rows : Seq(Row), at : Nat \ {0}, prev : Hash, report : Report, on : BOOLEAN]

Inv == TableInv /\ ReaderInv /\ ReportInv /\ reader \in ReaderRec

-----------------------------------------------------------------------------
(* Sequences.                                                              *)

\* One more event is one step of the hash.
LEMMA OneMore ==
    ASSUME NEW S, NEW h \in Seq(S), NEW e \in Seq(S), NEW i \in 1 .. Len(e)
    PROVE  Append(h \o SubSeq(e, 1, i - 1), e[i]) = h \o SubSeq(e, 1, i)
  <1> DEFINE a == SubSeq(e, 1, i - 1)
             b == SubSeq(e, 1, i)
  <1>1. /\ a \in Seq(S) /\ Len(a) = i - 1
        /\ \A k \in 1 .. i - 1 : a[k] = e[k]
    OBVIOUS
  <1>2. /\ b \in Seq(S) /\ Len(b) = i
        /\ \A k \in 1 .. i : b[k] = e[k]
    OBVIOUS
  <1> HIDE DEF a, b
  <1>3. /\ h \o a \in Seq(S) /\ Len(h \o a) = Len(h) + i - 1
        /\ \A k \in 1 .. Len(h) + i - 1 : (h \o a)[k] = IF k <= Len(h) THEN h[k] ELSE e[k - Len(h)]
    <2>1. /\ h \o a \in Seq(S) /\ Len(h \o a) = Len(h) + Len(a)
          /\ \A k \in 1 .. Len(h) + Len(a) : (h \o a)[k] = IF k <= Len(h) THEN h[k] ELSE a[k - Len(h)]
      BY <1>1, ConcatProperties, Zenon
    <2> QED  BY <1>1, <2>1
  <1>4. /\ h \o b \in Seq(S) /\ Len(h \o b) = Len(h) + i
        /\ \A k \in 1 .. Len(h) + i : (h \o b)[k] = IF k <= Len(h) THEN h[k] ELSE e[k - Len(h)]
    <2>1. /\ h \o b \in Seq(S) /\ Len(h \o b) = Len(h) + Len(b)
          /\ \A k \in 1 .. Len(h) + Len(b) : (h \o b)[k] = IF k <= Len(h) THEN h[k] ELSE b[k - Len(h)]
      BY <1>2, ConcatProperties, Zenon
    <2> QED  BY <1>2, <2>1
  <1> DEFINE c == h \o a
             d == h \o b
  <1> HIDE DEF c, d
  <1>5. /\ Append(c, e[i]) \in Seq(S) /\ Len(Append(c, e[i])) = Len(d)
        /\ \A k \in 1 .. Len(d) : Append(c, e[i])[k] = d[k]
    <2>1. e[i] \in S
      OBVIOUS
    <2>2. c \in Seq(S) /\ Len(c) = Len(h) + i - 1 /\ Len(d) = Len(h) + i
      BY <1>3, <1>4 DEF c, d
    <2>3. /\ Append(c, e[i]) \in Seq(S) /\ Len(Append(c, e[i])) = Len(c) + 1
          /\ \A k \in 1 .. Len(c) : Append(c, e[i])[k] = c[k]
          /\ Append(c, e[i])[Len(c) + 1] = e[i]
      BY <2>1, <2>2, AppendProperties
    <2>4. \A k \in 1 .. Len(c) : c[k] = d[k]
      BY <1>3, <1>4, SMTT(30) DEF c, d
    <2>5. d[Len(c) + 1] = e[i]
      BY <1>4, <2>2, SMTT(30) DEF d
    <2>6. \A k \in 1 .. Len(d) : k \in 1 .. Len(c) \/ k = Len(c) + 1
      BY <2>2
    <2>7. \A k \in 1 .. Len(d) : Append(c, e[i])[k] = d[k]
      BY <2>3, <2>4, <2>5, <2>6
    <2>8. Len(c) + 1 = Len(d)
      BY <2>2
    <2> QED  BY <2>3, <2>7, <2>8
  <1>6. Append(c, e[i]) = d
    BY <1>4, <1>5, SeqEqual DEF d
  <1> QED  BY <1>6 DEF a, b, c, d

\* A row taken out leaves rows that were there, in their order.
LEMMA WithoutOne ==
    ASSUME NEW S, NEW s \in Seq(S), NEW i \in DOMAIN s
    PROVE  /\ Without(s, i) \in Seq(S)
           /\ Len(Without(s, i)) = Len(s) - 1
           /\ \A j \in 1 .. Len(s) - 1 :
                Without(s, i)[j] = IF j < i THEN s[j] ELSE s[j + 1]
  <1> DEFINE a == SubSeq(s, 1, i - 1)
             b == SubSeq(s, i + 1, Len(s))
  <1>1. /\ a \in Seq(S) /\ Len(a) = i - 1
        /\ \A k \in 1 .. i - 1 : a[k] = s[k]
    OBVIOUS
  <1>2. /\ b \in Seq(S) /\ Len(b) = Len(s) - i
        /\ \A k \in 1 .. Len(s) - i : b[k] = s[i + k]
    OBVIOUS
  <1>3. Without(s, i) = a \o b
    BY DEF Without
  <1> HIDE DEF a, b
  <1>4. /\ a \o b \in Seq(S) /\ Len(a \o b) = Len(s) - 1
        /\ \A j \in 1 .. Len(s) - 1 : (a \o b)[j] = IF j <= i - 1 THEN a[j] ELSE b[j - (i - 1)]
    <2>1. /\ a \o b \in Seq(S) /\ Len(a \o b) = Len(a) + Len(b)
          /\ \A j \in 1 .. Len(a) + Len(b) : (a \o b)[j] = IF j <= Len(a) THEN a[j] ELSE b[j - Len(a)]
      BY <1>1, <1>2, ConcatProperties, Zenon
    <2>2. i \in 1 .. Len(s) /\ Len(s) \in Nat
      OBVIOUS
    <2>3. Len(a) + Len(b) = Len(s) - 1
      BY <1>1, <1>2, <2>2
    <2> QED  BY <1>1, <2>1, <2>3
  <1>5. \A j \in 1 .. Len(s) - 1 : (a \o b)[j] = IF j < i THEN s[j] ELSE s[j + 1]
    <2> SUFFICES ASSUME NEW j \in 1 .. Len(s) - 1
                 PROVE  (a \o b)[j] = IF j < i THEN s[j] ELSE s[j + 1]
      OBVIOUS
    <2>1. j \in Int /\ i \in 1 .. Len(s) /\ Len(s) \in Nat
      OBVIOUS
    <2>2. CASE j < i
      <3>1. (a \o b)[j] = a[j] /\ j \in 1 .. i - 1
        BY <1>4, <2>1, <2>2
      <3> QED  BY <1>1, <2>2, <3>1
    <2>3. CASE ~(j < i)
      <3>1. (a \o b)[j] = b[j - (i - 1)] /\ j - (i - 1) \in 1 .. Len(s) - i
        BY <1>4, <2>1, <2>3
      <3>2. i + (j - (i - 1)) = j + 1
        BY <2>1
      <3> QED  BY <1>2, <2>3, <3>1, <3>2
    <2> QED  BY <2>2, <2>3
  <1> QED  BY <1>3, <1>4, <1>5

\* The events passed, with one more.
LEMMA EventsAppend ==
    ASSUME NEW s \in Seq(Row), NEW k \in DOMAIN s
    PROVE  Events(SubSeq(s, 1, k)) =
               Append(Events(SubSeq(s, 1, k - 1)), Row_to_event(s[k]))
  <1> DEFINE a == SubSeq(s, 1, k - 1)
             b == SubSeq(s, 1, k)
  <1>1. /\ a \in Seq(Row) /\ Len(a) = k - 1
        /\ \A j \in 1 .. k - 1 : a[j] = s[j]
    OBVIOUS
  <1>2. /\ b \in Seq(Row) /\ Len(b) = k
        /\ \A j \in 1 .. k : b[j] = s[j]
    OBVIOUS
  <1> HIDE DEF a, b
  <1>3. \A r \in Row : Row_to_event(r) \in Event
    BY DEF Row, Event, Row_to_event
  <1>4. /\ Events(a) \in Seq(Event) /\ Len(Events(a)) = k - 1
        /\ \A j \in 1 .. k - 1 : Events(a)[j] = Row_to_event(s[j])
    BY <1>1, <1>3 DEF Events
  <1>5. /\ Events(b) \in Seq(Event) /\ Len(Events(b)) = k
        /\ \A j \in 1 .. k : Events(b)[j] = Row_to_event(s[j])
    <2>1. \A j \in 1 .. k : b[j] \in Row
      BY <1>2
    <2>2. DOMAIN b = 1 .. k /\ k \in Nat
      BY <1>2
    <2>3. Events(b) = [j \in 1 .. k |-> Row_to_event(b[j])]
      BY <2>2 DEF Events
    <2>4. \A j \in 1 .. k : Row_to_event(b[j]) \in Event
      BY <1>3, <2>1
    <2>5. Events(b) \in [1 .. k -> Event]
      BY <2>3, <2>4
    <2>6. Events(b) \in Seq(Event) /\ Len(Events(b)) = k
      BY <2>2, <2>5
    <2> QED  BY <1>2, <2>3, <2>6
  <1>6. Row_to_event(s[k]) \in Event
    BY <1>3
  <1> DEFINE c == Events(a)
             d == Events(b)
             e == Row_to_event(s[k])
  <1> HIDE DEF c, d, e
  <1>7. /\ Append(c, e) \in Seq(Event) /\ Len(Append(c, e)) = k
        /\ \A j \in 1 .. k - 1 : Append(c, e)[j] = c[j]
        /\ Append(c, e)[k] = e
    BY <1>4, <1>6, AppendProperties DEF c, e
  <1>8. \A j \in 1 .. k : Append(c, e)[j] = d[j]
    BY <1>4, <1>5, <1>7 DEF c, d, e
  <1>9. Append(c, e) = d
    BY <1>5, <1>7, <1>8, SeqEqual DEF d
  <1> QED  BY <1>9 DEF a, b, c, d, e

-----------------------------------------------------------------------------
(* The rows that append_events adds.                                       *)

LEMMA LastIsAuthentic ==
    ASSUME TableInv
    PROVE  /\ LastHash \in appended /\ LastHash \in Seq(Event)
           /\ LastSeq \in Nat /\ LastSeq >= Len(rows) /\ LastSeq <= MaxRows
           /\ \A i \in DOMAIN rows : rows[i].seq <= LastSeq
  <1>1. rows \in Seq(Row) /\ appended \subseteq Seq(Event) /\ GENESIS \in appended
    BY DEF TableInv, GoodRows, Hash
  <1>2. CASE rows = <<>>
    BY <1>1, <1>2, BoundsAssumption DEF LastHash, LastSeq
  <1>3. CASE rows # <<>>
    <2>1. Len(rows) \in DOMAIN rows /\ rows[Len(rows)] \in Row
      BY <1>1, <1>3
    <2>2. rows[Len(rows)].seq \in 1 .. MaxRows /\ rows[Len(rows)].seq >= Len(rows)
      BY <2>1 DEF Row, Seqs, TableInv, Ordered
    <2>3. \A i \in DOMAIN rows : rows[i].seq <= rows[Len(rows)].seq
      <3> TAKE i \in DOMAIN rows
      <3>1. i < Len(rows) \/ i = Len(rows)
        BY <1>1
      <3>2. rows[i] \in Row
        BY <1>1
      <3>3. rows[i].seq \in 1 .. MaxRows
        BY <3>2 DEF Row, Seqs
      <3> QED  BY <3>3, <2>1, <2>2, <3>1, <3>2 DEF TableInv, Ordered
    <2>4. rows[Len(rows)].hash \in appended
      BY <2>1 DEF TableInv, GoodRows
    <2> QED  BY <1>1, <1>3, <2>2, <2>3, <2>4, BoundsAssumption DEF LastHash, LastSeq
  <1> QED  BY <1>2, <1>3

LEMMA NewRowsAreGood ==
    ASSUME TableInv, NEW n \in Nat, NEW batch \in [1 .. n -> Contents],
           LastSeq + n <= MaxRows
    PROVE  /\ NewRows(batch) \in Seq(Row) /\ Len(NewRows(batch)) = n
           /\ \A i \in 1 .. n : /\ NewRows(batch)[i].seq = LastSeq + i
                                /\ NewRows(batch)[i].hash = HashAfter(Final(batch), i)
           /\ \A i \in 0 .. n : HashAfter(Final(batch), i) \in Hash
  <1>1. /\ LastHash \in Seq(Event) /\ LastSeq \in Nat
        /\ \A i \in 1 .. n : LastSeq + i \in Seqs
    BY LastIsAuthentic, BoundsAssumption DEF Seqs
  <1> DEFINE f == Final(batch)
  <1>2. f \in Seq(Event) /\ Len(f) = n /\ \A i \in 1 .. n : f[i] \in Event
    BY <1>1 DEF Final, Event
  <1> HIDE DEF f
  <1>3. \A i \in 0 .. n : SubSeq(f, 1, i) \in Seq(Event)
    BY <1>2
  <1>4. \A i \in 0 .. n : HashAfter(f, i) \in Hash
    <2> TAKE i \in 0 .. n
    <2>1. SubSeq(f, 1, i) \in Seq(Event)
      BY <1>3
    <2> HIDE DEF f
    <2>2. LastHash \o SubSeq(f, 1, i) \in Seq(Event)
      BY <1>1, <2>1, ConcatProperties, Zenon
    <2> QED  BY <2>2 DEF HashAfter, Hash
  <1>5. \A i \in 1 .. n : Event_hash(HashAfter(f, i - 1), f[i]) = HashAfter(f, i)
    <2> TAKE i \in 1 .. n
    <2>1. i \in 1 .. Len(f)
      BY <1>2
    <2>2. Append(LastHash \o SubSeq(f, 1, i - 1), f[i]) = LastHash \o SubSeq(f, 1, i)
      BY <1>1, <1>2, <2>1, OneMore, Zenon
    <2> QED  BY <2>2 DEF Event_hash, HashAfter
  <1> DEFINE row(i) == [seq |-> LastSeq + i, content |-> batch[i],
                        prev_hash |-> HashAfter(f, i - 1),
                        hash |-> Event_hash(HashAfter(f, i - 1), f[i])]
  <1>6. NewRows(batch) = [i \in 1 .. n |-> row(i)]
    BY DEF NewRows, f
  <1>7. \A i \in 1 .. n : /\ row(i) \in Row /\ row(i).seq = LastSeq + i
                          /\ row(i).hash = HashAfter(f, i)
    <2> TAKE i \in 1 .. n
    <2>1. i - 1 \in 0 .. n /\ i \in 0 .. n
      OBVIOUS
    <2>2. HashAfter(f, i - 1) \in Hash /\ Event_hash(HashAfter(f, i - 1), f[i]) \in Hash
      <3>1. HashAfter(f, i - 1) \in Hash
        BY <1>4, <2>1
      <3>2. HashAfter(f, i) \in Hash
        BY <1>4, <2>1
      <3>3. Event_hash(HashAfter(f, i - 1), f[i]) = HashAfter(f, i)
        BY <1>5
      <3> QED  BY <3>1, <3>2, <3>3
    <2>3. LastSeq + i \in Seqs /\ batch[i] \in Contents
      BY <1>1
    <2> QED  BY <1>5, <2>2, <2>3 DEF Row
  <1> HIDE DEF row
  <1>8. /\ NewRows(batch) \in Seq(Row) /\ Len(NewRows(batch)) = n
        /\ \A i \in 1 .. n : NewRows(batch)[i] = row(i)
    BY <1>6, <1>7
  <1> QED  BY <1>4, <1>7, <1>8 DEF f

-----------------------------------------------------------------------------
(* The table.                                                              *)

LEMMA AppendKeepsTable ==
    ASSUME TableInv, Append_events
    PROVE  TableInv' /\ appended \subseteq appended'
  <1>a. PICK n \in 1 .. MaxBatch : \E batch \in [1 .. n -> Contents] :
        /\ LastSeq + n <= MaxRows
        /\ rows' = rows \o NewRows(batch)
        /\ appended' = appended \cup {HashAfter(Final(batch), i) : i \in 0 .. n}
        /\ UNCHANGED <<damage, reader>>
    BY Zenon DEF Append_events
  <1>b. PICK batch \in [1 .. n -> Contents] :
        /\ LastSeq + n <= MaxRows
        /\ rows' = rows \o NewRows(batch)
        /\ appended' = appended \cup {HashAfter(Final(batch), i) : i \in 0 .. n}
        /\ UNCHANGED <<damage, reader>>
    BY <1>a, Zenon
  <1> DEFINE new == NewRows(batch)
  <1>1. n \in Nat
    BY BoundsAssumption
  <1>2. /\ new \in Seq(Row) /\ Len(new) = n
        /\ \A i \in 1 .. n : /\ new[i].seq = LastSeq + i
                             /\ new[i].hash = HashAfter(Final(batch), i)
        /\ \A i \in 0 .. n : HashAfter(Final(batch), i) \in Hash
    BY <1>1, <1>b, NewRowsAreGood
  <1> HIDE DEF new
  <1>3. rows \in Seq(Row) /\ Len(rows) \in Nat
    BY DEF TableInv, GoodRows
  <1>4. /\ rows' \in Seq(Row) /\ Len(rows') = Len(rows) + n
        /\ \A i \in 1 .. Len(rows) + n :
              rows'[i] = IF i <= Len(rows) THEN rows[i] ELSE new[i - Len(rows)]
    <2>1. rows' = rows \o new
      BY <1>b DEF new
    <2>2. /\ rows \o new \in Seq(Row) /\ Len(rows \o new) = Len(rows) + Len(new)
          /\ \A i \in 1 .. Len(rows) + Len(new) :
                (rows \o new)[i] = IF i <= Len(rows) THEN rows[i] ELSE new[i - Len(rows)]
      BY <1>2, <1>3, ConcatProperties, Zenon
    <2> QED  BY <1>2, <2>1, <2>2
  <1>5. /\ \A i \in 1 .. Len(rows) : rows'[i] = rows[i]
        /\ \A i \in Len(rows) + 1 .. Len(rows) + n :
              /\ i - Len(rows) \in 1 .. n
              /\ rows'[i] = new[i - Len(rows)]
    BY <1>1, <1>3, <1>4
  <1>6. appended \subseteq appended' /\ \A i \in 0 .. n : HashAfter(Final(batch), i) \in appended'
    BY <1>b, Zenon
  <1>7. appended' \subseteq Hash /\ GENESIS \in appended'
    BY <1>2, <1>b DEF TableInv
  <1>8. GoodRows(rows)'
    <2>1. \A i \in 1 .. Len(rows) + n : rows'[i].hash \in appended'
      <3> TAKE i \in 1 .. Len(rows) + n
      <3>1. CASE i <= Len(rows)
        <4>1. i \in 1 .. Len(rows) /\ rows'[i] = rows[i]
          BY <1>3, <1>5, <3>1
        <4>2. rows[i].hash \in appended
          BY <1>3, <4>1 DEF TableInv, GoodRows
        <4> QED  BY <1>6, <4>1, <4>2
      <3>2. CASE i > Len(rows)
        <4>1. i - Len(rows) \in 1 .. n /\ rows'[i] = new[i - Len(rows)]
          BY <1>3, <1>5, <3>2
        <4>2. new[i - Len(rows)].hash = HashAfter(Final(batch), i - Len(rows))
          BY <1>2, <4>1
        <4>3. i - Len(rows) \in 0 .. n
          BY <4>1
        <4>4. HashAfter(Final(batch), i - Len(rows)) \in appended'
          BY <1>6, <4>3
        <4> QED  BY <4>1, <4>2, <4>4
      <3> QED  BY <1>1, <1>3, <3>1, <3>2
    <2> QED  BY <1>4, <2>1 DEF GoodRows
  <1>9. Ordered(rows)'
    <2> DEFINE old(i) == i \in 1 .. Len(rows) /\ rows'[i].seq = rows[i].seq
               fresh(i) == i > Len(rows) /\ rows'[i].seq = LastSeq + (i - Len(rows))
    <2>1. \A i \in DOMAIN rows' : i \in Nat /\ (old(i) \/ fresh(i))
      <3> TAKE i \in DOMAIN rows'
      <3>1. i \in 1 .. Len(rows) + n
        BY <1>4
      <3>2. CASE i <= Len(rows)
        BY <1>3, <1>5, <3>1, <3>2
      <3>3. CASE i > Len(rows)
        <4>1. i - Len(rows) \in 1 .. n /\ rows'[i] = new[i - Len(rows)]
          BY <1>3, <1>5, <3>1, <3>3
        <4> QED  BY <1>2, <3>1, <3>3, <4>1
      <3> QED  BY <1>1, <1>3, <3>1, <3>2, <3>3
    <2>2. /\ LastSeq \in Nat /\ LastSeq >= Len(rows)
          /\ \A i \in 1 .. Len(rows) : rows[i].seq <= LastSeq
      BY <1>3, LastIsAuthentic
    <2>3. /\ \A i \in 1 .. Len(rows) : rows[i].seq >= i /\ rows[i].seq \in Nat
          /\ \A i, j \in 1 .. Len(rows) : i < j => rows[i].seq < rows[j].seq
      <3>1. \A r \in Row : r.seq \in Nat
        BY DEF Row, Seqs
      <3>2. DOMAIN rows = 1 .. Len(rows) /\ \A i \in 1 .. Len(rows) : rows[i] \in Row
        BY <1>3
      <3>3. Ordered(rows)
        BY DEF TableInv
      <3> QED  BY <3>1, <3>2, <3>3 DEF Ordered
    <2> HIDE DEF new
    <2>4. \A i \in DOMAIN rows' : rows'[i].seq >= i
      BY <1>3, <2>1, <2>2, <2>3
    <2>5. \A i, j \in DOMAIN rows' : i < j => rows'[i].seq < rows'[j].seq
      <3> TAKE i, j \in DOMAIN rows'
      <3> HAVE i < j
      <3>1. CASE old(i) /\ old(j)
        BY <2>3, <3>1
      <3>2. CASE old(i) /\ fresh(j)
        BY <1>3, <2>1, <2>2, <2>3, <3>2
      <3>3. CASE fresh(i) /\ fresh(j)
        BY <1>3, <2>1, <2>2, <3>3
      <3>4. CASE fresh(i) /\ old(j)
        BY <1>3, <2>1, <3>4
      <3> QED  BY <2>1, <3>1, <3>2, <3>3, <3>4
    <2> QED  BY <2>4, <2>5 DEF Ordered
  <1>10. damage' \in 0 .. MaxDamage
    BY <1>b DEF TableInv
  <1> QED  BY <1>6, <1>7, <1>8, <1>9, <1>10 DEF TableInv

LEMMA OneField ==
    ASSUME NEW r \in Row
    PROVE  /\ \A c \in Contents : /\ [r EXCEPT !.content = c] \in Row
                                 /\ [r EXCEPT !.content = c].seq = r.seq
                                 /\ [r EXCEPT !.content = c].hash = r.hash
           /\ \A q \in Seqs : /\ [r EXCEPT !.seq = q] \in Row
                             /\ [r EXCEPT !.seq = q].seq = q
                             /\ [r EXCEPT !.seq = q].hash = r.hash
           /\ r.seq \in Seqs
  BY DEF Row

\* Rows may change in any way that keeps the numbers where they are and
\* computes no hash.
LEMMA NumbersStay ==
    ASSUME TableInv, UNCHANGED appended, damage' \in 0 .. MaxDamage,
           rows' \in Seq(Row), Len(rows') = Len(rows),
           \A i \in 1 .. Len(rows) : /\ rows'[i].seq = rows[i].seq
                                    /\ rows'[i].hash \in appended
    PROVE  TableInv'
  <1>1. DOMAIN rows' = 1 .. Len(rows) /\ DOMAIN rows = 1 .. Len(rows)
    BY DEF TableInv, GoodRows
  <1>2. Ordered(rows)'
    BY <1>1 DEF TableInv, Ordered
  <1>3. GoodRows(rows)'
    BY <1>1 DEF GoodRows
  <1> QED  BY <1>2, <1>3 DEF TableInv

LEMMA DamageKeepsTable ==
    ASSUME TableInv, Damaged
    PROVE  TableInv' /\ UNCHANGED <<appended, reader>>
  <1>1. /\ damage' \in 0 .. MaxDamage /\ UNCHANGED <<appended, reader>>
    BY BoundsAssumption DEF TableInv, Damaged
  <1>2. /\ rows \in Seq(Row) /\ Len(rows) \in Nat /\ DOMAIN rows = 1 .. Len(rows)
        /\ \A i \in 1 .. Len(rows) : rows[i] \in Row /\ rows[i].hash \in appended
    BY DEF TableInv, GoodRows
  <1>3. ASSUME NEW i \in DOMAIN rows, Lose(i)
        PROVE  TableInv'
    <2>1. /\ rows' \in Seq(Row) /\ Len(rows') = Len(rows) - 1
          /\ \A j \in 1 .. Len(rows) - 1 :
                rows'[j] = IF j < i THEN rows[j] ELSE rows[j + 1]
      BY <1>2, <1>3, WithoutOne DEF Lose
    <2>2. DOMAIN rows' = 1 .. Len(rows) - 1
      BY <1>2, <2>1
    <2> DEFINE was(j) == IF j < i THEN j ELSE j + 1
    <2>3. \A j \in 1 .. Len(rows) - 1 : /\ was(j) \in 1 .. Len(rows) /\ was(j) >= j
                                        /\ rows'[j] = rows[was(j)]
      BY <1>2, <2>1
    <2>4. \A j, k \in 1 .. Len(rows) - 1 : j < k => was(j) < was(k)
      BY <1>2
    <2> HIDE DEF was
    <2>5. GoodRows(rows)'
      BY <1>1, <1>2, <2>1, <2>2, <2>3 DEF GoodRows
    <2>6. \A j \in 1 .. Len(rows) : rows[j].seq \in Nat
      BY <1>2, OneField DEF Seqs
    <2>7. Ordered(rows)
      BY DEF TableInv
    <2>8. \A j \in 1 .. Len(rows) - 1 : rows'[j].seq >= j
      <3> TAKE j \in 1 .. Len(rows) - 1
      <3>1. rows[was(j)].seq >= was(j) /\ was(j) >= j /\ was(j) \in Nat /\ j \in Nat
            /\ rows'[j] = rows[was(j)] /\ rows[was(j)].seq \in Nat
        BY <1>2, <2>3, <2>6, <2>7 DEF Ordered
      <3> QED  BY <3>1
    <2>9. \A j, k \in 1 .. Len(rows) - 1 : j < k => rows'[j].seq < rows'[k].seq
      BY <1>2, <2>3, <2>4, <2>7 DEF Ordered
    <2>10. Ordered(rows)'
      BY <2>2, <2>8, <2>9 DEF Ordered
    <2> QED  BY <1>1, <2>5, <2>10 DEF TableInv
  <1>4. ASSUME NEW i \in DOMAIN rows, Alter(i)
        PROVE  TableInv'
    <2>1. PICK c \in Contents : rows' = [rows EXCEPT ![i].content = c]
      BY <1>4 DEF Alter
    <2> DEFINE new == [rows[i] EXCEPT !.content = c]
    <2>2. rows' = [rows EXCEPT ![i] = new]
      BY <2>1
    <2>3. new \in Row /\ new.seq = rows[i].seq /\ new.hash = rows[i].hash
      BY <1>2, OneField
    <2> HIDE DEF new
    <2>4. /\ rows' \in Seq(Row) /\ Len(rows') = Len(rows)
          /\ \A j \in 1 .. Len(rows) : rows'[j] = IF j = i THEN new ELSE rows[j]
      BY <1>2, <2>2, <2>3
    <2>5. \A j \in 1 .. Len(rows) : /\ rows'[j].seq = rows[j].seq
                                    /\ rows'[j].hash \in appended
      BY <1>2, <2>3, <2>4
    <2> QED  BY <1>1, <2>4, <2>5, NumbersStay
  <1>5. ASSUME NEW i \in DOMAIN rows, NEW j \in DOMAIN rows, Exchange(i, j)
        PROVE  TableInv'
    <2> DEFINE a == [rows[j] EXCEPT !.seq = rows[i].seq]
               b == [rows[i] EXCEPT !.seq = rows[j].seq]
    <2>1. rows' = [rows EXCEPT ![i] = a, ![j] = b]
      BY <1>5 DEF Exchange
    <2>2. /\ a \in Row /\ a.seq = rows[i].seq /\ a.hash = rows[j].hash
          /\ b \in Row /\ b.seq = rows[j].seq /\ b.hash = rows[i].hash
      BY <1>2, OneField
    <2> HIDE DEF a, b
    <2>3. /\ rows' \in Seq(Row) /\ Len(rows') = Len(rows)
          /\ \A k \in 1 .. Len(rows) :
                rows'[k] = IF k = j THEN b ELSE IF k = i THEN a ELSE rows[k]
      BY <1>2, <2>1, <2>2
    <2>4. \A k \in 1 .. Len(rows) : /\ rows'[k].seq = rows[k].seq
                                    /\ rows'[k].hash \in appended
      BY <1>2, <2>2, <2>3
    <2> QED  BY <1>1, <2>3, <2>4, NumbersStay
  <1>6. ASSUME Renumber
        PROVE  TableInv'
    <2> DEFINE new(i) == [rows[i] EXCEPT !.seq = i]
    <2>1. \A i \in 1 .. Len(rows) : i \in Seqs
      <3> TAKE i \in 1 .. Len(rows)
      <3>1. rows[i].seq >= i /\ rows[i].seq \in Seqs
        BY <1>2, OneField DEF TableInv, Ordered
      <3> QED  BY <1>2, <3>1, BoundsAssumption DEF Seqs
    <2>2. \A i \in 1 .. Len(rows) : /\ new(i) \in Row /\ new(i).seq = i
                                    /\ new(i).hash = rows[i].hash
      BY <1>2, <2>1, OneField
    <2>3. rows' = [i \in 1 .. Len(rows) |-> new(i)]
      BY <1>2, <1>6 DEF Renumber
    <2> HIDE DEF new
    <2>4. /\ rows' \in Seq(Row) /\ DOMAIN rows' = 1 .. Len(rows)
          /\ \A i \in 1 .. Len(rows) : rows'[i] = new(i)
      BY <1>2, <2>2, <2>3
    <2>5. GoodRows(rows)'
      BY <1>1, <1>2, <2>2, <2>4 DEF GoodRows
    <2>6. Ordered(rows)'
      BY <1>2, <2>2, <2>4 DEF Ordered
    <2> QED  BY <1>1, <2>5, <2>6 DEF TableInv
  <1> QED  BY <1>1, <1>3, <1>4, <1>5, <1>6 DEF Damaged

-----------------------------------------------------------------------------
(* The reader.                                                             *)

\* More appended trails do not disturb a reader that does not move.
LEMMA ReaderStays ==
    ASSUME Inv, UNCHANGED reader, appended \subseteq appended'
    PROVE  (ReaderInv /\ ReportInv /\ reader \in ReaderRec)'
  <1>1. GoodRows(reader.rows)'
    BY DEF Inv, ReaderInv, GoodRows
  <1> QED  BY <1>1 DEF Inv, ReaderInv, ReportInv, Events

LEMMA NoEvents == ASSUME NEW s \in Seq(Row) PROVE Events(SubSeq(s, 1, 0)) = <<>>
  <1>1. SubSeq(s, 1, 0) = <<>>
    OBVIOUS
  <1> QED  BY <1>1 DEF Events

\* Every reader starts, and starts again, with nothing checked.
LEMMA FreshReader ==
    ASSUME TableInv, NEW s \in Seq(Row), NEW b \in BOOLEAN,
           \A i \in DOMAIN s : s[i].hash \in appended,
           reader' = [rows |-> s, at |-> 1, prev |-> GENESIS, report |-> Running, on |-> b],
           UNCHANGED appended
    PROVE  (ReaderInv /\ ReportInv /\ reader \in ReaderRec)'
  <1>1. /\ reader'.rows = s /\ reader'.at = 1 /\ reader'.prev = GENESIS
        /\ reader'.report = Running /\ reader'.on = b
    OBVIOUS
  <1>2. Running \in Report /\ Running.ok = FALSE /\ Running.bad = 0
    BY DEF Running, Report
  <1>3. GENESIS \in appended' /\ GENESIS \in Hash
    BY DEF TableInv
  <1>4. Len(s) \in Nat
    OBVIOUS
  <1>5. Events(SubSeq(s, 1, 1 - 1)) = GENESIS
    BY NoEvents DEF GENESIS
  <1>6. ReaderInv'
    BY <1>1, <1>3, <1>4, <1>5 DEF ReaderInv, GoodRows, Events
  <1>7. ReportInv'
    BY <1>1, <1>2 DEF ReportInv
  <1>8. reader' \in ReaderRec
    BY <1>2, <1>3 DEF ReaderRec
  <1> QED  BY <1>6, <1>7, <1>8

\* A row without fault takes the loop from one appended trail to the next.
LEMMA CheckStep ==
    ASSUME Inv, Check_row
    PROVE  (ReaderInv /\ ReportInv /\ reader \in ReaderRec)'
  <1> DEFINE k == reader.at
             row == reader.rows[reader.at]
             why == Wrong(row, reader.at, reader.prev)
  <1>1. /\ reader.report = Running /\ k \in DOMAIN reader.rows /\ k \in 1 .. Len(reader.rows)
        /\ reader.rows \in Seq(Row) /\ row \in Row /\ row.hash \in appended
        /\ UNCHANGED <<rows, appended, damage>>
    <2>1. reader.rows \in Seq(Row) /\ k \in Nat \ {0} /\ reader \in ReaderRec
      BY DEF Inv, ReaderRec
    <2>2. reader.report = Running /\ k <= Len(reader.rows) /\ UNCHANGED <<rows, appended, damage>>
      BY DEF Check_row
    <2>3. k \in 1 .. Len(reader.rows) /\ k \in DOMAIN reader.rows
      BY <2>1, <2>2
    <2> QED  BY <2>1, <2>2, <2>3 DEF Inv, ReaderInv, GoodRows
  <1>2. reader' = IF why = "" THEN [reader EXCEPT !.at = @ + 1, !.prev = row.hash]
                  ELSE [reader EXCEPT !.report = [ok |-> FALSE, bad |-> k, reason |-> why]]
    BY Zenon DEF Check_row, Passed
  <1>3. why \in {"", "gap", "link", "content"}
    BY DEF Wrong
  <1>4. CASE why = ""
    <2>1. Event_hash(reader.prev, Row_to_event(row)) = row.hash
      BY <1>4 DEF Wrong
    <2>2. row.hash = Events(SubSeq(reader.rows, 1, k))
      BY <1>1, <2>1, EventsAppend DEF Event_hash, Inv, ReaderInv
    <2>3. /\ reader'.rows = reader.rows /\ reader'.at = k + 1 /\ reader'.prev = row.hash
          /\ reader'.report = reader.report /\ reader'.on = reader.on
      BY <1>2, <1>4 DEF Inv, ReaderRec
    <2>4. (k + 1) - 1 = k /\ k + 1 \in 1 .. Len(reader.rows) + 1
      BY <1>1
    <2>5. ReaderInv'
      BY <1>1, <2>2, <2>3, <2>4 DEF Inv, ReaderInv, GoodRows, Events
    <2>6. Running.ok = FALSE /\ Running.bad = 0 /\ Running \in Report
      BY DEF Running, Report
    <2>7. ReportInv'
      BY <1>1, <2>3, <2>6 DEF ReportInv
    <2>8. row.hash \in Hash
      BY <1>1 DEF Row
    <2>9. reader' \in ReaderRec
      <3> DEFINE h == row.hash
                 n == k + 1
      <3>1. reader' = [reader EXCEPT !.at = n, !.prev = h]
        BY <1>2, <1>4
      <3>2. n \in Nat \ {0} /\ h \in Hash
        BY <1>1, <2>8
      <3> HIDE DEF h, n
      <3> QED  BY <3>1, <3>2 DEF Inv, ReaderRec
    <2> QED  BY <2>5, <2>7, <2>9
  <1>5. CASE why # ""
    <2> DEFINE rep == [ok |-> FALSE, bad |-> k, reason |-> why]
    <2>1. rep \in Report /\ rep.ok = FALSE /\ rep.bad = k
      <3> HIDE DEF why
      <3>1. k \in Nat
        BY <1>1
      <3> QED  BY <1>3, <1>5, <3>1 DEF Report
    <2> HIDE DEF why, rep
    <2>2. reader' = [reader EXCEPT !.report = rep]
      BY <1>2, <1>5 DEF rep
    <2>3. /\ reader'.rows = reader.rows /\ reader'.at = reader.at /\ reader'.prev = reader.prev
          /\ reader'.report = rep /\ reader'.on = reader.on
          /\ reader' \in ReaderRec
      BY <2>1, <2>2 DEF Inv, ReaderRec
    <2>4. ReaderInv'
      BY <1>1, <2>3 DEF Inv, ReaderInv, GoodRows, Events
    <2>5. ReportInv'
      BY <1>1, <2>1, <2>3 DEF ReportInv
    <2> QED  BY <2>3, <2>4, <2>5
  <1> QED  BY <1>4, <1>5

LEMMA CheckedStep ==
    ASSUME Inv, All_checked
    PROVE  (ReaderInv /\ ReportInv /\ reader \in ReaderRec)'
  <1> DEFINE rep == [ok |-> TRUE, bad |-> 0, reason |-> ""]
  <1>1. rep \in Report /\ rep.ok /\ rep.bad = 0
    BY DEF Report
  <1> HIDE DEF rep
  <1>2. /\ reader' = [reader EXCEPT !.report = rep] /\ UNCHANGED appended
        /\ reader.at > Len(reader.rows)
    BY DEF All_checked, rep
  <1>3. /\ reader'.rows = reader.rows /\ reader'.at = reader.at /\ reader'.prev = reader.prev
        /\ reader'.report = rep /\ reader'.on = reader.on /\ reader' \in ReaderRec
    BY <1>1, <1>2 DEF Inv, ReaderRec
  <1>4. ReaderInv'
    <2>1. ReaderInv /\ appended' = appended
      BY <1>2 DEF Inv
    <2>2. GoodRows(reader.rows)'
      BY <1>3, <2>1 DEF ReaderInv, GoodRows
    <2> QED  BY <1>3, <2>1, <2>2 DEF ReaderInv
  <1>5. reader.at = Len(reader.rows) + 1
    BY <1>2 DEF Inv, ReaderInv, GoodRows
  <1>6. ReportInv'
    BY <1>1, <1>3, <1>5 DEF ReportInv
  <1> QED  BY <1>3, <1>4, <1>6

-----------------------------------------------------------------------------
(* The invariant and what it gives.                                        *)

LEMMA InitInv == Init => Inv
  <1> SUFFICES ASSUME Init PROVE Inv
    OBVIOUS
  <1>1. TableInv
    BY BoundsAssumption DEF Init, TableInv, GoodRows, Ordered, Hash, GENESIS
  <1>2. Running \in Report /\ Running.ok = FALSE /\ Running.bad = 0
    BY DEF Running, Report
  <1>3. /\ reader.rows = <<>> /\ reader.at = 1 /\ reader.prev = <<>>
        /\ reader.report = Running /\ reader.on = FALSE
        /\ appended = {<<>>}
    BY DEF Init, Idle, GENESIS
  <1>4. Events(SubSeq(reader.rows, 1, reader.at - 1)) = <<>>
    <2>1. <<>> \in Seq(Row) /\ 1 - 1 = 0
      OBVIOUS
    <2> QED  BY <1>3, <2>1, NoEvents
  <1>5. ReaderInv
    <2>1. GoodRows(reader.rows)
      BY <1>3 DEF GoodRows
    <2>2. reader.at \in 1 .. Len(reader.rows) + 1
      BY <1>3
    <2> QED  BY <1>3, <1>4, <2>1, <2>2 DEF ReaderInv
  <1>6. ReportInv
    BY <1>2, <1>3 DEF ReportInv
  <1>7. reader \in ReaderRec
    BY <1>2 DEF Init, Idle, ReaderRec, Hash, GENESIS
  <1> QED  BY <1>1, <1>5, <1>6, <1>7 DEF Inv

LEMMA NextInv == Inv /\ [Next]_vars => Inv'
  <1> SUFFICES ASSUME Inv, [Next]_vars PROVE Inv'
    OBVIOUS
  <1>1. CASE Append_events
    BY <1>1, AppendKeepsTable, ReaderStays DEF Inv, Append_events
  <1>2. CASE Damaged
    BY <1>2, DamageKeepsTable, ReaderStays DEF Inv
  <1>3. ASSUME UNCHANGED <<rows, appended, damage>>
        PROVE  TableInv'
    BY <1>3 DEF Inv, TableInv, GoodRows, Ordered
  <1>4. CASE Load_rows
    <2>1. /\ reader' = [rows |-> rows, at |-> 1, prev |-> GENESIS, report |-> Running, on |-> TRUE]
          /\ UNCHANGED <<rows, appended, damage>>
      BY <1>4 DEF Load_rows, Idle
    <2> QED  BY <1>3, <2>1, FreshReader DEF Inv, TableInv, GoodRows
  <1>5. CASE Check_row
    BY <1>3, <1>5, CheckStep DEF Inv, Check_row
  <1>6. CASE All_checked
    BY <1>3, <1>6, CheckedStep DEF Inv, All_checked
  <1>7. CASE Respond
    <2>1. /\ reader' = [rows |-> <<>>, at |-> 1, prev |-> GENESIS, report |-> Running, on |-> FALSE]
          /\ UNCHANGED <<rows, appended, damage>>
      BY <1>7 DEF Respond, Idle
    <2>2. <<>> \in Seq(Row) /\ DOMAIN <<>> = {}
      OBVIOUS
    <2> QED  BY <1>3, <2>1, <2>2, FreshReader DEF Inv
  <1>8. CASE UNCHANGED vars
    BY <1>3, <1>8, ReaderStays DEF Inv, vars
  <1> QED  BY <1>1, <1>2, <1>4, <1>5, <1>6, <1>7, <1>8 DEF Next, Verify

\* The invariant of the table and of the verification loop: every stored hash
\* was computed by append_events, and the loop carries what it has passed.
THEOREM ChainInvariant == Spec => []Inv
  BY InitInv, NextInv, PTL DEF Spec

\* Rows, ghost and reader keep their types and the numbers their order,
\* whatever append_events and damage do to the table.
THEOREM ChainTypes == Spec => []TypeOK
  <1>1. Inv => TypeOK
    BY DEF Inv, TableInv, GoodRows, Ordered, ReaderRec, TypeOK
  <1> QED  BY <1>1, ChainInvariant, PTL

\* A trail that verify_chain accepts is one that append_events has left.
THEOREM AcceptedTrailsAreAuthentic == Spec => []VerifiedIsAuthentic
  <1>1. Inv => VerifiedIsAuthentic
    <2> SUFFICES ASSUME Inv, reader.report.ok
                 PROVE  Events(reader.rows) \in appended
      BY DEF VerifiedIsAuthentic
    <2>1. reader.at = Len(reader.rows) + 1 /\ reader.rows \in Seq(Row)
      BY DEF Inv, ReportInv, ReaderInv, GoodRows
    <2>2. SubSeq(reader.rows, 1, reader.at - 1) = reader.rows
      <3>1. reader.at - 1 = Len(reader.rows)
        BY <2>1
      <3> QED  BY <2>1, <3>1, SubSeqFull
    <2> QED  BY <2>2 DEF Inv, ReaderInv
  <1> QED  BY <1>1, ChainInvariant, PTL

\* Everything before the event that verify_chain reports can be relied on.
THEOREM EventsBeforeAreAuthentic == Spec => []EventsBeforeTheBadOneAreAuthentic
  <1>1. Inv => EventsBeforeTheBadOneAreAuthentic
    BY DEF Inv, ReaderInv, ReportInv, EventsBeforeTheBadOneAreAuthentic
  <1> QED  BY <1>1, ChainInvariant, PTL

-----------------------------------------------------------------------------
(* No false alarm.  Rows that nothing has damaged are numbered from one,   *)
(* and each continues the hash of the row before it; so do the rows of a   *)
(* reader that loaded them.  The loop compares exactly this.               *)

HashBefore(s, i) == IF i = 1 THEN GENESIS ELSE s[i - 1].hash

Linked(s) ==
    \A i \in DOMAIN s : /\ s[i].seq = i
                        /\ s[i].prev_hash = HashBefore(s, i)
                        /\ s[i].hash = Event_hash(s[i].prev_hash, Row_to_event(s[i]))

AlarmInv == /\ reader.prev = HashBefore(reader.rows, reader.at)
            /\ damage = 0 => /\ Linked(rows) /\ Linked(reader.rows)
                             /\ reader.report.bad = 0

\* The hash that a new row continues is that of the row before it.
LEMMA NewRowsAreLinked ==
    ASSUME TableInv, Linked(rows), NEW n \in Nat, NEW batch \in [1 .. n -> Contents],
           LastSeq + n <= MaxRows
    PROVE  Linked(rows \o NewRows(batch))
  <1> DEFINE new == NewRows(batch)
             f == Final(batch)
             all == rows \o new
  <1>1. /\ new \in Seq(Row) /\ Len(new) = n
        /\ \A i \in 1 .. n : new[i].seq = LastSeq + i /\ new[i].hash = HashAfter(f, i)
    BY NewRowsAreGood
  <1>2. \A i \in 1 .. n : /\ new[i].prev_hash = HashAfter(f, i - 1)
                          /\ new[i].content = batch[i]
                          /\ new[i].hash = Event_hash(HashAfter(f, i - 1), f[i])
    BY DEF NewRows
  <1>3. \A i \in 1 .. n : f[i] = [seq |-> LastSeq + i, content |-> batch[i]]
    BY DEF Final
  <1>4. \A i \in 1 .. n : new[i].hash = Event_hash(new[i].prev_hash, Row_to_event(new[i]))
    BY <1>1, <1>2, <1>3 DEF Row_to_event
  <1>5. HashAfter(f, 0) = LastHash
    <2>1. f \in Seq(Event)
      BY LastIsAuthentic, BoundsAssumption DEF Final, Event, Seqs
    <2>2. SubSeq(f, 1, 0) = <<>>
      BY <2>1
    <2>3. LastHash \o <<>> = LastHash
      BY LastIsAuthentic, ConcatEmptySeq
    <2> QED  BY <2>2, <2>3 DEF HashAfter
  <1>6. rows \in Seq(Row) /\ Len(rows) \in Nat
    BY DEF TableInv, GoodRows
  <1>7. LastSeq = Len(rows) /\ LastHash = IF rows = <<>> THEN GENESIS ELSE rows[Len(rows)].hash
    <2>1. rows = <<>> => Len(rows) = 0
      OBVIOUS
    <2>2. rows # <<>> => Len(rows) \in DOMAIN rows
      BY <1>6
    <2> QED  BY <2>1, <2>2 DEF LastSeq, LastHash, Linked
  <1> HIDE DEF new, f
  <1>8. /\ all \in Seq(Row) /\ Len(all) = Len(rows) + n
        /\ \A i \in 1 .. Len(rows) + n :
              all[i] = IF i <= Len(rows) THEN rows[i] ELSE new[i - Len(rows)]
    <2>1. /\ rows \o new \in Seq(Row) /\ Len(rows \o new) = Len(rows) + Len(new)
          /\ \A i \in 1 .. Len(rows) + Len(new) :
                (rows \o new)[i] = IF i <= Len(rows) THEN rows[i] ELSE new[i - Len(rows)]
      BY <1>1, <1>6, ConcatProperties, Zenon
    <2> QED  BY <1>1, <2>1
  <1> HIDE DEF all
  <1>9. ASSUME NEW i \in DOMAIN all
        PROVE  /\ all[i].seq = i /\ all[i].prev_hash = HashBefore(all, i)
               /\ all[i].hash = Event_hash(all[i].prev_hash, Row_to_event(all[i]))
    <2>1. i \in 1 .. Len(rows) + n
      BY <1>8
    <2>2. CASE i <= Len(rows)
      <3>1. i \in DOMAIN rows /\ all[i] = rows[i]
        BY <1>6, <1>8, <2>1, <2>2
      <3>2. i # 1 => all[i - 1] = rows[i - 1]
        BY <1>6, <1>8, <2>1, <2>2
      <3> QED  BY <3>1, <3>2 DEF Linked, HashBefore
    <2>3. CASE i > Len(rows)
      <3> DEFINE k == i - Len(rows)
      <3>1. k \in 1 .. n /\ all[i] = new[k] /\ Len(rows) + k = i
        BY <1>6, <1>8, <2>1, <2>3
      <3>2. all[i].seq = i
        BY <1>1, <1>7, <3>1
      <3>3. CASE k = 1
        <4>1. all[i].prev_hash = LastHash
          <5>1. new[1].prev_hash = HashAfter(f, 1 - 1) /\ 1 - 1 = 0
            BY <1>2, <3>1, <3>3
          <5> QED  BY <1>5, <3>1, <3>3, <5>1
        <4>2. CASE rows = <<>>
          <5>1. i = 1
            BY <3>1, <3>3, <4>2
          <5> QED  BY <1>4, <1>7, <3>1, <3>2, <4>1, <4>2, <5>1 DEF HashBefore
        <4>3. CASE rows # <<>>
          <5>0. Len(rows) >= 1
            BY <1>6, <4>3
          <5>1. i # 1 /\ i - 1 = Len(rows) /\ i - 1 \in 1 .. Len(rows) + n
            BY <1>6, <2>1, <3>1, <3>3, <5>0
          <5>2. all[i - 1] = rows[Len(rows)]
            BY <1>6, <1>8, <5>1
          <5> QED  BY <1>4, <1>7, <3>1, <3>2, <4>1, <4>3, <5>1, <5>2 DEF HashBefore
        <4> QED  BY <4>2, <4>3
      <3>4. CASE k # 1
        <4>1. k - 1 \in 1 .. n /\ i - 1 \in 1 .. Len(rows) + n /\ i # 1
              /\ ~(i - 1 <= Len(rows)) /\ (i - 1) - Len(rows) = k - 1
          BY <1>6, <2>1, <3>1, <3>4
        <4>2. all[i - 1] = new[k - 1]
          BY <1>8, <4>1
        <4>3. new[k - 1].hash = HashAfter(f, k - 1) /\ new[k].prev_hash = HashAfter(f, k - 1)
          BY <1>1, <1>2, <3>1, <4>1
        <4> QED  BY <1>4, <3>1, <3>2, <4>1, <4>2, <4>3 DEF HashBefore
      <3> QED  BY <3>3, <3>4
    <2> QED  BY <1>6, <2>1, <2>2, <2>3
  <1> QED  BY <1>9 DEF Linked, all, new

\* Nothing is wrong with the next row of rows that are linked.
LEMMA LinkedRowsPass ==
    ASSUME Inv, AlarmInv, damage = 0, reader.at <= Len(reader.rows)
    PROVE  Wrong(reader.rows[reader.at], reader.at, reader.prev) = ""
  <1>1. reader.at \in DOMAIN reader.rows
    BY DEF Inv, ReaderInv, GoodRows
  <1> QED  BY <1>1 DEF AlarmInv, Linked, Wrong

LEMMA NextAlarm == Inv /\ AlarmInv /\ [Next]_vars => AlarmInv'
  <1> SUFFICES ASSUME Inv, AlarmInv, [Next]_vars PROVE AlarmInv'
    OBVIOUS
  <1>0. /\ reader.rows \in Seq(Row) /\ reader.at \in 1 .. Len(reader.rows) + 1
        /\ reader \in ReaderRec /\ damage \in Nat /\ TableInv
    BY DEF Inv, ReaderInv, GoodRows, TableInv
  <1>1. CASE Append_events
    <2>a. PICK n \in 1 .. MaxBatch : \E batch \in [1 .. n -> Contents] :
          LastSeq + n <= MaxRows /\ rows' = rows \o NewRows(batch) /\ UNCHANGED <<damage, reader>>
      BY <1>1, Zenon DEF Append_events
    <2>b. PICK batch \in [1 .. n -> Contents] :
          LastSeq + n <= MaxRows /\ rows' = rows \o NewRows(batch) /\ UNCHANGED <<damage, reader>>
      BY <2>a, Zenon
    <2>1. n \in Nat
      BY BoundsAssumption
    <2>2. damage = 0 => Linked(rows)'
      <3> SUFFICES ASSUME damage = 0 PROVE Linked(rows)'
        OBVIOUS
      <3>1. Linked(rows \o NewRows(batch))
        BY <1>0, <2>1, <2>b, NewRowsAreLinked DEF AlarmInv
      <3> QED  BY <2>b, <3>1 DEF Linked, HashBefore
    <2> QED  BY <2>2, <2>b DEF AlarmInv, Linked, HashBefore
  <1>2. CASE Damaged
    <2>1. damage' # 0 /\ reader' = reader
      BY <1>0, <1>2 DEF Damaged
    <2> QED  BY <2>1 DEF AlarmInv, HashBefore
  <1>3. CASE Load_rows
    <2>1. /\ reader'.rows = rows /\ reader'.at = 1 /\ reader'.prev = GENESIS
          /\ reader'.report = Running /\ rows' = rows /\ damage' = damage
      BY <1>3 DEF Load_rows, Idle
    <2>2. Running.bad = 0
      BY DEF Running
    <2> QED  BY <2>1, <2>2 DEF AlarmInv, Linked, HashBefore
  <1>4. CASE Check_row
    <2> DEFINE row == reader.rows[reader.at]
               why == Wrong(row, reader.at, reader.prev)
    <2>1. /\ reader.at <= Len(reader.rows) /\ reader.report = Running
          /\ rows' = rows /\ damage' = damage
          /\ reader' = IF why = "" THEN [reader EXCEPT !.at = @ + 1, !.prev = row.hash]
                       ELSE [reader EXCEPT !.report = [ok |-> FALSE, bad |-> reader.at, reason |-> why]]
      BY <1>4, Zenon DEF Check_row, Passed
    <2>2. damage = 0 => why = ""
      BY <2>1, LinkedRowsPass
    <2>3. CASE why = ""
      <3>1. /\ reader'.rows = reader.rows /\ reader'.at = reader.at + 1
            /\ reader'.prev = row.hash /\ reader'.report = reader.report
        BY <1>0, <2>1, <2>3 DEF ReaderRec
      <3>2. (reader.at + 1) - 1 = reader.at /\ reader.at + 1 # 1
        BY <1>0
      <3>3. (reader.prev = HashBefore(reader.rows, reader.at))'
        BY <3>1, <3>2 DEF HashBefore
      <3>4. Linked(reader.rows)' <=> Linked(reader.rows)
        BY <3>1 DEF Linked, HashBefore
      <3>5. Linked(rows)' <=> Linked(rows)
        BY <2>1 DEF Linked, HashBefore
      <3> QED  BY <2>1, <3>1, <3>3, <3>4, <3>5 DEF AlarmInv
    <2>4. CASE why # ""
      <3>1. reader'.rows = reader.rows /\ reader'.at = reader.at /\ reader'.prev = reader.prev
        BY <1>0, <2>1, <2>4 DEF ReaderRec
      <3> QED  BY <2>1, <2>2, <2>4, <3>1 DEF AlarmInv, HashBefore
    <2> QED  BY <2>3, <2>4
  <1>5. CASE All_checked
    <2>1. /\ reader'.rows = reader.rows /\ reader'.at = reader.at /\ reader'.prev = reader.prev
          /\ reader'.report.bad = 0 /\ rows' = rows /\ damage' = damage
      BY <1>0, <1>5 DEF All_checked, ReaderRec
    <2> QED  BY <2>1 DEF AlarmInv, Linked, HashBefore
  <1>6. CASE Respond
    <2>1. /\ reader'.rows = <<>> /\ reader'.at = 1 /\ reader'.prev = GENESIS
          /\ reader'.report = Running /\ rows' = rows /\ damage' = damage
      BY <1>6 DEF Respond, Idle
    <2>2. Running.bad = 0 /\ Linked(<<>>)
      BY DEF Running, Linked
    <2> QED  BY <2>1, <2>2 DEF AlarmInv, Linked, HashBefore
  <1>7. CASE UNCHANGED vars
    BY <1>7 DEF vars, AlarmInv, Linked, HashBefore
  <1> QED  BY <1>1, <1>2, <1>3, <1>4, <1>5, <1>6, <1>7 DEF Next, Verify

\* Undamaged rows are never reported, in however many batches they were
\* appended and however appends fall between a load and its checks.
THEOREM NoAlarmIsFalse == Spec => []NoFalseAlarm
  <1>1. Init => AlarmInv
    BY DEF Init, Idle, Running, AlarmInv, Linked, HashBefore
  <1>2. Inv /\ AlarmInv => NoFalseAlarm
    BY DEF Inv, TableInv, AlarmInv, NoFalseAlarm
  <1> QED  BY <1>1, <1>2, NextAlarm, ChainInvariant, PTL DEF Spec
=============================================================================
