------------------------- MODULE DataPipelineProofs -------------------------
(***************************************************************************)
(* What module DataPipeline promises, for tables of any size and content:  *)
(* the store is consistent, no row is lost or counted twice, and a case    *)
(* looks at its customer's past.                                           *)
(***************************************************************************)
EXTENDS DataPipeline, FiniteSetTheorems, TLAPS

(***************************************************************************)
(* Both loops go through the tables once, and what they have made of a     *)
(* table is a function of how far they are: TableOK relates the rows read  *)
(* (m of them) to the rows accepted, the duplicates and the quarantine,    *)
(* and the accepted rows consolidated (c of them) to the store and the     *)
(* quarantine again.  The rows a reference may be to are those of a table  *)
(* that is complete by then.                                               *)
(***************************************************************************)

-----------------------------------------------------------------------------
(* What reading makes of row i of a table.                                 *)

IsFirst(rows, i, j) ==
    /\ j \in 1 .. i
    /\ Clean(rows[j]).key = Clean(rows[i]).key
    /\ \A k \in 1 .. j - 1 : Clean(rows[k]).key # Clean(rows[i]).key
FirstIn(rows, i) == CHOOSE j \in 1 .. i :
                        /\ Clean(rows[j]).key = Clean(rows[i]).key
                        /\ \A k \in 1 .. j - 1 : Clean(rows[k]).key # Clean(rows[i]).key

ReadReasons == {"missing_primary_key", "duplicate_key_conflict", "schema_validation_failed"}
Reasons     == ReadReasons \cup {"orphan_reference", "normalization_failed"}

ReadFate(t, rows, i) ==
    LET r == Clean(rows[i])
    IN  IF r.key = None THEN "missing_primary_key"
        ELSE IF FirstIn(rows, i) # i
             THEN IF Clean(rows[FirstIn(rows, i)]) = r THEN "duplicate" ELSE "duplicate_key_conflict"
        ELSE IF ~Valid(t, r) THEN "schema_validation_failed"
        ELSE "accepted"

OfFate(t, rows, m, fate) == {i \in 1 .. m : ReadFate(t, rows, i) = fate}
RowsOf(t, rows, m, fate) == {Clean(rows[i]) : i \in OfFate(t, rows, m, fate)}

(* What consolidation makes of an accepted row.                            *)
Judged(t, r, parent) ==
    IF ~(t # "customers" => r.ref \in Keys(parent)) THEN "orphan_reference"
    ELSE IF ~Usable(t, r) THEN "normalization_failed"
    ELSE "stored"
JudgedOf(t, acc, c, parent, fate) ==
    {acc[k] : k \in {k \in 1 .. c : Judged(t, acc[k], parent) = fate}}

(* What the quarantine q says of a table.                                  *)
RefusedOf(q, t, reason) == {e.record : e \in {e \in Elements(q) : e.table = t /\ e.reason = reason}}
RefusedIn(q, t) == {j \in DOMAIN q : q[j].table = t}

Cleared(rows)  == {Clean(rows[i]) : i \in 1 .. Len(rows)}
KeysApart(rows) == \A i, j \in DOMAIN rows : rows[i].key = rows[j].key => i = j
IsEntry(e)     == e.table \in Table /\ e.number \in Nat /\ e.reason \in Reasons

TableOK(t, rows, m, acc, dup, q, st, c, parent) ==
    /\ m \in 0 .. Len(rows) /\ c \in 0 .. Len(acc)
    /\ acc \in Seq(Cleared(rows)) /\ KeysApart(acc)
    /\ st \in Seq(Cleared(rows)) /\ KeysApart(st)
    /\ Elements(acc) = RowsOf(t, rows, m, "accepted")
    /\ dup = Cardinality(OfFate(t, rows, m, "duplicate"))
    /\ \A reason \in ReadReasons : RefusedOf(q, t, reason) = RowsOf(t, rows, m, reason)
    /\ Elements(st) = JudgedOf(t, acc, c, parent, "stored")
    /\ \A reason \in Reasons \ ReadReasons :
          RefusedOf(q, t, reason) = JudgedOf(t, acc, c, parent, reason)
    /\ m = dup + Cardinality(RefusedIn(q, t)) + Len(st) + (Len(acc) - c)

\* The entries of a sequence, whatever they are.
IsSeq(q) == q \in Seq(Elements(q))

-----------------------------------------------------------------------------
(* The first row of a key.                                                 *)

LEMMA FirstIsUnique ==
    ASSUME NEW rows, NEW i \in Nat, NEW j, NEW k, IsFirst(rows, i, j), IsFirst(rows, i, k)
    PROVE  j = k
<1>1. j \in Int /\ k \in Int /\ 1 <= j /\ 1 <= k
  BY DEF IsFirst
<1>2. ~(j < k)
  <2> SUFFICES ASSUME j < k PROVE FALSE
    OBVIOUS
  <2>1. j \in 1 .. k - 1
    BY <1>1
  <2>2. QED
    BY <2>1 DEF IsFirst
<1>3. ~(k < j)
  <2> SUFFICES ASSUME k < j PROVE FALSE
    OBVIOUS
  <2>1. k \in 1 .. j - 1
    BY <1>1
  <2>2. QED
    BY <2>1 DEF IsFirst
<1>4. QED
  BY <1>1, <1>2, <1>3

LEMMA FirstIsChosen ==
    ASSUME NEW rows, NEW i \in Nat, NEW j, IsFirst(rows, i, j)
    PROVE  FirstIn(rows, i) = j
<1>1. \E k \in 1 .. i : /\ Clean(rows[k]).key = Clean(rows[i]).key
                        /\ \A l \in 1 .. k - 1 : Clean(rows[l]).key # Clean(rows[i]).key
  BY DEF IsFirst
<1>2. IsFirst(rows, i, FirstIn(rows, i))
  BY <1>1 DEF IsFirst, FirstIn
<1>3. QED
  BY <1>2, FirstIsUnique

-----------------------------------------------------------------------------
(* One row more.                                                           *)

LEMMA OneMoreRow ==
    ASSUME NEW t, NEW rows, NEW m \in Nat, NEW fate
    PROVE  /\ ReadFate(t, rows, m + 1) = fate =>
                 /\ OfFate(t, rows, m + 1, fate) = OfFate(t, rows, m, fate) \cup {m + 1}
                 /\ RowsOf(t, rows, m + 1, fate) = RowsOf(t, rows, m, fate) \cup {Clean(rows[m + 1])}
           /\ ReadFate(t, rows, m + 1) # fate =>
                 /\ OfFate(t, rows, m + 1, fate) = OfFate(t, rows, m, fate)
                 /\ RowsOf(t, rows, m + 1, fate) = RowsOf(t, rows, m, fate)
<1>1. \A i : i \in 1 .. m + 1 <=> i \in 1 .. m \/ i = m + 1
  OBVIOUS
<1>2. ASSUME ReadFate(t, rows, m + 1) = fate
      PROVE  OfFate(t, rows, m + 1, fate) = OfFate(t, rows, m, fate) \cup {m + 1}
  BY <1>1, <1>2 DEF OfFate
<1>3. ASSUME ReadFate(t, rows, m + 1) # fate
      PROVE  OfFate(t, rows, m + 1, fate) = OfFate(t, rows, m, fate)
  BY <1>1, <1>3 DEF OfFate
<1>4. QED
  BY <1>2, <1>3 DEF RowsOf

LEMMA FatesAreCounted ==
    ASSUME NEW t, NEW rows, NEW m \in Nat, NEW fate
    PROVE  /\ IsFiniteSet(OfFate(t, rows, m, fate))
           /\ Cardinality(OfFate(t, rows, m, fate)) \in Nat
           /\ m + 1 \notin OfFate(t, rows, m, fate)
<1>1. OfFate(t, rows, m, fate) \subseteq 1 .. m
  BY DEF OfFate
<1>2. IsFiniteSet(1 .. m)
  BY CardinalityUpTo
<1>3. IsFiniteSet(OfFate(t, rows, m, fate))
  BY <1>1, <1>2, FS_Subset
<1>4. QED
  BY <1>1, <1>3, FS_CardinalityType

LEMMA OneMoreDuplicate ==
    ASSUME NEW t, NEW rows, NEW m \in Nat, ReadFate(t, rows, m + 1) = "duplicate"
    PROVE  Cardinality(OfFate(t, rows, m + 1, "duplicate"))
             = Cardinality(OfFate(t, rows, m, "duplicate")) + 1
<1>1. OfFate(t, rows, m + 1, "duplicate") = OfFate(t, rows, m, "duplicate") \cup {m + 1}
  BY OneMoreRow
<1>2. QED
  BY <1>1, FatesAreCounted, FS_AddElement

\* One entry more in the quarantine.
LEMMA OneMoreEntry ==
    ASSUME NEW S, NEW q \in Seq(S), NEW e \in S
    PROVE  /\ Append(q, e) \in Seq(S)
           /\ Elements(Append(q, e)) = Elements(q) \cup {e}
           /\ \A t, reason :
                 /\ e.table = t /\ e.reason = reason =>
                       RefusedOf(Append(q, e), t, reason) = RefusedOf(q, t, reason) \cup {e.record}
                 /\ ~(e.table = t /\ e.reason = reason) =>
                       RefusedOf(Append(q, e), t, reason) = RefusedOf(q, t, reason)
           /\ \A t :
                 /\ IsFiniteSet(RefusedIn(q, t)) /\ Cardinality(RefusedIn(q, t)) \in Nat
                 /\ e.table = t =>
                       Cardinality(RefusedIn(Append(q, e), t)) = Cardinality(RefusedIn(q, t)) + 1
                 /\ e.table # t => Cardinality(RefusedIn(Append(q, e), t)) = Cardinality(RefusedIn(q, t))
<1>1. PICK p \in Seq(S) : p = Append(q, e)
  <2>1. Append(q, e) \in Seq(S)
    OBVIOUS
  <2>2. QED
    BY <2>1
<1>2. /\ DOMAIN q = 1 .. Len(q) /\ Len(q) \in Nat /\ DOMAIN p = 1 .. Len(q) + 1
      /\ \A i \in DOMAIN q : p[i] = q[i]
  BY <1>1
<1>3. p[Len(q) + 1] = e
  BY <1>1
<1>4. \A i : i \in DOMAIN p <=> i \in DOMAIN q \/ i = Len(q) + 1
  BY <1>2
<1>5. Elements(p) = Elements(q) \cup {e}
  BY <1>2, <1>3, <1>4 DEF Elements
<1>6. ASSUME NEW t, NEW reason, e.table = t, e.reason = reason
      PROVE  RefusedOf(p, t, reason) = RefusedOf(q, t, reason) \cup {e.record}
  BY <1>5, <1>6 DEF RefusedOf
<1>7. ASSUME NEW t, NEW reason, ~(e.table = t /\ e.reason = reason)
      PROVE  RefusedOf(p, t, reason) = RefusedOf(q, t, reason)
  BY <1>5, <1>7 DEF RefusedOf
<1>8. ASSUME NEW t
      PROVE  IsFiniteSet(RefusedIn(q, t)) /\ Cardinality(RefusedIn(q, t)) \in Nat
             /\ Len(q) + 1 \notin RefusedIn(q, t)
  <2>1. RefusedIn(q, t) \subseteq 1 .. Len(q)
    BY <1>2 DEF RefusedIn
  <2>2. IsFiniteSet(1 .. Len(q))
    BY <1>2, CardinalityUpTo
  <2>3. IsFiniteSet(RefusedIn(q, t))
    BY <2>1, <2>2, FS_Subset
  <2>4. QED
    BY <1>2, <2>1, <2>3, FS_CardinalityType
<1>9. ASSUME NEW t, e.table = t
      PROVE  Cardinality(RefusedIn(p, t)) = Cardinality(RefusedIn(q, t)) + 1
  <2>1. RefusedIn(p, t) = RefusedIn(q, t) \cup {Len(q) + 1}
    BY <1>2, <1>3, <1>4, <1>9 DEF RefusedIn
  <2>2. QED
    BY <1>8, <2>1, FS_AddElement
<1>10. ASSUME NEW t, e.table # t
       PROVE  Cardinality(RefusedIn(p, t)) = Cardinality(RefusedIn(q, t))
  <2>1. RefusedIn(p, t) = RefusedIn(q, t)
    BY <1>2, <1>3, <1>4, <1>10 DEF RefusedIn
  <2>2. QED
    BY <2>1
<1>11. QED
  BY <1>1, <1>5, <1>6, <1>7, <1>8, <1>9, <1>10

\* One row more in a list of rows.
LEMMA OneMoreKept ==
    ASSUME NEW S, NEW s \in Seq(S), NEW x \in S, KeysApart(s), x.key \notin Keys(s)
    PROVE  /\ Append(s, x) \in Seq(S) /\ KeysApart(Append(s, x))
           /\ Len(Append(s, x)) = Len(s) + 1
           /\ Elements(Append(s, x)) = Elements(s) \cup {x}
           /\ \A i \in 1 .. Len(s) : Append(s, x)[i] = s[i]
<1>1. PICK p \in Seq(S) : p = Append(s, x)
  <2>1. Append(s, x) \in Seq(S)
    OBVIOUS
  <2>2. QED
    BY <2>1
<1>2. /\ DOMAIN s = 1 .. Len(s) /\ Len(s) \in Nat /\ DOMAIN p = 1 .. Len(s) + 1
      /\ \A i \in DOMAIN s : p[i] = s[i]
      /\ Len(p) = Len(s) + 1
  BY <1>1
<1>3. p[Len(s) + 1] = x
  BY <1>1
<1>4. \A i : i \in DOMAIN p <=> i \in DOMAIN s \/ i = Len(s) + 1
  BY <1>2
<1>5. Elements(p) = Elements(s) \cup {x}
  BY <1>2, <1>3, <1>4 DEF Elements
<1>6. KeysApart(p)
  <2> SUFFICES ASSUME NEW i \in DOMAIN p, NEW j \in DOMAIN p, p[i].key = p[j].key PROVE i = j
    BY DEF KeysApart
  <2>1. \A k \in DOMAIN s : p[k].key # x.key
    BY <1>2 DEF Keys
  <2>2. CASE i \in DOMAIN s /\ j \in DOMAIN s
    BY <1>2, <2>2 DEF KeysApart
  <2>3. CASE i \notin DOMAIN s \/ j \notin DOMAIN s
    BY <1>3, <1>4, <2>1, <2>3
  <2>4. QED
    BY <2>2, <2>3
<1>7. QED
  BY <1>1, <1>2, <1>5, <1>6

-----------------------------------------------------------------------------
(* One step of either loop.                                                *)

LEMMA JudgedOfNone ==
    ASSUME NEW t, NEW acc, NEW parent, NEW fate PROVE JudgedOf(t, acc, 0, parent, fate) = {}
BY DEF JudgedOf

LEMMA ReadRefused ==
    ASSUME NEW t, NEW rows, Len(rows) \in Nat, NEW m, NEW acc, NEW dup, NEW S, NEW q \in Seq(S),
           NEW st, NEW parent, TableOK(t, rows, m, acc, dup, q, st, 0, parent), m < Len(rows),
           NEW e \in S, e.table = t, e.reason \in ReadReasons, e.record = Clean(rows[m + 1]),
           ReadFate(t, rows, m + 1) = e.reason
    PROVE  TableOK(t, rows, m + 1, acc, dup, Append(q, e), st, 0, parent)
<1>1. m \in Nat /\ m + 1 \in 0 .. Len(rows)
  BY DEF TableOK
<1>2. e.reason # "accepted" /\ e.reason # "duplicate" /\ e.reason \notin Reasons \ ReadReasons
  BY DEF ReadReasons
<1>3. /\ RowsOf(t, rows, m + 1, "accepted") = RowsOf(t, rows, m, "accepted")
      /\ OfFate(t, rows, m + 1, "duplicate") = OfFate(t, rows, m, "duplicate")
  BY <1>1, <1>2, OneMoreRow
<1>4. ASSUME NEW reason \in ReadReasons
      PROVE  RefusedOf(Append(q, e), t, reason) = RowsOf(t, rows, m + 1, reason)
  <2>1. RefusedOf(q, t, reason) = RowsOf(t, rows, m, reason)
    BY DEF TableOK
  <2>2. CASE e.reason = reason
    <3>1. RefusedOf(Append(q, e), t, reason) = RefusedOf(q, t, reason) \cup {e.record}
      BY <2>2, OneMoreEntry
    <3>2. RowsOf(t, rows, m + 1, reason) = RowsOf(t, rows, m, reason) \cup {Clean(rows[m + 1])}
      BY <1>1, <2>2, OneMoreRow
    <3>3. QED
      BY <2>1, <3>1, <3>2
  <2>3. CASE e.reason # reason
    <3>1. RefusedOf(Append(q, e), t, reason) = RefusedOf(q, t, reason)
      BY <2>3, OneMoreEntry
    <3>2. RowsOf(t, rows, m + 1, reason) = RowsOf(t, rows, m, reason)
      BY <1>1, <2>3, OneMoreRow
    <3>3. QED
      BY <2>1, <3>1, <3>2
  <2>4. QED
    BY <2>2, <2>3
<1>5. ASSUME NEW reason \in Reasons \ ReadReasons
      PROVE  RefusedOf(Append(q, e), t, reason) = JudgedOf(t, acc, 0, parent, reason)
  <2>1. e.reason # reason
    BY <1>2
  <2>2. RefusedOf(Append(q, e), t, reason) = RefusedOf(q, t, reason)
    BY <2>1, OneMoreEntry
  <2>3. QED
    BY <2>2 DEF TableOK
<1>6. m + 1 = dup + Cardinality(RefusedIn(Append(q, e), t)) + Len(st) + (Len(acc) - 0)
  <2>1. Cardinality(RefusedIn(Append(q, e), t)) = Cardinality(RefusedIn(q, t)) + 1
    BY OneMoreEntry
  <2>2. Cardinality(RefusedIn(q, t)) \in Nat
    BY OneMoreEntry
  <2>3. dup \in Nat
    BY <1>1, FatesAreCounted DEF TableOK
  <2>4. Len(st) \in Nat /\ Len(acc) \in Nat
    BY DEF TableOK
  <2>5. m = dup + Cardinality(RefusedIn(q, t)) + Len(st) + (Len(acc) - 0)
    BY DEF TableOK
  <2>6. \A x, d, k, n \in Nat : m = d + x + k + (n - 0) => m + 1 = d + (x + 1) + k + (n - 0)
    OBVIOUS
  <2>7. QED
    BY <2>1, <2>2, <2>3, <2>4, <2>5, <2>6
<1>7. QED
  BY <1>1, <1>3, <1>4, <1>5, <1>6 DEF TableOK

LEMMA ReadRepeated ==
    ASSUME NEW t, NEW rows, Len(rows) \in Nat, NEW m, NEW acc, NEW dup, NEW S, NEW q \in Seq(S),
           NEW st, NEW parent, TableOK(t, rows, m, acc, dup, q, st, 0, parent), m < Len(rows),
           ReadFate(t, rows, m + 1) = "duplicate"
    PROVE  TableOK(t, rows, m + 1, acc, dup + 1, q, st, 0, parent)
<1>1. m \in Nat /\ m + 1 \in 0 .. Len(rows)
  BY DEF TableOK
<1>2. RowsOf(t, rows, m + 1, "accepted") = RowsOf(t, rows, m, "accepted")
  BY <1>1, OneMoreRow
<1>3. Cardinality(OfFate(t, rows, m + 1, "duplicate")) = dup + 1
  BY <1>1, OneMoreDuplicate DEF TableOK
<1>4. ASSUME NEW reason \in ReadReasons
      PROVE  RefusedOf(q, t, reason) = RowsOf(t, rows, m + 1, reason)
  <2>1. reason # "duplicate"
    BY DEF ReadReasons
  <2>2. RowsOf(t, rows, m + 1, reason) = RowsOf(t, rows, m, reason)
    BY <1>1, <2>1, OneMoreRow
  <2>3. QED
    BY <2>2 DEF TableOK
<1>5. m + 1 = dup + 1 + Cardinality(RefusedIn(q, t)) + Len(st) + (Len(acc) - 0)
  <2>1. Cardinality(RefusedIn(q, t)) \in Nat
    <3>1. DOMAIN q = 1 .. Len(q) /\ Len(q) \in Nat
      OBVIOUS
    <3>2. RefusedIn(q, t) \subseteq 1 .. Len(q)
      BY <3>1 DEF RefusedIn
    <3>3. QED
      BY <3>1, <3>2, CardinalityUpTo, FS_Subset, FS_CardinalityType
  <2>2. dup \in Nat /\ Len(st) \in Nat /\ Len(acc) \in Nat
    BY <1>1, FatesAreCounted DEF TableOK
  <2>3. m = dup + Cardinality(RefusedIn(q, t)) + Len(st) + (Len(acc) - 0)
    BY DEF TableOK
  <2>4. QED
    BY ONLY <1>1, <2>1, <2>2, <2>3, SMTT(30)
<1>6. QED
  BY <1>1, <1>2, <1>3, <1>4, <1>5 DEF TableOK

\* An accepted row is the first of its key.
LEMMA AcceptedIsFirst ==
    ASSUME NEW t, NEW rows, NEW m \in Nat, ReadFate(t, rows, m + 1) = "accepted",
           \A i \in 1 .. m : Clean(rows[i]).key # Clean(rows[m + 1]).key,
           NEW acc, Elements(acc) = RowsOf(t, rows, m, "accepted")
    PROVE  Clean(rows[m + 1]).key \notin Keys(acc)
<1> SUFFICES ASSUME NEW r \in Elements(acc), r.key = Clean(rows[m + 1]).key PROVE FALSE
  BY DEF Keys, Elements
<1>1. PICK i \in 1 .. m : r = Clean(rows[i])
  BY DEF RowsOf, OfFate
<1>2. QED
  BY <1>1

LEMMA ReadAccepted ==
    ASSUME NEW t, NEW rows, Len(rows) \in Nat, NEW m, NEW acc, NEW dup, NEW S, NEW q \in Seq(S),
           NEW st, NEW parent, TableOK(t, rows, m, acc, dup, q, st, 0, parent), m < Len(rows),
           ReadFate(t, rows, m + 1) = "accepted",
           \A i \in 1 .. m : Clean(rows[i]).key # Clean(rows[m + 1]).key
    PROVE  TableOK(t, rows, m + 1, Append(acc, Clean(rows[m + 1])), dup, q, st, 0, parent)
<1>x. PICK x : x = Clean(rows[m + 1])
  OBVIOUS
<1>1. m \in Nat /\ m + 1 \in 0 .. Len(rows) /\ m + 1 \in 1 .. Len(rows)
  BY DEF TableOK
<1>2. x \in Cleared(rows)
  BY <1>1, <1>x DEF Cleared
<1>3. acc \in Seq(Cleared(rows)) /\ KeysApart(acc) /\ Elements(acc) = RowsOf(t, rows, m, "accepted")
  BY DEF TableOK
<1>4. x.key \notin Keys(acc)
  BY <1>1, <1>3, <1>x, AcceptedIsFirst
<1>5. PICK next : next = Append(acc, x)
  OBVIOUS
<1>6. /\ next \in Seq(Cleared(rows)) /\ KeysApart(next) /\ Len(next) = Len(acc) + 1
      /\ Elements(next) = Elements(acc) \cup {x}
  BY <1>2, <1>3, <1>4, <1>5, OneMoreKept
<1>7. RowsOf(t, rows, m + 1, "accepted") = RowsOf(t, rows, m, "accepted") \cup {x}
  BY <1>1, <1>x, OneMoreRow
<1>8. OfFate(t, rows, m + 1, "duplicate") = OfFate(t, rows, m, "duplicate")
  BY <1>1, OneMoreRow
<1>9. ASSUME NEW reason \in ReadReasons
      PROVE  RefusedOf(q, t, reason) = RowsOf(t, rows, m + 1, reason)
  <2>1. reason # "accepted"
    BY DEF ReadReasons
  <2>2. RowsOf(t, rows, m + 1, reason) = RowsOf(t, rows, m, reason)
    BY <1>1, <2>1, OneMoreRow
  <2>3. QED
    BY <2>2 DEF TableOK
<1>10. \A fate : JudgedOf(t, next, 0, parent, fate) = JudgedOf(t, acc, 0, parent, fate)
  BY JudgedOfNone
<1>11. m + 1 = dup + Cardinality(RefusedIn(q, t)) + Len(st) + (Len(next) - 0)
  <2>1. Cardinality(RefusedIn(q, t)) \in Nat
    <3>1. DOMAIN q = 1 .. Len(q) /\ Len(q) \in Nat
      OBVIOUS
    <3>2. RefusedIn(q, t) \subseteq 1 .. Len(q)
      BY <3>1 DEF RefusedIn
    <3>3. QED
      BY <3>1, <3>2, CardinalityUpTo, FS_Subset, FS_CardinalityType
  <2>2. dup \in Nat /\ Len(st) \in Nat /\ Len(acc) \in Nat
    BY <1>1, FatesAreCounted DEF TableOK
  <2>3. m = dup + Cardinality(RefusedIn(q, t)) + Len(st) + (Len(acc) - 0)
    BY DEF TableOK
  <2>4. QED
    BY ONLY <1>1, <1>6, <2>1, <2>2, <2>3, SMTT(30)
<1>12. Len(acc) \in Nat
  BY <1>3
<1>13. 0 \in 0 .. Len(next)
  BY <1>6, <1>12
<1>14. TableOK(t, rows, m + 1, next, dup, q, st, 0, parent)
  BY <1>1, <1>3, <1>6, <1>7, <1>8, <1>9, <1>10, <1>11, <1>13 DEF TableOK
<1>15. QED
  BY <1>14, <1>5, <1>x

\* An entry on another table says nothing of this one.
LEMMA OtherTable ==
    ASSUME NEW t, NEW rows, NEW m, NEW acc, NEW dup, NEW S, NEW q \in Seq(S), NEW st, NEW c,
           NEW parent, TableOK(t, rows, m, acc, dup, q, st, c, parent), NEW e \in S, e.table # t
    PROVE  TableOK(t, rows, m, acc, dup, Append(q, e), st, c, parent)
<1>1. \A reason : RefusedOf(Append(q, e), t, reason) = RefusedOf(q, t, reason)
  BY OneMoreEntry
<1>2. Cardinality(RefusedIn(Append(q, e), t)) = Cardinality(RefusedIn(q, t))
  BY OneMoreEntry
<1>3. QED
  BY <1>1, <1>2 DEF TableOK

\* What references may be to matters only once consolidation is there.
LEMMA OtherParent ==
    ASSUME NEW t, NEW rows, NEW m, NEW acc, NEW dup, NEW q, NEW st, NEW c, NEW parent, NEW other,
           TableOK(t, rows, m, acc, dup, q, st, c, parent),
           \A fate : JudgedOf(t, acc, c, other, fate) = JudgedOf(t, acc, c, parent, fate)
    PROVE  TableOK(t, rows, m, acc, dup, q, st, c, other)
  BY SMTT(30) DEF TableOK

LEMMA ParentIsLater ==
    ASSUME NEW t, NEW rows, NEW m, NEW acc, NEW dup, NEW q, NEW st, NEW parent, NEW other,
           TableOK(t, rows, m, acc, dup, q, st, 0, parent)
    PROVE  TableOK(t, rows, m, acc, dup, q, st, 0, other)
<1>1. \A fate : JudgedOf(t, acc, 0, other, fate) = JudgedOf(t, acc, 0, parent, fate)
  BY JudgedOfNone
<1>2. QED
  BY <1>1, OtherParent

LEMMA OneMoreJudged ==
    ASSUME NEW t, NEW acc, NEW c \in Nat, NEW parent
    PROVE  \A fate : IF Judged(t, acc[c + 1], parent) = fate
                     THEN JudgedOf(t, acc, c + 1, parent, fate)
                            = JudgedOf(t, acc, c, parent, fate) \cup {acc[c + 1]}
                     ELSE JudgedOf(t, acc, c + 1, parent, fate) = JudgedOf(t, acc, c, parent, fate)
<1>1. \A k : k \in 1 .. c + 1 <=> k \in 1 .. c \/ k = c + 1
  OBVIOUS
<1>2. ASSUME NEW fate, Judged(t, acc[c + 1], parent) = fate
      PROVE  JudgedOf(t, acc, c + 1, parent, fate) = JudgedOf(t, acc, c, parent, fate) \cup {acc[c + 1]}
  <2>1. {k \in 1 .. c + 1 : Judged(t, acc[k], parent) = fate}
          = {k \in 1 .. c : Judged(t, acc[k], parent) = fate} \cup {c + 1}
    BY <1>1, <1>2
  <2>2. QED
    BY <2>1 DEF JudgedOf
<1>3. ASSUME NEW fate, Judged(t, acc[c + 1], parent) # fate
      PROVE  JudgedOf(t, acc, c + 1, parent, fate) = JudgedOf(t, acc, c, parent, fate)
  <2>1. {k \in 1 .. c + 1 : Judged(t, acc[k], parent) = fate}
          = {k \in 1 .. c : Judged(t, acc[k], parent) = fate}
    BY <1>1, <1>3
  <2>2. QED
    BY <2>1 DEF JudgedOf
<1>4. QED
  BY <1>2, <1>3

LEMMA ConsolidatedKept ==
    ASSUME NEW t, NEW rows, NEW m, NEW acc, NEW dup, NEW S, NEW q \in Seq(S), NEW st, NEW c,
           NEW parent, TableOK(t, rows, m, acc, dup, q, st, c, parent), c < Len(acc),
           Judged(t, acc[c + 1], parent) = "stored"
    PROVE  TableOK(t, rows, m, acc, dup, q, Append(st, acc[c + 1]), c + 1, parent)
<1>x. PICK x : x = acc[c + 1]
  OBVIOUS
<1>1. acc \in Seq(Cleared(rows)) /\ KeysApart(acc) /\ st \in Seq(Cleared(rows)) /\ KeysApart(st)
  BY DEF TableOK
<1>2. Len(acc) \in Nat /\ DOMAIN acc = 1 .. Len(acc) /\ Len(st) \in Nat
  BY <1>1
<1>3. c \in Nat /\ c + 1 \in 0 .. Len(acc) /\ c + 1 \in DOMAIN acc
  BY <1>2 DEF TableOK
<1>j. \A fate : IF Judged(t, acc[c + 1], parent) = fate
                THEN JudgedOf(t, acc, c + 1, parent, fate)
                       = JudgedOf(t, acc, c, parent, fate) \cup {acc[c + 1]}
                ELSE JudgedOf(t, acc, c + 1, parent, fate) = JudgedOf(t, acc, c, parent, fate)
  BY <1>3, OneMoreJudged
<1>4. x \in Cleared(rows)
  BY <1>1, <1>2, <1>3, <1>x
<1>5. Elements(st) = JudgedOf(t, acc, c, parent, "stored")
  BY DEF TableOK
<1>6. x.key \notin Keys(st)
  <2> SUFFICES ASSUME NEW r \in Elements(st), r.key = x.key PROVE FALSE
    BY DEF Keys, Elements
  <2>1. PICK k \in 1 .. c : r = acc[k]
    BY <1>5 DEF JudgedOf
  <2>2. k \in DOMAIN acc /\ k # c + 1
    BY <1>2, <1>3
  <2>3. QED
    BY <1>1, <1>3, <1>x, <2>1, <2>2 DEF KeysApart
<1>7. PICK next : next = Append(st, x)
  OBVIOUS
<1>8. /\ next \in Seq(Cleared(rows)) /\ KeysApart(next) /\ Len(next) = Len(st) + 1
      /\ Elements(next) = Elements(st) \cup {x}
  BY <1>1, <1>4, <1>6, <1>7, OneMoreKept
<1>9. Elements(next) = JudgedOf(t, acc, c + 1, parent, "stored")
  BY <1>5, <1>8, <1>j, <1>x
<1>10. ASSUME NEW reason \in Reasons \ ReadReasons
       PROVE  RefusedOf(q, t, reason) = JudgedOf(t, acc, c + 1, parent, reason)
  <2>1. reason # "stored"
    BY DEF Reasons, ReadReasons
  <2>2. JudgedOf(t, acc, c + 1, parent, reason) = JudgedOf(t, acc, c, parent, reason)
    BY <1>j, <2>1
  <2>3. QED
    BY <2>2 DEF TableOK
<1>11. m = dup + Cardinality(RefusedIn(q, t)) + Len(next) + (Len(acc) - (c + 1))
  <2>1. Cardinality(RefusedIn(q, t)) \in Nat
    <3>1. DOMAIN q = 1 .. Len(q) /\ Len(q) \in Nat
      OBVIOUS
    <3>2. RefusedIn(q, t) \subseteq 1 .. Len(q)
      BY <3>1 DEF RefusedIn
    <3>3. QED
      BY <3>1, <3>2, CardinalityUpTo, FS_Subset, FS_CardinalityType
  <2>2. m = dup + Cardinality(RefusedIn(q, t)) + Len(st) + (Len(acc) - c)
    BY DEF TableOK
  <2>3. PICK d : d = dup + Cardinality(RefusedIn(q, t))
    OBVIOUS
  <2>4. d \in Int
    <3>1. dup \in Int
      BY FatesAreCounted DEF TableOK
    <3>2. QED
      BY <2>1, <2>3, <3>1
  <2>5. QED
    BY <1>2, <1>3, <1>8, <2>2, <2>3, <2>4
<1>12. TableOK(t, rows, m, acc, dup, q, next, c + 1, parent)
  BY <1>3, <1>8, <1>9, <1>10, <1>11 DEF TableOK
<1>13. QED
  BY <1>12, <1>7, <1>x

\* One more is refused and one less is left.
LEMMA OneFurther ==
    \A x, d, k, n, j \in Int : d + x + k + (n - j) = d + (x + 1) + k + (n - (j + 1))
OBVIOUS

LEMMA ConsolidatedRefused ==
    ASSUME NEW t, NEW rows, NEW m, NEW acc, NEW dup, NEW S, NEW q \in Seq(S), NEW st, NEW c,
           NEW parent, TableOK(t, rows, m, acc, dup, q, st, c, parent), c < Len(acc),
           NEW e \in S, e.table = t, e.reason = Judged(t, acc[c + 1], parent),
           e.reason # "stored", e.record = acc[c + 1]
    PROVE  TableOK(t, rows, m, acc, dup, Append(q, e), st, c + 1, parent)
<1>1. /\ Len(acc) \in Nat /\ Len(st) \in Nat /\ c \in Nat /\ c + 1 \in 0 .. Len(acc)
  BY DEF TableOK
<1>j. \A fate : IF Judged(t, acc[c + 1], parent) = fate
                THEN JudgedOf(t, acc, c + 1, parent, fate)
                       = JudgedOf(t, acc, c, parent, fate) \cup {acc[c + 1]}
                ELSE JudgedOf(t, acc, c + 1, parent, fate) = JudgedOf(t, acc, c, parent, fate)
  BY <1>1, OneMoreJudged
<1>2. e.reason \in Reasons \ ReadReasons
  BY DEF Judged, Reasons, ReadReasons
<1>3. ASSUME NEW reason \in ReadReasons
      PROVE  RefusedOf(Append(q, e), t, reason) = RowsOf(t, rows, m, reason)
  <2>1. RefusedOf(Append(q, e), t, reason) = RefusedOf(q, t, reason)
    BY <1>2, OneMoreEntry
  <2>2. QED
    BY <2>1 DEF TableOK
<1>4. JudgedOf(t, acc, c + 1, parent, "stored") = JudgedOf(t, acc, c, parent, "stored")
  <2>1. Judged(t, acc[c + 1], parent) # "stored"
    OBVIOUS
  <2>2. QED
    BY <1>j, <2>1
<1>5. ASSUME NEW reason \in Reasons \ ReadReasons
      PROVE  RefusedOf(Append(q, e), t, reason) = JudgedOf(t, acc, c + 1, parent, reason)
  <2>1. RefusedOf(q, t, reason) = JudgedOf(t, acc, c, parent, reason)
    BY DEF TableOK
  <2>2. CASE e.reason = reason
    <3>1. RefusedOf(Append(q, e), t, reason) = RefusedOf(q, t, reason) \cup {e.record}
      BY <2>2, OneMoreEntry
    <3>2. JudgedOf(t, acc, c + 1, parent, reason) = JudgedOf(t, acc, c, parent, reason) \cup {acc[c + 1]}
      BY <1>j, <2>2
    <3>3. QED
      BY <2>1, <3>1, <3>2
  <2>3. CASE e.reason # reason
    <3>1. RefusedOf(Append(q, e), t, reason) = RefusedOf(q, t, reason)
      BY <2>3, OneMoreEntry
    <3>2. JudgedOf(t, acc, c + 1, parent, reason) = JudgedOf(t, acc, c, parent, reason)
      <4>1. Judged(t, acc[c + 1], parent) # reason
        BY <2>3
      <4>2. QED
        BY <1>j, <4>1
    <3>3. QED
      BY <2>1, <3>1, <3>2
  <2>4. QED
    BY <2>2, <2>3
<1>6. m = dup + Cardinality(RefusedIn(Append(q, e), t)) + Len(st) + (Len(acc) - (c + 1))
  <2>1. /\ Cardinality(RefusedIn(Append(q, e), t)) = Cardinality(RefusedIn(q, t)) + 1
        /\ Cardinality(RefusedIn(q, t)) \in Nat
    BY OneMoreEntry
  <2>2. m = dup + Cardinality(RefusedIn(q, t)) + Len(st) + (Len(acc) - c)
    BY DEF TableOK
  <2>3. dup \in Int
    BY FatesAreCounted DEF TableOK
  <2>4. QED
    BY ONLY <1>1, <2>1, <2>2, <2>3, OneFurther
<1>7. QED
  BY <1>1, <1>3, <1>4, <1>5, <1>6 DEF TableOK

-----------------------------------------------------------------------------
(* Where the loops are.                                                    *)

ReadTo(n) ==
    IF phase \in {"consolidate", "done"} \/ n < at.table THEN Len(files[Tables[n]])
    ELSE IF n = at.table THEN at.row - 1 ELSE 0
JudgedTo(n) ==
    IF phase \notin {"consolidate", "done"} \/ n > at.table THEN 0
    ELSE IF n = at.table THEN at.row - 1 ELSE Len(accepted[Tables[n]])

TableHolds(n) ==
    TableOK(Tables[n], files[Tables[n]], ReadTo(n), accepted[Tables[n]], duplicates[Tables[n]],
            quarantine, stored[Tables[n]], JudgedTo(n), stored[RefersTo[Tables[n]]])

\* What validate_records knows after m rows: the first row of every key.
SeenOK(rows, m, s) ==
    /\ DOMAIN s = {Clean(rows[i]).key : i \in 1 .. m} \ {None}
    /\ \A k \in DOMAIN s : \E j \in 1 .. m :
          /\ Clean(rows[j]).key = k /\ s[k] = Clean(rows[j])
          /\ \A i \in 1 .. j - 1 : Clean(rows[i]).key # k

Entry == [table : Table, number : Nat, reason : Reasons,
          record : UNION {Cleared(files[t]) : t \in Table}]

Shape ==
    /\ files \in Files
    /\ manifest \in {"absent", "match", "differ"}
    /\ phase \in {"verify", "read", "consolidate", "done", "raised"}
    /\ at = [table |-> at.table, row |-> at.row] /\ at.table \in 1 .. 4 /\ at.row \in Nat \ {0}
    /\ accepted = [t \in Table |-> accepted[t]] /\ stored = [t \in Table |-> stored[t]]
    /\ duplicates = [t \in Table |-> duplicates[t]]
    /\ quarantine \in Seq(Entry)

Progress ==
    /\ phase = "verify" => at.table = 1 /\ at.row = 1
    /\ phase \in {"verify", "read"} => SeenOK(files[Tables[at.table]], at.row - 1, seen)
    /\ phase = "done" => at.table = 4 /\ at.row = Len(accepted["ledger"]) + 1
    /\ phase \in {"read", "consolidate", "done"} => manifest # "differ"

\* What is made once everything is done.
Outcome ==
    /\ context = NoContext \/ (phase = "done" /\ context.state \in {"started", "refused", "raised"})
    /\ context.state = "started" =>
          /\ quarantine = <<>> /\ stored["transactions"] # <<>>
          /\ context.as_of = Latest(Elements(stored["transactions"]))
    /\ case = NoCase \/ phase = "done"
    /\ case.kind = "case" => \E r \in Elements(stored["transactions"]) : r.time = case.as_of
    /\ CaseIsOfThePast
    /\ phase = "done" => /\ report.rows_read = [t \in Table |-> Len(files[t])]
                         /\ report.accepted = [t \in Table |-> Len(stored[t])]
                         /\ report.duplicates = duplicates

PipelineInv == Shape /\ Progress /\ Outcome /\ \A n \in 1 .. 4 : TableHolds(n)

\* The order of the tables: a reference is to an earlier one.
LEMMA TheTables ==
    /\ DOMAIN Tables = 1 .. 4 /\ Len(Tables) = 4
    /\ \A n \in 1 .. 4 : Tables[n] \in Table
    /\ \A m, n \in 1 .. 4 : Tables[m] = Tables[n] => m = n
    /\ \A t \in Table : \E n \in 1 .. 4 : Tables[n] = t
    /\ \A n \in 1 .. 4 : Tables[n] = "customers" <=> n = 1
    /\ \A n \in 2 .. 4 : \E m \in 1 .. n - 1 : RefersTo[Tables[n]] = Tables[m]
    /\ Tables[4] = "ledger" /\ Tables[3] = "transactions" /\ Tables[1] = "customers"
<1>1. DOMAIN Tables = 1 .. 4 /\ Len(Tables) = 4
  BY DEF Tables
<1>2. /\ Tables[1] = "customers" /\ Tables[2] = "kyc_records"
      /\ Tables[3] = "transactions" /\ Tables[4] = "ledger"
  BY DEF Tables
<1>3. \A n : n \in 1 .. 4 <=> n \in {1, 2, 3, 4}
  OBVIOUS
<1>4. Table = {"customers", "kyc_records", "transactions", "ledger"}
  BY <1>1, <1>2, <1>3 DEF Table
<1>5. \A n \in 1 .. 4 : Tables[n] \in Table
  BY <1>1 DEF Table
<1>6. \A m, n \in 1 .. 4 : Tables[m] = Tables[n] => m = n
  BY <1>2, <1>3
<1>7. \A t \in Table : \E n \in 1 .. 4 : Tables[n] = t
  BY <1>1 DEF Table
<1>8. \A n \in 1 .. 4 : Tables[n] = "customers" <=> n = 1
  BY <1>2, <1>3
<1>9. /\ RefersTo["kyc_records"] = "customers" /\ RefersTo["transactions"] = "customers"
      /\ RefersTo["ledger"] = "transactions"
  BY <1>4 DEF RefersTo
<1>10. \A n \in 2 .. 4 : \E m \in 1 .. n - 1 : RefersTo[Tables[n]] = Tables[m]
  <2> SUFFICES ASSUME NEW n \in 2 .. 4 PROVE \E m \in 1 .. n - 1 : RefersTo[Tables[n]] = Tables[m]
    OBVIOUS
  <2>1. n = 2 \/ n = 3 \/ n = 4
    OBVIOUS
  <2>2. CASE n = 2
    <3>1. 1 \in 1 .. n - 1 /\ RefersTo[Tables[n]] = Tables[1]
      BY <1>2, <1>9, <2>2
    <3>2. QED
      BY <3>1
  <2>3. CASE n = 3
    <3>1. 1 \in 1 .. n - 1 /\ RefersTo[Tables[n]] = Tables[1]
      BY <1>2, <1>9, <2>3
    <3>2. QED
      BY <3>1
  <2>4. CASE n = 4
    <3>1. 3 \in 1 .. n - 1 /\ RefersTo[Tables[n]] = Tables[3]
      BY <1>2, <1>9, <2>4
    <3>2. QED
      BY <3>1
  <2>5. QED
    BY <2>1, <2>2, <2>3, <2>4
<1>11. QED
  BY <1>1, <1>2, <1>5, <1>6, <1>7, <1>8, <1>10

LEMMA TheFiles ==
    ASSUME Shape, NEW t \in Table
    PROVE  /\ Len(files[t]) \in Nat /\ DOMAIN files[t] = 1 .. Len(files[t])
           /\ \A i \in DOMAIN files[t] : files[t][i].time \in Int
<1>1. files[t] \in Seq({files[t][i] : i \in DOMAIN files[t]})
  BY FilesAssumption DEF Shape
<1>2. \A i \in DOMAIN files[t] : files[t][i].time \in Int
  BY FilesAssumption DEF Shape
<1>3. PICK S : files[t] \in Seq(S)
  BY <1>1
<1>4. QED
  BY <1>2, <1>3

\* What CaseIsOfThePast says of a case k and the store st.
Sound(k, st) ==
    /\ \A r \in Elements(k.focus) \cup Elements(k.context) : r.ref = k.of /\ r.time <= k.as_of
    /\ \E r \in Elements(k.focus) : r.time = k.as_of
    /\ Keys(k.focus) = Elements(k.asked)
    /\ \A id \in Elements(k.asked) :
          Cardinality({n \in DOMAIN k.focus : k.focus[n].key = id})
            = Cardinality({n \in DOMAIN k.asked : k.asked[n] = id})
    /\ \A i, j \in DOMAIN k.focus : i < j => k.focus[i].time <= k.focus[j].time
    /\ Elements(k.context) =
          {r \in Elements(st["transactions"]) :
               /\ r.ref = k.of /\ r.key \notin Elements(k.asked)
               /\ k.as_of - ContextDays <= r.time /\ r.time <= k.as_of}
    /\ IsInjective([i \in DOMAIN k.context |-> k.context[i].key])
    /\ Elements(k.documents) = {r \in Elements(st["kyc_records"]) : r.ref = k.of}
    /\ DOMAIN k.postings = Keys(k.focus) \cup Keys(k.context)
    /\ \A id \in DOMAIN k.postings :
          Elements(k.postings[id]) = {r \in Elements(st["ledger"]) : r.ref = id}

LEMMA CaseStays == ASSUME CaseIsOfThePast, case' = case, stored' = stored PROVE CaseIsOfThePast'
<1>1. case.kind = "case" => Sound(case, stored)
  BY DEF CaseIsOfThePast, Sound
<1>2. case'.kind = "case" => Sound(case', stored')
  BY <1>1
<1>3. QED
  BY <1>2 DEF CaseIsOfThePast, Sound

LEMMA NoCaseYet ==
    ASSUME case = NoCase
    PROVE  case.kind # "case" /\ CaseIsOfThePast
BY DEF NoCase, CaseIsOfThePast

LEMMA InitHolds == Init => PipelineInv
<1> SUFFICES ASSUME Init PROVE PipelineInv
  OBVIOUS
<1>0. <<>> \in Seq(Entry) /\ DOMAIN <<>> = {} /\ Len(<<>>) = 0
  OBVIOUS
<1>1. /\ files \in Files /\ phase = "verify" /\ seen = <<>> /\ quarantine = <<>>
      /\ context = NoContext /\ case = NoCase /\ manifest \in {"absent", "match", "differ"}
  BY DEF Init
<1>2. at = [table |-> 1, row |-> 1] /\ at.table = 1 /\ at.row = 1
  BY DEF Init
<1>3. /\ accepted = [t \in Table |-> <<>>] /\ stored = [t \in Table |-> <<>>]
      /\ duplicates = [t \in Table |-> 0]
  BY DEF Init
<1>4. Shape
  BY <1>0, <1>1, <1>2, <1>3 DEF Shape
<1>5. Progress
  <2>1. at.row - 1 = 0
    BY <1>2
  <2>2. SeenOK(files[Tables[at.table]], 0, <<>>)
    BY <1>0 DEF SeenOK
  <2>3. QED
    BY <1>1, <1>2, <2>1, <2>2 DEF Progress
<1>6. Outcome
  BY <1>1, NoCaseYet DEF Outcome, NoContext
<1>7. ASSUME NEW n \in 1 .. 4 PROVE TableHolds(n)
  <2>1. PICK t \in Table : t = Tables[n]
    BY TheTables
  <2>2. accepted[t] = <<>> /\ stored[t] = <<>> /\ duplicates[t] = 0
    BY <1>3
  <2>3. ReadTo(n) = 0 /\ JudgedTo(n) = 0
    BY <1>1, <1>2 DEF ReadTo, JudgedTo
  <2>4. PICK rows : rows = files[t]
    OBVIOUS
  <2>5. Len(rows) \in Nat
    BY <1>4, <2>4, TheFiles
  <2>6. \A fate : OfFate(t, rows, 0, fate) = {} /\ RowsOf(t, rows, 0, fate) = {}
    BY DEF OfFate, RowsOf
  <2>7. Elements(<<>>) = {} /\ KeysApart(<<>>) /\ <<>> \in Seq(Cleared(rows))
    BY <1>0 DEF Elements, KeysApart
  <2>8. \A reason : RefusedOf(<<>>, t, reason) = {}
    BY <2>7 DEF RefusedOf
  <2>9. RefusedIn(<<>>, t) = {} /\ Cardinality({}) = 0
    BY <1>0, FS_EmptySet DEF RefusedIn
  <2>10. \A parent : TableOK(t, rows, 0, <<>>, 0, <<>>, <<>>, 0, parent)
    <3>1. \A parent, fate : JudgedOf(t, <<>>, 0, parent, fate) = {}
      BY JudgedOfNone
    <3>2. PICK e : e = <<>>
      OBVIOUS
    <3>3. 0 \in 0 .. Len(rows) /\ 0 \in 0 .. Len(e)
      BY <1>0, <2>5, <3>2
    <3>4. 0 = 0 + Cardinality(RefusedIn(e, t)) + Len(e) + (Len(e) - 0)
      BY <1>0, <2>9, <3>2
    <3>5. Elements(e) = {} /\ KeysApart(e) /\ e \in Seq(Cleared(rows)) /\ \A reason : RefusedOf(e, t, reason) = {}
      BY <2>7, <2>8, <3>2
    <3>6. \A parent, fate : JudgedOf(t, e, 0, parent, fate) = {}
      BY <3>1, <3>2
    <3>7. \A parent : TableOK(t, rows, 0, e, 0, e, e, 0, parent)
      BY <2>6, <2>9, <3>3, <3>4, <3>5, <3>6 DEF TableOK
    <3>8. QED
      BY <3>2, <3>7
  <2>11. QED
    BY <1>1, <2>1, <2>2, <2>3, <2>4, <2>10 DEF TableHolds
<1>8. QED
  BY <1>4, <1>5, <1>6, <1>7 DEF PipelineInv

-----------------------------------------------------------------------------
(* A step of a loop leaves the other tables as they are.                   *)

\* Before everything is done there is neither a context nor a case.
LEMMA OutcomeStays ==
    ASSUME Outcome, phase # "done", phase' # "done", context' = context, case' = case
    PROVE  Outcome'
<1>1. context = NoContext /\ context.state = "none"
  BY DEF Outcome, NoContext
<1>2. case = NoCase
  BY DEF Outcome
<1>3. context' = NoContext /\ context'.state = "none"
  BY <1>1
<1>4. case' = NoCase /\ case'.kind # "case" /\ CaseIsOfThePast'
  BY <1>2 DEF NoCase, CaseIsOfThePast
<1>5. QED
  BY <1>3, <1>4 DEF Outcome, NoContext, NoCase

LEMMA ReadAdvances ==
    ASSUME PipelineInv, phase = "read", NEW n \in 1 .. 4, n = at.table, NEW t, t = Tables[n],
           files' = files, manifest' = manifest, phase' = phase, stored' = stored,
           context' = context, case' = case, at' = [at EXCEPT !.row = @ + 1],
           accepted' = [u \in Table |-> accepted'[u]], duplicates' = [u \in Table |-> duplicates'[u]],
           \A u \in Table \ {t} : accepted'[u] = accepted[u] /\ duplicates'[u] = duplicates[u],
           NEW e \in Entry, e.table = t,
           quarantine' = quarantine \/ quarantine' = Append(quarantine, e),
           SeenOK(files[t], at.row, seen'),
           TableOK(t, files[t], at.row, accepted'[t], duplicates'[t], quarantine', stored[t], 0,
                   stored[RefersTo[t]])
    PROVE  PipelineInv'
<1>1. at' = [table |-> at.table, row |-> at.row + 1] /\ at.row \in Nat \ {0}
  BY DEF PipelineInv, Shape
<1>2. at'.table = n /\ at'.row = at.row + 1 /\ at'.row - 1 = at.row /\ at'.row \in Nat \ {0}
  BY <1>1
<1>3. Entry' = Entry /\ quarantine' \in Seq(Entry)
  <2>1. quarantine \in Seq(Entry)
    BY DEF PipelineInv, Shape
  <2>2. Append(quarantine, e) \in Seq(Entry)
    BY <2>1
  <2>3. Entry' = Entry
    BY DEF Entry
  <2>4. QED
    BY <2>1, <2>2, <2>3
<1>4. Shape'
  BY <1>1, <1>2, <1>3 DEF PipelineInv, Shape
<1>5. Progress'
  BY <1>2 DEF PipelineInv, Progress
<1>6. Outcome'
  BY OutcomeStays DEF PipelineInv
<1>7. ASSUME NEW m \in 1 .. 4 PROVE TableHolds(m)'
  <2>1. CASE m = n
    <3>1. ReadTo(m)' = at.row /\ JudgedTo(m)' = 0
      BY <1>2, <2>1 DEF ReadTo, JudgedTo
    <3>2. QED
      BY <2>1, <3>1 DEF TableHolds
  <2>2. CASE m # n
    <3>1. PICK u \in Table : u = Tables[m] /\ u # t
      BY <2>2, TheTables
    <3>2. ReadTo(m)' = ReadTo(m) /\ JudgedTo(m)' = JudgedTo(m)
      BY <1>2, <2>2 DEF ReadTo, JudgedTo
    <3>3. PICK k : k = ReadTo(m)
      OBVIOUS
    <3>4. JudgedTo(m) = 0
      BY DEF JudgedTo
    <3>5. TableOK(u, files[u], k, accepted[u], duplicates[u], quarantine, stored[u], 0, stored[RefersTo[u]])
      BY <3>1, <3>3, <3>4 DEF PipelineInv, TableHolds
    <3>6. quarantine \in Seq(Entry)
      BY DEF PipelineInv, Shape
    <3>7. TableOK(u, files[u], k, accepted[u], duplicates[u], Append(quarantine, e), stored[u], 0,
                  stored[RefersTo[u]])
      BY <3>1, <3>5, <3>6, OtherTable
    <3>8. TableOK(u, files[u], k, accepted[u], duplicates[u], quarantine', stored[u], 0, stored[RefersTo[u]])
      BY <3>5, <3>7
    <3>9. accepted'[u] = accepted[u] /\ duplicates'[u] = duplicates[u]
      BY <3>1
    <3>10. QED
      BY <3>1, <3>2, <3>3, <3>4, <3>8, <3>9 DEF TableHolds
  <2>3. QED
    BY <2>1, <2>2
<1>8. QED
  BY <1>4, <1>5, <1>6, <1>7 DEF PipelineInv

LEMMA JudgingAdvances ==
    ASSUME PipelineInv, phase = "consolidate", NEW n \in 1 .. 4, n = at.table, NEW t, t = Tables[n],
           files' = files, manifest' = manifest, phase' = phase, accepted' = accepted,
           duplicates' = duplicates, context' = context, case' = case,
           at' = [at EXCEPT !.row = @ + 1],
           stored' = [u \in Table |-> stored'[u]], \A u \in Table \ {t} : stored'[u] = stored[u],
           NEW e \in Entry, e.table = t,
           quarantine' = quarantine \/ quarantine' = Append(quarantine, e),
           TableOK(t, files[t], Len(files[t]), accepted[t], duplicates[t], quarantine', stored'[t],
                   at.row, stored[RefersTo[t]])
    PROVE  PipelineInv'
<1>1. at' = [table |-> at.table, row |-> at.row + 1] /\ at.row \in Nat \ {0}
  BY DEF PipelineInv, Shape
<1>2. at'.table = n /\ at'.row = at.row + 1 /\ at'.row - 1 = at.row /\ at'.row \in Nat \ {0}
  BY <1>1
<1>3. Entry' = Entry /\ quarantine' \in Seq(Entry)
  <2>1. quarantine \in Seq(Entry)
    BY DEF PipelineInv, Shape
  <2>2. Append(quarantine, e) \in Seq(Entry)
    BY <2>1
  <2>3. Entry' = Entry
    BY DEF Entry
  <2>4. QED
    BY <2>1, <2>2, <2>3
<1>4. Shape'
  BY <1>1, <1>2, <1>3 DEF PipelineInv, Shape
<1>5. Progress'
  BY <1>2 DEF PipelineInv, Progress
<1>6. Outcome'
  BY OutcomeStays DEF PipelineInv
<1>7. ASSUME NEW m \in 1 .. 4 PROVE TableHolds(m)'
  <2>1. PICK u \in Table : u = Tables[m]
    BY TheTables
  <2>2. ReadTo(m)' = Len(files[u]) /\ ReadTo(m) = Len(files[u])
    BY <2>1 DEF ReadTo
  \* The table its references are to is not the one at hand, or is not needed.
  <2>3. ASSUME m <= n, m # 1 PROVE stored'[RefersTo[u]] = stored[RefersTo[u]]
    <3>1. m \in 2 .. 4
      BY <2>3
    <3>2. PICK j \in 1 .. m - 1 : RefersTo[u] = Tables[j]
      BY <2>1, <3>1, TheTables
    <3>3. j \in 1 .. 4 /\ j # n
      BY <2>3, <3>1
    <3>4. Tables[j] \in Table \ {t}
      BY <3>3, TheTables
    <3>5. QED
      BY <3>2, <3>4
  <2>4. ASSUME m = 1
        PROVE  \A acc, c, fate : JudgedOf(u, acc, c, stored'[RefersTo[u]], fate)
                                   = JudgedOf(u, acc, c, stored[RefersTo[u]], fate)
    <3>1. u = "customers"
      BY <2>1, <2>4, TheTables
    <3>2. QED
      BY <3>1 DEF JudgedOf, Judged
  <2>5. ASSUME m <= n, NEW c, NEW q, NEW st,
               TableOK(u, files[u], Len(files[u]), accepted[u], duplicates[u], q, st, c, stored[RefersTo[u]])
        PROVE  TableOK(u, files[u], Len(files[u]), accepted[u], duplicates[u], q, st, c, stored'[RefersTo[u]])
    <3>1. CASE m = 1
      <4>1. \A fate : JudgedOf(u, accepted[u], c, stored'[RefersTo[u]], fate)
                        = JudgedOf(u, accepted[u], c, stored[RefersTo[u]], fate)
        BY <2>4, <3>1
      <4>2. QED
        BY ONLY <2>5, <4>1, OtherParent
    <3>2. CASE m # 1
      <4>1. stored'[RefersTo[u]] = stored[RefersTo[u]]
        BY <2>3, <2>5, <3>2
      <4>2. QED
        BY ONLY <2>5, <4>1
    <3>3. QED
      BY <3>1, <3>2
  <2>6. CASE m = n
    <3>1. JudgedTo(m)' = at.row /\ u = t
      BY <1>2, <2>1, <2>6 DEF JudgedTo
    <3>2. TableOK(u, files[u], Len(files[u]), accepted[u], duplicates[u], quarantine', stored'[u],
                  at.row, stored'[RefersTo[u]])
      <4>1. m <= n
        BY <2>6
      <4>2. TableOK(u, files[u], Len(files[u]), accepted[u], duplicates[u], quarantine', stored'[u],
                    at.row, stored[RefersTo[u]])
        BY <3>1
      <4>3. QED
        BY <2>5, <4>1, <4>2, SMTT(30)
    <3>3. QED
      BY <2>1, <2>2, <3>1, <3>2 DEF TableHolds
  <2>7. CASE m # n
    <3>1. u # t
      BY <2>1, <2>7, TheTables
    <3>2. JudgedTo(m)' = JudgedTo(m)
      BY <1>2, <2>7 DEF JudgedTo
    <3>3. PICK c : c = JudgedTo(m)
      OBVIOUS
    <3>4. TableOK(u, files[u], Len(files[u]), accepted[u], duplicates[u], quarantine, stored[u], c,
                  stored[RefersTo[u]])
      BY <2>1, <2>2, <3>3 DEF PipelineInv, TableHolds
    <3>5. quarantine \in Seq(Entry)
      BY DEF PipelineInv, Shape
    <3>6. TableOK(u, files[u], Len(files[u]), accepted[u], duplicates[u], Append(quarantine, e), stored[u],
                  c, stored[RefersTo[u]])
      BY <3>1, <3>4, <3>5, OtherTable
    <3>7. TableOK(u, files[u], Len(files[u]), accepted[u], duplicates[u], quarantine', stored[u], c,
                  stored[RefersTo[u]])
      BY <3>4, <3>6
    <3>8. TableOK(u, files[u], Len(files[u]), accepted[u], duplicates[u], quarantine', stored[u], c,
                  stored'[RefersTo[u]])
      <4>1. CASE m < n
        BY <2>5, <3>7, <4>1
      <4>2. CASE m > n
        <5>1. c = 0
          BY <3>3, <4>2 DEF JudgedTo
        <5>2. QED
          BY <3>7, <5>1, ParentIsLater
      <4>3. QED
        BY <2>7, <4>1, <4>2
    <3>9. stored'[u] = stored[u]
      BY <3>1
    <3>10. QED
      BY <2>1, <2>2, <3>2, <3>3, <3>8, <3>9 DEF TableHolds
  <2>8. QED
    BY <2>6, <2>7
<1>8. QED
  BY <1>4, <1>5, <1>6, <1>7 DEF PipelineInv

-----------------------------------------------------------------------------
(* validate_records.                                                       *)

LEMMA FateOfRow ==
    ASSUME NEW rows, NEW m \in Nat, NEW s, SeenOK(rows, m, s),
           NEW r, r = Clean(rows[m + 1]), r.key # None
    PROVE  /\ r.key \in DOMAIN s =>
                 \E j \in 1 .. m : FirstIn(rows, m + 1) = j /\ s[r.key] = Clean(rows[j])
           /\ r.key \notin DOMAIN s =>
                 /\ FirstIn(rows, m + 1) = m + 1
                 /\ \A i \in 1 .. m : Clean(rows[i]).key # r.key
<1>1. ASSUME r.key \in DOMAIN s
      PROVE  \E j \in 1 .. m : FirstIn(rows, m + 1) = j /\ s[r.key] = Clean(rows[j])
  <2>1. PICK j \in 1 .. m : /\ Clean(rows[j]).key = r.key /\ s[r.key] = Clean(rows[j])
                            /\ \A i \in 1 .. j - 1 : Clean(rows[i]).key # r.key
    BY <1>1 DEF SeenOK
  <2>2. j \in 1 .. m + 1
    OBVIOUS
  <2>3. IsFirst(rows, m + 1, j)
    BY <2>1, <2>2 DEF IsFirst
  <2>4. FirstIn(rows, m + 1) = j
    BY <2>3, FirstIsChosen
  <2>5. QED
    BY <2>1, <2>4
<1>2. ASSUME r.key \notin DOMAIN s
      PROVE  /\ FirstIn(rows, m + 1) = m + 1
             /\ \A i \in 1 .. m : Clean(rows[i]).key # r.key
  <2>1. \A i \in 1 .. m : Clean(rows[i]).key # r.key
    BY <1>2 DEF SeenOK
  <2>2. m + 1 \in 1 .. m + 1 /\ (m + 1) - 1 = m
    OBVIOUS
  <2>3. IsFirst(rows, m + 1, m + 1)
    BY <2>1, <2>2 DEF IsFirst
  <2>4. QED
    BY <2>1, <2>3, FirstIsChosen
<1>3. QED
  BY <1>1, <1>2

LEMMA SeenGrows ==
    ASSUME NEW rows, NEW m \in Nat, NEW s, SeenOK(rows, m, s), NEW r, r = Clean(rows[m + 1])
    PROVE  /\ r.key = None \/ r.key \in DOMAIN s => SeenOK(rows, m + 1, s)
           /\ r.key # None /\ r.key \notin DOMAIN s =>
                 SeenOK(rows, m + 1, [k \in DOMAIN s \cup {r.key} |-> IF k = r.key THEN r ELSE s[k]])
<1>1. \A i : i \in 1 .. m + 1 <=> i \in 1 .. m \/ i = m + 1
  OBVIOUS
<1>2. {Clean(rows[i]).key : i \in 1 .. m + 1} = {Clean(rows[i]).key : i \in 1 .. m} \cup {r.key}
  BY <1>1
<1>3. ASSUME r.key = None \/ r.key \in DOMAIN s PROVE SeenOK(rows, m + 1, s)
  <2>1. DOMAIN s = {Clean(rows[i]).key : i \in 1 .. m + 1} \ {None}
    BY <1>2, <1>3 DEF SeenOK
  <2>2. QED
    BY <1>1, <2>1 DEF SeenOK
<1>4. ASSUME r.key # None, r.key \notin DOMAIN s
      PROVE  SeenOK(rows, m + 1, [k \in DOMAIN s \cup {r.key} |-> IF k = r.key THEN r ELSE s[k]])
  <2> DEFINE more == [k \in DOMAIN s \cup {r.key} |-> IF k = r.key THEN r ELSE s[k]]
  <2>1. DOMAIN more = {Clean(rows[i]).key : i \in 1 .. m + 1} \ {None}
    BY <1>2, <1>4 DEF SeenOK
  <2>2. ASSUME NEW k \in DOMAIN more
        PROVE  \E j \in 1 .. m + 1 : /\ Clean(rows[j]).key = k /\ more[k] = Clean(rows[j])
                                     /\ \A i \in 1 .. j - 1 : Clean(rows[i]).key # k
    <3>1. CASE k = r.key
      <4>1. \A i \in 1 .. m : Clean(rows[i]).key # k
        BY <1>4, <3>1 DEF SeenOK
      <4>2. m + 1 \in 1 .. m + 1 /\ (m + 1) - 1 = m
        OBVIOUS
      <4>3. Clean(rows[m + 1]).key = k /\ more[k] = Clean(rows[m + 1])
        BY <3>1
      <4>4. QED
        BY <4>1, <4>2, <4>3
    <3>2. CASE k # r.key
      <4>1. k \in DOMAIN s /\ more[k] = s[k]
        BY <2>2, <3>2
      <4>2. QED
        BY <1>1, <4>1 DEF SeenOK
    <3>3. QED
      BY <3>1, <3>2
  <2> HIDE DEF more
  <2>3. SeenOK(rows, m + 1, more)
    BY <2>1, <2>2 DEF SeenOK
  <2>4. QED
    BY <2>3 DEF more
<1>5. QED
  BY <1>3, <1>4

\* The row at hand, and what there is of its table.
LEMMA TheRow ==
    ASSUME PipelineInv, Reading, NEW n, n = at.table, NEW t, t = Tables[n], NEW m, m = at.row - 1
    PROVE  /\ n \in 1 .. 4 /\ t \in Table /\ m \in Nat /\ at.row = m + 1 /\ m < Len(files[t])
           /\ Len(files[t]) \in Nat /\ phase = "read" /\ Row = Clean(files[t][m + 1]) /\ T = t
           /\ SeenOK(files[t], m, seen)
           /\ TableOK(t, files[t], m, accepted[t], duplicates[t], quarantine, stored[t], 0,
                      stored[RefersTo[t]])
           /\ \A number \in Nat, reason \in Reasons :
                 [table |-> t, number |-> number, reason |-> reason, record |-> Row] \in Entry
           /\ quarantine \in Seq(Entry)
<1>1. n \in 1 .. 4 /\ at.row \in Nat \ {0} /\ quarantine \in Seq(Entry)
  BY DEF PipelineInv, Shape
<1>2. t \in Table
  BY <1>1, TheTables
<1>3. m \in Nat /\ at.row = m + 1
  BY <1>1
<1>4. T = t /\ phase = "read" /\ at.row \in DOMAIN files[t]
  BY DEF T, Reading
<1>5. Len(files[t]) \in Nat /\ DOMAIN files[t] = 1 .. Len(files[t])
  BY <1>2, TheFiles DEF PipelineInv
<1>6. m < Len(files[t])
  BY <1>3, <1>4, <1>5
<1>7. Row = Clean(files[t][m + 1])
  BY <1>3, <1>4 DEF Row
<1>8. SeenOK(files[t], m, seen)
  BY <1>4 DEF PipelineInv, Progress
<1>9. ReadTo(n) = m /\ JudgedTo(n) = 0
  BY <1>1, <1>4 DEF ReadTo, JudgedTo
<1>10. TableHolds(n)
  BY <1>1 DEF PipelineInv
<1>11. TableOK(t, files[t], m, accepted[t], duplicates[t], quarantine, stored[t], 0, stored[RefersTo[t]])
  BY <1>9, <1>10 DEF TableHolds
<1>12. Row \in UNION {Cleared(files[u]) : u \in Table}
  <2>1. Row \in Cleared(files[t])
    BY <1>3, <1>4, <1>5, <1>7 DEF Cleared
  <2>2. QED
    BY <1>2, <2>1
<1>13. \A number \in Nat, reason \in Reasons :
          [table |-> t, number |-> number, reason |-> reason, record |-> Row] \in Entry
  BY <1>2, <1>12 DEF Entry
<1>14. QED
  BY <1>1, <1>2, <1>3, <1>4, <1>5, <1>6, <1>7, <1>8, <1>11, <1>13

\* Its entry in the quarantine, for a reason that reading gives.
LEMMA RefusedRow ==
    ASSUME PipelineInv, Reading, NEW t, t = T, NEW i, i = at.row,
           NEW reason \in ReadReasons, ReadFate(t, files[t], i) = reason,
           quarantine' = Refused(at.row, reason, Row), NextRow, SeenOK(files[t], i, seen'),
           UNCHANGED <<files, manifest, phase, accepted, duplicates, stored, report, context, case>>
    PROVE  PipelineInv'
<1>n. PICK n : n = at.table
  OBVIOUS
<1>t. t = Tables[n]
  BY <1>n DEF T
<1>m. PICK m : m = at.row - 1
  OBVIOUS
<1>1. /\ n \in 1 .. 4 /\ t \in Table /\ m \in Nat /\ at.row = m + 1 /\ m < Len(files[t])
      /\ Len(files[t]) \in Nat /\ phase = "read" /\ Row = Clean(files[t][m + 1])
      /\ TableOK(t, files[t], m, accepted[t], duplicates[t], quarantine, stored[t], 0, stored[RefersTo[t]])
      /\ \A number \in Nat, why \in Reasons :
            [table |-> t, number |-> number, reason |-> why, record |-> Row] \in Entry
      /\ quarantine \in Seq(Entry)
  BY <1>n, <1>t, <1>m, TheRow
<1>e. PICK e : e = [table |-> t, number |-> at.row, reason |-> reason, record |-> Row]
  OBVIOUS
<1>2. e \in Entry /\ e.table = t /\ e.reason = reason /\ e.record = Clean(files[t][m + 1])
  <2>1. at.row \in Nat /\ reason \in Reasons
    BY <1>1 DEF Reasons
  <2>2. QED
    BY <1>1, <1>e, <2>1
<1>3. quarantine' = Append(quarantine, e)
  BY <1>1, <1>e DEF Refused
<1>f. ReadFate(t, files[t], m + 1) = e.reason
  BY <1>1, <1>2
<1>4. TableOK(t, files[t], m + 1, accepted[t], duplicates[t], Append(quarantine, e), stored[t], 0,
              stored[RefersTo[t]])
  BY <1>1, <1>2, <1>f, ReadRefused
<1>5. /\ accepted = [u \in Table |-> accepted[u]] /\ duplicates = [u \in Table |-> duplicates[u]]
  BY DEF PipelineInv, Shape
<1>6. SeenOK(files[t], at.row, seen')
  OBVIOUS
<1>7. TableOK(t, files[t], at.row, accepted'[t], duplicates'[t], quarantine', stored[t], 0,
              stored[RefersTo[t]])
  BY <1>1, <1>3, <1>4
<1>8. QED
  BY <1>n, <1>t, <1>1, <1>2, <1>3, <1>5, <1>6, <1>7, ReadAdvances DEF NextRow

LEMMA MissingKeyKeeps == PipelineInv /\ MissingKey => PipelineInv'
<1> SUFFICES ASSUME PipelineInv, MissingKey PROVE PipelineInv'
  OBVIOUS
<1>t. PICK t, m : t = T /\ m = at.row - 1
  OBVIOUS
<1>1. Reading /\ Row.key = None
  BY DEF MissingKey
<1>2. /\ m \in Nat /\ at.row = m + 1 /\ Row = Clean(files[t][m + 1]) /\ SeenOK(files[t], m, seen)
  BY <1>t, <1>1, TheRow DEF T
<1>3. ReadFate(t, files[t], at.row) = "missing_primary_key"
  BY <1>1, <1>2 DEF ReadFate
<1>4. SeenOK(files[t], at.row, seen')
  <2>1. SeenOK(files[t], m + 1, seen)
    BY <1>1, <1>2, SeenGrows
  <2>2. QED
    BY <1>2, <2>1 DEF MissingKey
<1>5. "missing_primary_key" \in ReadReasons
  BY DEF ReadReasons
<1>6. QED
  BY <1>t, <1>1, <1>3, <1>4, <1>5, RefusedRow DEF MissingKey

LEMMA KeyConflictKeeps == PipelineInv /\ KeyConflict => PipelineInv'
<1> SUFFICES ASSUME PipelineInv, KeyConflict PROVE PipelineInv'
  OBVIOUS
<1>t. PICK t, m : t = T /\ m = at.row - 1
  OBVIOUS
<1>1. /\ Reading /\ Row.key # None /\ Row.key \in DOMAIN seen /\ seen[Row.key] # Row
  BY DEF KeyConflict, Repeats, SameRecord
<1>2. /\ m \in Nat /\ at.row = m + 1 /\ Row = Clean(files[t][m + 1]) /\ SeenOK(files[t], m, seen)
  BY <1>t, <1>1, TheRow DEF T
<1>3. ReadFate(t, files[t], m + 1) = "duplicate_key_conflict"
  <2>r. PICK rows, r : rows = files[t] /\ r = Row
    OBVIOUS
  <2>s. SeenOK(rows, m, seen) /\ m \in Nat /\ r = Clean(rows[m + 1])
    BY <1>2, <2>r
  <2>k. r.key # None /\ r.key \in DOMAIN seen
    BY <1>1, <2>r
  <2>f. \E j \in 1 .. m : FirstIn(rows, m + 1) = j /\ seen[r.key] = Clean(rows[j])
    BY <2>s, <2>k, FateOfRow
  <2>1. PICK j \in 1 .. m : FirstIn(files[t], m + 1) = j /\ seen[Row.key] = Clean(files[t][j])
    BY <2>f, <2>r
  <2>2. j # m + 1
    BY <1>2
  <2>3. QED
    BY <1>1, <1>2, <2>1, <2>2 DEF ReadFate
<1>4. SeenOK(files[t], at.row, seen')
  <2>1. SeenOK(files[t], m + 1, seen)
    BY <1>1, <1>2, SeenGrows
  <2>2. QED
    BY <1>2, <2>1 DEF KeyConflict
<1>5. "duplicate_key_conflict" \in ReadReasons
  BY DEF ReadReasons
<1>6. QED
  BY <1>t, <1>1, <1>2, <1>3, <1>4, <1>5, RefusedRow DEF KeyConflict

LEMMA ExactDuplicateKeeps == PipelineInv /\ ExactDuplicate => PipelineInv'
<1> SUFFICES ASSUME PipelineInv, ExactDuplicate PROVE PipelineInv'
  OBVIOUS
<1>n. PICK n : n = at.table
  OBVIOUS
<1>t. PICK t, m : t = Tables[n] /\ m = at.row - 1
  OBVIOUS
<1>1. /\ Reading /\ Row.key # None /\ Row.key \in DOMAIN seen /\ seen[Row.key] = Row
  BY DEF ExactDuplicate, Repeats, SameRecord
<1>2. /\ n \in 1 .. 4 /\ t \in Table /\ m \in Nat /\ at.row = m + 1 /\ m < Len(files[t])
      /\ Len(files[t]) \in Nat /\ phase = "read" /\ Row = Clean(files[t][m + 1]) /\ T = t
      /\ SeenOK(files[t], m, seen)
      /\ TableOK(t, files[t], m, accepted[t], duplicates[t], quarantine, stored[t], 0, stored[RefersTo[t]])
      /\ \A number \in Nat, why \in Reasons :
            [table |-> t, number |-> number, reason |-> why, record |-> Row] \in Entry
      /\ quarantine \in Seq(Entry)
  BY <1>n, <1>t, <1>1, TheRow
<1>3. ReadFate(t, files[t], m + 1) = "duplicate"
  <2>1. PICK j \in 1 .. m : FirstIn(files[t], m + 1) = j /\ seen[Row.key] = Clean(files[t][j])
    BY <1>1, <1>2, FateOfRow
  <2>2. j # m + 1
    BY <1>2
  <2>3. QED
    BY <1>1, <1>2, <2>1, <2>2 DEF ReadFate
<1>4. SeenOK(files[t], at.row, seen')
  <2>1. SeenOK(files[t], m + 1, seen)
    BY <1>1, <1>2, SeenGrows
  <2>2. QED
    BY <1>2, <2>1 DEF ExactDuplicate
<1>5. PICK d : d = duplicates[t]
  OBVIOUS
<1>6. TableOK(t, files[t], m + 1, accepted[t], d + 1, quarantine, stored[t], 0, stored[RefersTo[t]])
  BY <1>2, <1>3, <1>5, ReadRepeated
<1>7. PICK e \in Entry : e.table = t
  <2>1. [table |-> t, number |-> 0, reason |-> "orphan_reference", record |-> Row] \in Entry
    BY <1>2 DEF Reasons
  <2>2. QED
    BY <2>1
<1>8. /\ accepted = [u \in Table |-> accepted[u]] /\ duplicates = [u \in Table |-> duplicates[u]]
  BY DEF PipelineInv, Shape
<1>9. duplicates' = [duplicates EXCEPT ![t] = @ + 1]
  BY <1>2 DEF ExactDuplicate
<1>10. /\ duplicates' = [u \in Table |-> duplicates'[u]] /\ duplicates'[t] = d + 1
       /\ \A u \in Table \ {t} : duplicates'[u] = duplicates[u]
  BY <1>2, <1>5, <1>8, <1>9
<1>11. TableOK(t, files[t], at.row, accepted'[t], duplicates'[t], quarantine', stored[t], 0,
               stored[RefersTo[t]])
  BY <1>2, <1>6, <1>10 DEF ExactDuplicate
<1>12. QED
  BY <1>n, <1>t, <1>2, <1>4, <1>7, <1>8, <1>10, <1>11, ReadAdvances, ZenonT(60) DEF ExactDuplicate, NextRow

LEMMA FirstOfItsKeyKeeps == PipelineInv /\ FirstOfItsKey => PipelineInv'
<1> SUFFICES ASSUME PipelineInv, FirstOfItsKey PROVE PipelineInv'
  OBVIOUS
<1>n. PICK n : n = at.table
  OBVIOUS
<1>t. PICK t, m, r : t = Tables[n] /\ m = at.row - 1 /\ r = Row
  OBVIOUS
<1>1. /\ Reading /\ r.key # None /\ r.key \notin DOMAIN seen
  BY <1>t DEF FirstOfItsKey, Repeats
<1>2. /\ n \in 1 .. 4 /\ t \in Table /\ m \in Nat /\ at.row = m + 1 /\ m < Len(files[t])
      /\ Len(files[t]) \in Nat /\ phase = "read" /\ r = Clean(files[t][m + 1]) /\ T = t
      /\ SeenOK(files[t], m, seen)
      /\ TableOK(t, files[t], m, accepted[t], duplicates[t], quarantine, stored[t], 0, stored[RefersTo[t]])
      /\ \A number \in Nat, why \in Reasons :
            [table |-> t, number |-> number, reason |-> why, record |-> r] \in Entry
      /\ quarantine \in Seq(Entry)
  BY <1>n, <1>t, <1>1, TheRow
<1>3. /\ FirstIn(files[t], m + 1) = m + 1
      /\ \A i \in 1 .. m : Clean(files[t][i]).key # r.key
  <2>r. PICK rows : rows = files[t]
    OBVIOUS
  <2>s. SeenOK(rows, m, seen) /\ m \in Nat /\ r = Clean(rows[m + 1])
    BY <1>2, <2>r
  <2>f. FirstIn(rows, m + 1) = m + 1 /\ \A i \in 1 .. m : Clean(rows[i]).key # r.key
    BY <1>1, <2>s, FateOfRow
  <2>1. QED
    BY <2>f, <2>r
<1>4. SeenOK(files[t], at.row, seen')
  <2>1. PICK more : more = [k \in DOMAIN seen \cup {r.key} |-> IF k = r.key THEN r ELSE seen[k]]
    OBVIOUS
  <2>r. PICK rows : rows = files[t]
    OBVIOUS
  <2>s. SeenOK(rows, m, seen) /\ m \in Nat /\ r = Clean(rows[m + 1])
    BY <1>2, <2>r
  <2>g. SeenOK(rows, m + 1, more)
    BY <1>1, <2>1, <2>s, SeenGrows
  <2>2. SeenOK(files[t], m + 1, more)
    BY <2>g, <2>r
  <2>3. seen' = more
    BY <1>t, <2>1 DEF FirstOfItsKey
  <2>4. QED
    BY <1>2, <2>2, <2>3
<1>5. CASE Valid(t, r)
  <2>1. ReadFate(t, files[t], m + 1) = "accepted"
    BY <1>1, <1>2, <1>3, <1>5 DEF ReadFate
  <2>2. TableOK(t, files[t], m + 1, Append(accepted[t], r), duplicates[t], quarantine, stored[t], 0,
                stored[RefersTo[t]])
    BY <1>2, <1>3, <2>1, ReadAccepted
  <2>3. accepted' = [accepted EXCEPT ![t] = Append(@, r)] /\ UNCHANGED <<quarantine, duplicates>>
    BY <1>t, <1>2, <1>5 DEF FirstOfItsKey
  <2>4. /\ accepted = [u \in Table |-> accepted[u]] /\ duplicates = [u \in Table |-> duplicates[u]]
    BY DEF PipelineInv, Shape
  <2>5. /\ accepted' = [u \in Table |-> accepted'[u]] /\ accepted'[t] = Append(accepted[t], r)
        /\ \A u \in Table \ {t} : accepted'[u] = accepted[u]
    BY <1>2, <2>3, <2>4
  <2>6. TableOK(t, files[t], at.row, accepted'[t], duplicates'[t], quarantine', stored[t], 0,
                stored[RefersTo[t]])
    BY <1>2, <2>2, <2>3, <2>5
  <2>7. PICK e \in Entry : e.table = t
    <3>1. [table |-> t, number |-> 0, reason |-> "orphan_reference", record |-> r] \in Entry
      BY <1>2 DEF Reasons
    <3>2. QED
      BY <3>1
  <2>8. /\ UNCHANGED <<files, manifest, phase, stored, report, context, case>>
        /\ at' = [at EXCEPT !.row = @ + 1]
    BY DEF FirstOfItsKey, NextRow
  <2>9. /\ n \in 1 .. 4 /\ phase = "read" /\ quarantine' = quarantine /\ duplicates' = duplicates
        /\ SeenOK(files[t], at.row, seen') /\ duplicates' = [u \in Table |-> duplicates'[u]]
    BY <1>2, <1>4, <2>3, <2>4
  <2>10. \A u \in Table \ {t} : accepted'[u] = accepted[u] /\ duplicates'[u] = duplicates[u]
    BY <2>5, <2>9
  <2>11. QED
    BY <1>n, <1>t, <2>5, <2>6, <2>7, <2>8, <2>9, <2>10, ReadAdvances
<1>6. CASE ~Valid(t, r)
  <2>1. ReadFate(t, files[t], m + 1) = "schema_validation_failed"
    BY <1>1, <1>2, <1>3, <1>6 DEF ReadFate
  <2>2. "schema_validation_failed" \in ReadReasons
    BY DEF ReadReasons
  <2>3. accepted' = accepted /\ quarantine' = Refused(at.row, "schema_validation_failed", Row)
    BY <1>t, <1>2, <1>6 DEF FirstOfItsKey
  <2>4. QED
    BY <1>1, <1>2, <1>4, <2>1, <2>2, <2>3, RefusedRow DEF FirstOfItsKey
<1>7. QED
  BY <1>5, <1>6

-----------------------------------------------------------------------------
(* From one table to the next, and from one loop to the other.             *)

LEMMA TableStays ==
    ASSUME NEW n \in 1 .. 4, TableHolds(n),
           UNCHANGED <<files, accepted, duplicates, quarantine, stored>>,
           ReadTo(n)' = ReadTo(n), JudgedTo(n)' = JudgedTo(n)
    PROVE  TableHolds(n)'
BY DEF TableHolds

LEMMA ShapeStays ==
    ASSUME Shape, UNCHANGED <<files, manifest, accepted, duplicates, quarantine, stored>>,
           phase' \in {"verify", "read", "consolidate", "done", "raised"},
           at' = at \/ \E n \in 1 .. 4 : at' = [table |-> n, row |-> 1]
    PROVE  Shape'
<1>1. Entry' = Entry
  BY DEF Entry
<1>2. CASE at' = at
  BY <1>1, <1>2 DEF Shape
<1>3. CASE \E n \in 1 .. 4 : at' = [table |-> n, row |-> 1]
  BY <1>1, <1>3 DEF Shape
<1>4. QED
  BY <1>2, <1>3

\* The end of a run that fails.
LEMMA FailKeeps ==
    ASSUME PipelineInv, phase \in {"verify", "read"}, Fail,
           UNCHANGED <<files, manifest, report, context, case>>
    PROVE  PipelineInv'
<1>1. phase' = "raised" /\ at' = at /\ UNCHANGED <<accepted, duplicates, quarantine, stored>>
  BY DEF Fail
<1>2. Shape'
  BY <1>1, ShapeStays DEF PipelineInv
<1>3. Progress'
  BY <1>1 DEF Progress
<1>4. Outcome'
  BY <1>1, OutcomeStays DEF PipelineInv
<1>5. ASSUME NEW n \in 1 .. 4 PROVE TableHolds(n)'
  <2>1. ReadTo(n)' = ReadTo(n) /\ JudgedTo(n)' = JudgedTo(n)
    BY <1>1 DEF ReadTo, JudgedTo
  <2>2. QED
    BY <1>1, <2>1, TableStays DEF PipelineInv
<1>6. QED
  BY <1>2, <1>3, <1>4, <1>5 DEF PipelineInv

LEMMA VerifyKeeps == PipelineInv /\ Verify => PipelineInv'
<1> SUFFICES ASSUME PipelineInv, Verify PROVE PipelineInv'
  OBVIOUS
<1>1. CASE manifest = "differ"
  BY <1>1, FailKeeps DEF Verify
<1>2. CASE manifest # "differ"
  <2>1. /\ phase = "verify" /\ phase' = "read"
        /\ UNCHANGED <<files, manifest, at, seen, accepted, duplicates, quarantine, stored, report,
                       context, case>>
    BY <1>2 DEF Verify
  <2>2. Shape'
    BY <2>1, ShapeStays DEF PipelineInv
  <2>3. Progress'
    <3>1. SeenOK(files[Tables[at.table]], at.row - 1, seen)
      BY <2>1 DEF PipelineInv, Progress
    <3>2. QED
      BY <1>2, <2>1, <3>1 DEF Progress
  <2>4. Outcome'
    BY <2>1, OutcomeStays DEF PipelineInv
  <2>5. ASSUME NEW n \in 1 .. 4 PROVE TableHolds(n)'
    <3>1. ReadTo(n)' = ReadTo(n) /\ JudgedTo(n)' = JudgedTo(n)
      BY <2>1 DEF ReadTo, JudgedTo
    <3>2. QED
      BY <2>1, <3>1, TableStays DEF PipelineInv
  <2>6. QED
    BY <2>2, <2>3, <2>4, <2>5 DEF PipelineInv
<1>3. QED
  BY <1>1, <1>2

LEMMA EndOfTableKeeps == PipelineInv /\ EndOfTable => PipelineInv'
<1> SUFFICES ASSUME PipelineInv, EndOfTable PROVE PipelineInv'
  OBVIOUS
<1>n. PICK n, t : n = at.table /\ t = Tables[n]
  OBVIOUS
<1>1. n \in 1 .. 4 /\ at.row \in Nat \ {0} /\ t \in Table
  BY <1>n, TheTables DEF PipelineInv, Shape
<1>2. /\ phase = "read" /\ at.row = Len(files[t]) + 1 /\ seen' = <<>>
      /\ UNCHANGED <<files, manifest, accepted, duplicates, quarantine, stored, report, context, case>>
  BY <1>n DEF EndOfTable, T
<1>3. Len(files[t]) \in Nat /\ at.row - 1 = Len(files[t])
  BY <1>1, <1>2, TheFiles DEF PipelineInv
<1>4. \A rows : SeenOK(rows, 0, <<>>)
  <2>1. DOMAIN <<>> = {}
    OBVIOUS
  <2>2. QED
    BY <2>1 DEF SeenOK
<1>5. manifest # "differ"
  BY <1>2 DEF PipelineInv, Progress
<1>6. CASE n = 4
  <2>1. phase' = "consolidate" /\ at' = [table |-> 1, row |-> 1]
    BY <1>n, <1>6, TheTables DEF EndOfTable
  <2>2. at'.table = 1 /\ at'.row = 1 /\ at'.row - 1 = 0
    BY <2>1
  <2>3. Shape'
    <3>1. 1 \in 1 .. 4
      OBVIOUS
    <3>2. QED
      BY <1>2, <2>1, <3>1, ShapeStays DEF PipelineInv
  <2>4. Progress'
    BY <1>2, <1>5, <2>1 DEF Progress
  <2>5. Outcome'
    BY <1>2, <2>1, OutcomeStays DEF PipelineInv
  <2>6. ASSUME NEW m \in 1 .. 4 PROVE TableHolds(m)'
    <3>1. ReadTo(m)' = Len(files[Tables[m]]) /\ JudgedTo(m)' = 0
      BY <1>2, <2>1, <2>2 DEF ReadTo, JudgedTo
    <3>2. JudgedTo(m) = 0
      BY <1>2 DEF JudgedTo
    <3>3. ReadTo(m) = Len(files[Tables[m]])
      <4>1. m < n \/ m = n
        BY <1>6
      <4>2. ReadTo(m) = IF m < n THEN Len(files[Tables[m]]) ELSE IF m = n THEN at.row - 1 ELSE 0
        BY <1>n, <1>2 DEF ReadTo
      <4>3. QED
        BY <1>n, <1>3, <4>1, <4>2
    <3>4. QED
      BY <1>2, <3>1, <3>2, <3>3, TableStays DEF PipelineInv
  <2>7. QED
    BY <2>3, <2>4, <2>5, <2>6 DEF PipelineInv
<1>7. CASE n # 4
  <2>1. phase' = "read" /\ at' = [table |-> n + 1, row |-> 1]
    BY <1>n, <1>2, <1>7, TheTables DEF EndOfTable
  <2>2. at'.table = n + 1 /\ at'.row = 1 /\ at'.row - 1 = 0 /\ n + 1 \in 1 .. 4
    BY <1>1, <1>7, <2>1
  <2>3. Shape'
    BY <1>2, <2>1, <2>2, ShapeStays DEF PipelineInv
  <2>4. Progress'
    BY <1>2, <1>4, <1>5, <2>1, <2>2 DEF Progress
  <2>5. Outcome'
    BY <1>2, <2>1, OutcomeStays DEF PipelineInv
  <2>6. ASSUME NEW m \in 1 .. 4 PROVE TableHolds(m)'
    <3>1. JudgedTo(m)' = 0 /\ JudgedTo(m) = 0
      BY <1>2, <2>1 DEF JudgedTo
    <3>2. ReadTo(m)' = IF m < n + 1 THEN Len(files[Tables[m]]) ELSE 0
      BY <1>2, <2>1, <2>2 DEF ReadTo
    <3>3. ReadTo(m) = IF m < n THEN Len(files[Tables[m]]) ELSE IF m = n THEN at.row - 1 ELSE 0
      BY <1>n, <1>2 DEF ReadTo
    <3>4. ReadTo(m)' = ReadTo(m)
      <4>1. m < n + 1 <=> m < n \/ m = n
        BY <1>1
      <4>2. QED
        BY <1>n, <1>3, <3>2, <3>3, <4>1
    <3>5. QED
      BY <1>2, <3>1, <3>4, TableStays DEF PipelineInv
  <2>7. QED
    BY <2>3, <2>4, <2>5, <2>6 DEF PipelineInv
<1>8. QED
  BY <1>6, <1>7

-----------------------------------------------------------------------------
(* Consolidation.                                                          *)

LEMMA TheCandidate ==
    ASSUME PipelineInv, Consolidating, NEW n, n = at.table, NEW t, t = Tables[n], NEW c, c = at.row - 1
    PROVE  /\ n \in 1 .. 4 /\ t \in Table /\ c \in Nat /\ at.row = c + 1 /\ c < Len(accepted[t])
           /\ phase = "consolidate" /\ Candidate = accepted[t][c + 1] /\ T = t
           /\ TableOK(t, files[t], Len(files[t]), accepted[t], duplicates[t], quarantine, stored[t],
                      c, stored[RefersTo[t]])
           /\ \A number \in Nat, reason \in Reasons :
                 [table |-> t, number |-> number, reason |-> reason, record |-> Candidate] \in Entry
           /\ quarantine \in Seq(Entry)
<1>1. n \in 1 .. 4 /\ at.row \in Nat \ {0} /\ quarantine \in Seq(Entry)
  BY DEF PipelineInv, Shape
<1>2. t \in Table
  BY <1>1, TheTables
<1>3. c \in Nat /\ at.row = c + 1
  BY <1>1
<1>4. T = t /\ phase = "consolidate" /\ at.row \in DOMAIN accepted[t]
  BY DEF T, Consolidating
<1>5. ReadTo(n) = Len(files[t]) /\ JudgedTo(n) = c
  BY <1>1, <1>4 DEF ReadTo, JudgedTo
<1>6. TableHolds(n)
  BY <1>1 DEF PipelineInv
<1>7. TableOK(t, files[t], Len(files[t]), accepted[t], duplicates[t], quarantine, stored[t], c,
              stored[RefersTo[t]])
  BY <1>5, <1>6 DEF TableHolds
<1>8. accepted[t] \in Seq(Cleared(files[t]))
  BY <1>7 DEF TableOK
<1>9. c < Len(accepted[t]) /\ accepted[t][at.row] \in Cleared(files[t])
  BY <1>3, <1>4, <1>8
<1>10. Candidate = accepted[t][c + 1]
  BY <1>3, <1>4 DEF Candidate
<1>11. Candidate \in UNION {Cleared(files[u]) : u \in Table}
  BY <1>2, <1>3, <1>9, <1>10
<1>12. \A number \in Nat, reason \in Reasons :
          [table |-> t, number |-> number, reason |-> reason, record |-> Candidate] \in Entry
  BY <1>2, <1>11 DEF Entry
<1>13. QED
  BY <1>1, <1>2, <1>3, <1>4, <1>7, <1>9, <1>10, <1>12

LEMMA JudgementOf ==
    ASSUME NEW t, NEW r
    PROVE  Judged(t, r, stored[RefersTo[t]]) = IF ~Known(t, r) THEN "orphan_reference"
                                               ELSE IF ~Usable(t, r) THEN "normalization_failed"
                                               ELSE "stored"
BY DEF Judged, Known

LEMMA KeepKeeps == PipelineInv /\ Keep => PipelineInv'
<1> SUFFICES ASSUME PipelineInv, Keep PROVE PipelineInv'
  OBVIOUS
<1>n. PICK n, t, c, r : n = at.table /\ t = Tables[n] /\ c = at.row - 1 /\ r = Candidate
  OBVIOUS
<1>0. Consolidating
  BY DEF Keep
<1>1. /\ n \in 1 .. 4 /\ t \in Table /\ c \in Nat /\ at.row = c + 1 /\ c < Len(accepted[t])
      /\ phase = "consolidate" /\ r = accepted[t][c + 1] /\ T = t
      /\ TableOK(t, files[t], Len(files[t]), accepted[t], duplicates[t], quarantine, stored[t],
                 c, stored[RefersTo[t]])
      /\ \A number \in Nat, reason \in Reasons :
            [table |-> t, number |-> number, reason |-> reason, record |-> Candidate] \in Entry
      /\ quarantine \in Seq(Entry)
  BY <1>n, <1>0, TheCandidate
<1>2. PICK e \in Entry : e.table = t
  <2>1. [table |-> t, number |-> 0, reason |-> "orphan_reference", record |-> Candidate] \in Entry
    BY <1>1 DEF Reasons
  <2>2. QED
    BY <2>1
<1>3. Judged(t, accepted[t][c + 1], stored[RefersTo[t]]) = "stored"
  <2>1. Known(t, r) /\ Usable(t, r)
    BY <1>n, <1>1 DEF Keep
  <2>2. QED
    BY <1>1, <2>1, JudgementOf
<1>4. TableOK(t, files[t], Len(files[t]), accepted[t], duplicates[t], quarantine,
              Append(stored[t], accepted[t][c + 1]), c + 1, stored[RefersTo[t]])
  BY <1>1, <1>3, ConsolidatedKept
<1>5. /\ UNCHANGED <<files, manifest, phase, accepted, duplicates, quarantine, context, case>>
      /\ at' = [at EXCEPT !.row = @ + 1]
      /\ stored' = [stored EXCEPT ![t] = Append(@, r)]
  BY <1>n, <1>1 DEF Keep, NextRow
<1>6. stored = [u \in Table |-> stored[u]]
  BY DEF PipelineInv, Shape
<1>7. /\ stored' = [u \in Table |-> stored'[u]] /\ \A u \in Table \ {t} : stored'[u] = stored[u]
      /\ stored'[t] = Append(stored[t], r)
  BY <1>1, <1>5, <1>6
<1>8. TableOK(t, files[t], Len(files[t]), accepted[t], duplicates[t], quarantine', stored'[t],
              at.row, stored[RefersTo[t]])
  BY <1>1, <1>4, <1>5, <1>7
<1>9. QED
  BY <1>n, <1>1, <1>2, <1>5, <1>7, <1>8, JudgingAdvances

LEMMA RefusedCandidate ==
    ASSUME PipelineInv, Consolidating, NEW t, t = T, NEW r, r = Candidate,
           NEW reason \in {"orphan_reference", "normalization_failed"},
           Judged(t, r, stored[RefersTo[t]]) = reason,
           quarantine' = Refused(0, reason, Candidate), NextRow,
           UNCHANGED <<files, manifest, phase, accepted, duplicates, stored, context, case>>
    PROVE  PipelineInv'
<1>n. PICK n, c : n = at.table /\ c = at.row - 1
  OBVIOUS
<1>t. t = Tables[n]
  BY <1>n DEF T
<1>1. /\ n \in 1 .. 4 /\ t \in Table /\ c \in Nat /\ at.row = c + 1 /\ c < Len(accepted[t])
      /\ phase = "consolidate" /\ r = accepted[t][c + 1]
      /\ TableOK(t, files[t], Len(files[t]), accepted[t], duplicates[t], quarantine, stored[t],
                 c, stored[RefersTo[t]])
      /\ \A number \in Nat, why \in Reasons :
            [table |-> t, number |-> number, reason |-> why, record |-> Candidate] \in Entry
      /\ quarantine \in Seq(Entry)
  BY <1>n, <1>t, TheCandidate
<1>e. PICK e : e = [table |-> t, number |-> 0, reason |-> reason, record |-> Candidate]
  OBVIOUS
<1>2. e \in Entry /\ e.table = t /\ e.reason = reason /\ e.record = accepted[t][c + 1]
  <2>1. reason \in Reasons
    BY DEF Reasons
  <2>2. QED
    BY <1>1, <1>e, <2>1
<1>3. quarantine' = Append(quarantine, e)
  BY <1>e DEF Refused
<1>4. e.reason = Judged(t, accepted[t][c + 1], stored[RefersTo[t]]) /\ e.reason # "stored"
  BY <1>1, <1>2
<1>5. TableOK(t, files[t], Len(files[t]), accepted[t], duplicates[t], Append(quarantine, e), stored[t],
              c + 1, stored[RefersTo[t]])
  BY <1>1, <1>2, <1>4, ConsolidatedRefused
<1>6. stored' = [u \in Table |-> stored'[u]] /\ \A u \in Table \ {t} : stored'[u] = stored[u]
  BY DEF PipelineInv, Shape
<1>7. TableOK(t, files[t], Len(files[t]), accepted[t], duplicates[t], quarantine', stored'[t],
              at.row, stored[RefersTo[t]])
  BY <1>1, <1>3, <1>5
<1>8. at' = [at EXCEPT !.row = @ + 1]
  BY DEF NextRow
<1>9. QED
  BY <1>n, <1>t, <1>1, <1>2, <1>3, <1>6, <1>7, <1>8, JudgingAdvances

LEMMA OrphanKeeps == PipelineInv /\ Orphan => PipelineInv'
<1> SUFFICES ASSUME PipelineInv, Orphan PROVE PipelineInv'
  OBVIOUS
<1>n. PICK t, r : t = T /\ r = Candidate
  OBVIOUS
<1>1. Judged(t, r, stored[RefersTo[t]]) = "orphan_reference"
  BY <1>n, JudgementOf DEF Orphan
<1>2. QED
  BY <1>n, <1>1, RefusedCandidate DEF Orphan

LEMMA UnusableKeeps == PipelineInv /\ Unusable => PipelineInv'
<1> SUFFICES ASSUME PipelineInv, Unusable PROVE PipelineInv'
  OBVIOUS
<1>n. PICK t, r : t = T /\ r = Candidate
  OBVIOUS
<1>1. Judged(t, r, stored[RefersTo[t]]) = "normalization_failed"
  BY <1>n, JudgementOf DEF Unusable
<1>2. QED
  BY <1>n, <1>1, RefusedCandidate DEF Unusable

LEMMA EndOfConsolidationKeeps == PipelineInv /\ EndOfConsolidation => PipelineInv'
<1> SUFFICES ASSUME PipelineInv, EndOfConsolidation PROVE PipelineInv'
  OBVIOUS
<1>n. PICK n, t : n = at.table /\ t = Tables[n]
  OBVIOUS
<1>1. n \in 1 .. 4 /\ at.row \in Nat \ {0} /\ t \in Table
  BY <1>n, TheTables DEF PipelineInv, Shape
<1>2. /\ phase = "consolidate" /\ at.row = Len(accepted[t]) + 1
      /\ UNCHANGED <<files, manifest, seen, accepted, duplicates, quarantine, stored, context, case>>
  BY <1>n DEF EndOfConsolidation, T
<1>3. Len(accepted[t]) \in Nat /\ at.row - 1 = Len(accepted[t])
  <2>1. TableHolds(n)
    BY <1>1 DEF PipelineInv
  <2>2. accepted[t] \in Seq(Cleared(files[t]))
    BY <1>n, <2>1 DEF TableHolds, TableOK
  <2>3. Len(accepted[t]) \in Nat
    BY <2>2
  <2>4. QED
    BY <1>2, <2>3
<1>5. manifest # "differ"
  BY <1>2 DEF PipelineInv, Progress
<1>6. CASE n = 4
  <2>1. phase' = "done" /\ at' = at /\ report' = Report
    BY <1>n, <1>6, TheTables DEF EndOfConsolidation
  <2>2. Shape'
    BY <1>2, <2>1, ShapeStays DEF PipelineInv
  <2>3. Progress'
    BY <1>n, <1>2, <1>5, <1>6, <2>1, TheTables DEF Progress
  <2>4. Outcome'
    <3>1. context = NoContext /\ context.state = "none" /\ case = NoCase
      BY <1>2 DEF PipelineInv, Outcome, NoContext
    <3>2. case.kind # "case" /\ CaseIsOfThePast
      BY <3>1, NoCaseYet
    <3>3. CaseIsOfThePast' /\ case'.kind # "case" /\ context' = NoContext /\ context'.state = "none"
      BY <1>2, <3>1, <3>2, CaseStays
    <3>4. /\ report'.rows_read = [u \in Table |-> Len(files'[u])]
          /\ report'.accepted = [u \in Table |-> Len(stored'[u])]
          /\ report'.duplicates = duplicates'
      BY <1>2, <2>1 DEF Report
    <3>5. QED
      BY <2>1, <3>3, <3>4 DEF Outcome, NoContext, NoCase
  <2>5. ASSUME NEW m \in 1 .. 4 PROVE TableHolds(m)'
    <3>1. ReadTo(m)' = ReadTo(m) /\ JudgedTo(m)' = JudgedTo(m)
      BY <1>2, <2>1 DEF ReadTo, JudgedTo
    <3>2. QED
      BY <1>2, <3>1, TableStays DEF PipelineInv
  <2>6. QED
    BY <2>2, <2>3, <2>4, <2>5 DEF PipelineInv
<1>7. CASE n # 4
  <2>1. phase' = "consolidate" /\ at' = [table |-> n + 1, row |-> 1]
    BY <1>n, <1>2, <1>7, TheTables DEF EndOfConsolidation
  <2>2. at'.table = n + 1 /\ at'.row = 1 /\ at'.row - 1 = 0 /\ n + 1 \in 1 .. 4
    BY <1>1, <1>7, <2>1
  <2>3. Shape'
    BY <1>2, <2>1, <2>2, ShapeStays DEF PipelineInv
  <2>4. Progress'
    BY <1>2, <1>5, <2>1 DEF Progress
  <2>5. Outcome'
    BY <1>2, <2>1, OutcomeStays DEF PipelineInv
  <2>6. ASSUME NEW m \in 1 .. 4 PROVE TableHolds(m)'
    <3>1. ReadTo(m)' = ReadTo(m)
      BY <1>2, <2>1 DEF ReadTo
    <3>2. JudgedTo(m)' = IF m > n + 1 THEN 0 ELSE IF m = n + 1 THEN 0 ELSE Len(accepted[Tables[m]])
      BY <1>2, <2>1, <2>2 DEF JudgedTo
    <3>3. JudgedTo(m) = IF m > n THEN 0 ELSE IF m = n THEN at.row - 1 ELSE Len(accepted[Tables[m]])
      BY <1>n, <1>2 DEF JudgedTo
    <3>4. JudgedTo(m)' = JudgedTo(m)
      <4>1. m > n <=> m > n + 1 \/ m = n + 1
        BY <1>1
      <4>2. m = n => JudgedTo(m) = Len(accepted[Tables[m]]) /\ ~(m > n)
        BY <1>n, <1>1, <1>3, <3>3
      <4>3. QED
        BY <3>2, <3>3, <4>1, <4>2
    <3>5. QED
      BY <1>2, <3>1, <3>4, TableStays DEF PipelineInv
  <2>7. QED
    BY <2>3, <2>4, <2>5, <2>6 DEF PipelineInv
<1>8. QED
  BY <1>6, <1>7

LEMMA StartKeeps == PipelineInv /\ Start => PipelineInv'
<1> SUFFICES ASSUME PipelineInv, Start PROVE PipelineInv'
  OBVIOUS
<1>1. /\ phase = "done" /\ UNCHANGED <<files, manifest, phase, at, seen, accepted, duplicates,
                                       quarantine, stored, report, case>>
  BY DEF Start, loop
<1>2. Shape'
  BY <1>1, ShapeStays DEF PipelineInv
<1>3. Progress'
  BY <1>1 DEF PipelineInv, Progress
<1>4. Outcome'
  <2>1. /\ context'.state \in {"started", "refused", "raised"}
        /\ context'.state = "started" =>
              /\ quarantine = <<>> /\ stored["transactions"] # <<>>
              /\ context'.as_of = Latest(Elements(stored["transactions"]))
    BY DEF Start
  <2>2. CaseIsOfThePast'
    BY <1>1, CaseStays DEF PipelineInv, Outcome
  <2>3. Latest(Elements(stored["transactions"]))' = Latest(Elements(stored["transactions"]))
    BY <1>1
  <2>4. Elements(stored["transactions"])' = Elements(stored["transactions"])
    BY <1>1
  <2>5. QED
    BY <1>1, <2>1, <2>2, <2>3, <2>4 DEF PipelineInv, Outcome, NoCase
<1>5. ASSUME NEW n \in 1 .. 4 PROVE TableHolds(n)'
  <2>1. ReadTo(n)' = ReadTo(n) /\ JudgedTo(n)' = JudgedTo(n)
    BY <1>1 DEF ReadTo, JudgedTo
  <2>2. QED
    BY <1>1, <2>1, TableStays DEF PipelineInv
<1>6. QED
  BY <1>2, <1>3, <1>4, <1>5 DEF PipelineInv

-----------------------------------------------------------------------------
(* Cases.                                                                  *)

\* The elements of p are those of s at the places I, in the order of the keys.
InOrder(p, s, I, key) ==
    \A m, n \in DOMAIN p : m < n =>
        \E i, j \in I : /\ p[m] = s[i] /\ p[n] = s[j]
                        /\ key[i] < key[j] \/ (key[i] = key[j] /\ i < j)

\* What a filter leaves, and in what order.
LEMMA Picked ==
    ASSUME NEW S, NEW s \in Seq(S), NEW I \in SUBSET DOMAIN s, NEW key \in [I -> Int],
           NEW p, p = Pick(s, I, key)
    PROVE  p \in Seq(S) /\ Elements(p) = {s[i] : i \in I} /\ InOrder(p, s, I, key)
<1>1. /\ p \in Seq(S) /\ Len(p) = Cardinality(I) /\ Cardinality(I) \in Nat
      /\ \E place : Enumerates(place, I, key) /\ \A n \in 1 .. Cardinality(I) : p[n] = s[place[n]]
  BY PickIsOrdered
<1>2. PICK place : Enumerates(place, I, key) /\ \A n \in 1 .. Cardinality(I) : p[n] = s[place[n]]
  BY <1>1
<1>3. DOMAIN p = 1 .. Cardinality(I)
  BY <1>1
<1>4. \A n \in DOMAIN p : place[n] \in I
  BY <1>2, <1>3 DEF Enumerates
<1>5. Elements(p) \subseteq {s[i] : i \in I}
  BY <1>2, <1>3, <1>4 DEF Elements
<1>6. {s[i] : i \in I} \subseteq Elements(p)
  BY <1>2, <1>3 DEF Elements, Enumerates
<1>7. ASSUME NEW m \in DOMAIN p, NEW n \in DOMAIN p, m < n
      PROVE  \E i, j \in I : /\ p[m] = s[i] /\ p[n] = s[j]
                             /\ key[i] < key[j] \/ (key[i] = key[j] /\ i < j)
  BY <1>2, <1>3, <1>4, <1>7 DEF Enumerates
<1>8. QED
  BY <1>1, <1>5, <1>6, <1>7 DEF InOrder

LEMMA TimesAreFinite ==
    ASSUME NEW S, NEW s \in Seq(S), s # <<>>, \A r \in Elements(s) : r.time \in Int
    PROVE  /\ \E r \in Elements(s) : r.time = Latest(Elements(s))
           /\ \A r \in Elements(s) : r.time <= Latest(Elements(s))
<1> DEFINE N == {r.time : r \in Elements(s)}
<1>1. DOMAIN s = 1 .. Len(s) /\ Len(s) \in Nat /\ Len(s) # 0
  OBVIOUS
<1>2. N = {s[i].time : i \in 1 .. Len(s)}
  BY <1>1 DEF Elements
<1>3. N \in SUBSET Int /\ N # {}
  <2>1. 1 \in 1 .. Len(s)
    BY <1>1
  <2>2. QED
    BY <1>1, <2>1 DEF Elements
<1>4. IsFiniteSet(N)
  <2>1. IsFiniteSet(1 .. Len(s))
    BY <1>1, CardinalityUpTo
  <2> DEFINE f == [i \in 1 .. Len(s) |-> s[i].time]
  <2>2. f \in Surjection(1 .. Len(s), N)
    BY <1>2 DEF Surjection
  <2>3. QED
    BY <2>1, <2>2, FS_Surjection
<1>5. \E n \in N : \A m \in N : m <= n
  BY <1>3, <1>4, GreatestExists
<1>6. \E n \in N : \A r \in Elements(s) : r.time <= n
  BY <1>5
<1>7. Latest(Elements(s)) \in N /\ \A r \in Elements(s) : r.time <= Latest(Elements(s))
  BY <1>6 DEF Latest
<1>8. QED
  BY <1>7

\* It is enough to compare an earlier row with a later one.
LEMMA Apart ==
    ASSUME NEW S, NEW s \in Seq(S), \A m, n \in DOMAIN s : m < n => s[m].key # s[n].key
    PROVE  KeysApart(s)
<1> SUFFICES ASSUME NEW i \in DOMAIN s, NEW j \in DOMAIN s, s[i].key = s[j].key PROVE i = j
  BY DEF KeysApart
<1>1. i \in Int /\ j \in Int
  OBVIOUS
<1>2. ~(i < j) /\ ~(j < i)
  OBVIOUS
<1>3. QED
  BY <1>1, <1>2

\* The transactions of a customer: all of them, each once.
LEMMA TheHistory ==
    ASSUME NEW S, stored["transactions"] \in Seq(S), KeysApart(stored["transactions"]),
           \A r \in Elements(stored["transactions"]) : r.time \in Int,
           NEW c, NEW h, h = History(c)
    PROVE  /\ h \in Seq(S) /\ KeysApart(h)
           /\ Elements(h) = {r \in Elements(stored["transactions"]) : r.ref = c}
           /\ \A r \in Elements(h) : r.time \in Int
<1>1. PICK all : all = stored["transactions"]
  OBVIOUS
<1> DEFINE own == {i \in DOMAIN all : all[i].ref = c}
           key == [i \in own |-> all[i].time]
<1>2. h = Pick(all, own, key)
  BY <1>1 DEF History
<1>3. \A i \in own : all[i] \in Elements(all) /\ all[i].ref = c /\ all[i].time \in Int
  BY <1>1 DEF Elements
<1>4. key \in [own -> Int] /\ own \in SUBSET DOMAIN all /\ all \in Seq(S)
  BY <1>1, <1>3
<1>o. {all[i] : i \in own} = {r \in Elements(all) : r.ref = c}
  BY DEF Elements
<1> HIDE DEF own, key
<1>5. h \in Seq(S) /\ Elements(h) = {all[i] : i \in own} /\ InOrder(h, all, own, key)
  BY <1>2, <1>4, Picked
<1>6. Elements(h) = {r \in Elements(all) : r.ref = c} /\ \A r \in Elements(h) : r.time \in Int
  BY <1>1, <1>5, <1>o
<1>7. ASSUME NEW m \in DOMAIN h, NEW n \in DOMAIN h, m < n PROVE h[m].key # h[n].key
  <2>1. PICK i \in own, j \in own : /\ h[m] = all[i] /\ h[n] = all[j]
                                    /\ key[i] < key[j] \/ (key[i] = key[j] /\ i < j)
    BY <1>5, <1>7 DEF InOrder
  <2>2. i \in Int /\ key[i] \in Int /\ i \in DOMAIN all /\ j \in DOMAIN all
    <3>1. i \in DOMAIN all /\ j \in DOMAIN all /\ key[i] \in Int
      BY <1>4
    <3>2. DOMAIN all \subseteq Int
      BY <1>4
    <3>3. QED
      BY <3>1, <3>2
  <2>3. i # j
    BY <2>1, <2>2
  <2>4. QED
    BY <1>1, <2>1, <2>2, <2>3 DEF KeysApart
<1>8. KeysApart(h)
  BY <1>5, <1>7, Apart
<1>9. QED
  BY <1>1, <1>5, <1>6, <1>8

\* The places of a sequence, as keys: a filter that keeps the order.
InPlace(s, I) == Pick(s, I, [i \in I |-> i])

LEMMA Kept ==
    ASSUME NEW S, NEW s \in Seq(S), NEW I \in SUBSET DOMAIN s,
           NEW p, p = InPlace(s, I)
    PROVE  /\ p \in Seq(S) /\ Elements(p) = {s[i] : i \in I}
           /\ \A m, n \in DOMAIN p : m < n => \E i, j \in I : p[m] = s[i] /\ p[n] = s[j] /\ i < j
<1>1. PICK key : key = [i \in I |-> i]
  OBVIOUS
<1>2. DOMAIN s \in SUBSET Int
  OBVIOUS
<1>3. key \in [I -> Int] /\ \A i \in I : key[i] = i /\ i \in Int
  BY <1>1, <1>2
<1>p. p = Pick(s, I, key)
  BY <1>1 DEF InPlace
<1>4. p \in Seq(S) /\ Elements(p) = {s[i] : i \in I} /\ InOrder(p, s, I, key)
  BY <1>3, <1>p, Picked
<1>5. ASSUME NEW m \in DOMAIN p, NEW n \in DOMAIN p, m < n
      PROVE  \E i, j \in I : p[m] = s[i] /\ p[n] = s[j] /\ i < j
  <2>1. PICK i \in I, j \in I : /\ p[m] = s[i] /\ p[n] = s[j]
                                /\ key[i] < key[j] \/ (key[i] = key[j] /\ i < j)
    BY <1>4, <1>5 DEF InOrder
  <2>2. i < j
    BY <1>3, <2>1
  <2>3. QED
    BY <2>1, <2>2
<1>6. QED
  BY <1>4, <1>5

\* The rows that were named, in the order in which they were.
LEMMA Named ==
    ASSUME NEW S, NEW h \in Seq(S), NEW U, NEW ids \in Seq(U), Elements(ids) \subseteq Keys(h),
           NEW a, a = ById(h, ids)
    PROVE  /\ a \in Seq(Elements(h)) /\ DOMAIN a = DOMAIN ids
           /\ \A n \in DOMAIN ids : a[n] \in Elements(h) /\ a[n].key = ids[n]
<1>1. DOMAIN ids = 1 .. Len(ids) /\ Len(ids) \in Nat /\ DOMAIN a = DOMAIN ids
  BY DEF ById
<1>2. ASSUME NEW n \in DOMAIN ids PROVE a[n] \in Elements(h) /\ a[n].key = ids[n]
  <2>1. ids[n] \in Keys(h)
    BY DEF Elements
  <2>2. \E r \in Elements(h) : r.key = ids[n]
    BY <2>1 DEF Keys, Elements
  <2>3. a[n] = CHOOSE r \in Elements(h) : r.key = ids[n]
    BY DEF ById
  <2>4. QED
    BY <2>2, <2>3
<1>3. a = [n \in 1 .. Len(ids) |-> a[n]]
  BY <1>1 DEF ById
<1>4. \A n \in 1 .. Len(ids) : a[n] \in Elements(h)
  BY <1>1, <1>2
<1>5. a \in Seq(Elements(h))
  BY <1>1, <1>3, <1>4
<1>6. QED
  BY <1>1, <1>2, <1>5

\* Where a key is in a sequence of rows.
AtKey(s, k) == {n \in DOMAIN s : s[n].key = k}

\* Sorting does not change how often a row is there.
LEMMA SortedAsOften ==
    ASSUME NEW S, NEW s \in Seq(S), NEW key \in [DOMAIN s -> Int],
           NEW p, p = Pick(s, DOMAIN s, key), NEW k
    PROVE  Cardinality(AtKey(p, k)) = Cardinality(AtKey(s, k))
<1> DEFINE D == DOMAIN s
           C == Cardinality(D)
<1>1. /\ p \in Seq(S) /\ Len(p) = C /\ C \in Nat
      /\ \E place : Enumerates(place, D, key) /\ \A n \in 1 .. C : p[n] = s[place[n]]
  BY PickIsOrdered
<1>2. D \in SUBSET Int
  OBVIOUS
<1> HIDE DEF D, C
<1>3. PICK place : Enumerates(place, D, key) /\ \A n \in 1 .. C : p[n] = s[place[n]]
  BY <1>1
<1>4. DOMAIN p = 1 .. C
  BY <1>1
<1>5. place \in [1 .. C -> D] /\ \A i \in D : \E n \in 1 .. C : place[n] = i
  BY <1>3 DEF Enumerates, C
<1>k. key \in [D -> Int]
  BY DEF D
<1>6. ASSUME NEW m \in 1 .. C, NEW n \in 1 .. C, place[m] = place[n] PROVE m = n
  BY <1>1, <1>2, <1>3, <1>6, <1>k, EnumeratesOnce DEF C
<1>7. PICK A, B : A = AtKey(p, k) /\ B = AtKey(s, k)
  OBVIOUS
<1>8. /\ A \subseteq 1 .. C /\ B \subseteq D
      /\ \A n \in 1 .. C : n \in A <=> p[n].key = k
      /\ \A i \in D : i \in B <=> s[i].key = k
  BY <1>4, <1>7 DEF AtKey, D
<1> DEFINE f == [n \in A |-> place[n]]
<1>9. f \in [A -> B]
  <2> SUFFICES ASSUME NEW n \in A PROVE place[n] \in B
    OBVIOUS
  <2>1. n \in 1 .. C /\ place[n] \in D /\ p[n] = s[place[n]] /\ p[n].key = k
    BY <1>3, <1>5, <1>8
  <2>2. QED
    BY <1>8, <2>1
<1>10. \A m, n \in A : f[m] = f[n] => m = n
  BY <1>6, <1>8
<1>11. \A i \in B : \E n \in A : f[n] = i
  <2> SUFFICES ASSUME NEW i \in B PROVE \E n \in A : f[n] = i
    OBVIOUS
  <2>1. PICK n \in 1 .. C : place[n] = i
    BY <1>5, <1>8
  <2>2. n \in A
    BY <1>3, <1>8, <2>1
  <2>3. QED
    BY <2>1, <2>2
<1>12. f \in Bijection(A, B)
  <2>1. f \in Injection(A, B)
    BY <1>9, <1>10 DEF Injection, IsInjective
  <2>2. f \in Surjection(A, B)
    BY <1>9, <1>11 DEF Surjection
  <2>3. QED
    BY <2>1, <2>2 DEF Bijection
<1>13. IsFiniteSet(A)
  <2>1. IsFiniteSet(1 .. C)
    BY <1>1, CardinalityUpTo
  <2>2. QED
    BY <1>8, <2>1, FS_Subset
<1> HIDE DEF f
<1>14. ExistsBijection(A, B)
  BY <1>12 DEF ExistsBijection
<1>15. Cardinality(A) = Cardinality(B)
  BY <1>13, <1>14, FS_Bijection
<1>16. QED
  BY <1>7, <1>15

\* Where the parts of a case are.
WindowAt(h, ids, as_of) == {i \in DOMAIN h : h[i].key \notin Elements(ids) /\ InWindow(h[i], as_of)}
Referring(s, c)         == {i \in DOMAIN s : s[i].ref = c}
ByTime(a)               == Pick(a, DOMAIN a, [n \in DOMAIN a |-> a[n].time])
PostingsOf(ids)         == [id \in ids |-> Postings(id)]

\* A key is as often among the rows s as among those asked for.
AsOften(s, ids) == \A k : Cardinality({n \in DOMAIN s : s[n].key = k})
                             = Cardinality({n \in DOMAIN ids : ids[n] = k})

\* Every part of a case, said without the filters.
Parts(k, c, ids, h, kyc) ==
    /\ ids # <<>> /\ Elements(ids) \subseteq Keys(h) /\ k.of = c /\ k.asked = ids
    /\ k.as_of = Latest(Elements(k.focus))
    /\ k.focus = ByTime(ById(h, ids))
    /\ k.context = InPlace(h, WindowAt(h, ids, k.as_of))
    /\ k.documents = InPlace(kyc, Referring(kyc, c))
    /\ k.postings = PostingsOf(Keys(k.focus) \cup Keys(k.context))

LEMMA PartsOfCase ==
    ASSUME NEW c, NEW ids, NEW k, k = CaseOf(c, ids), k.kind = "case", NEW h, h = History(c),
           NEW kyc, kyc = stored["kyc_records"]
    PROVE  Parts(k, c, ids, h, kyc)
<1>3. PICK focus : focus = ByTime(ById(h, ids))
  OBVIOUS
<1>4. PICK as_of : as_of = Latest(Elements(focus))
  OBVIOUS
<1>5. PICK others : others = InPlace(h, WindowAt(h, ids, as_of))
  OBVIOUS
<1>r. PICK whole : whole = [kind |-> "case", of |-> c, asked |-> ids, as_of |-> as_of, focus |-> focus,
                           context |-> others,
                           documents |-> InPlace(kyc, Referring(kyc, c)),
                           postings |-> PostingsOf(Keys(focus) \cup Keys(others))]
  OBVIOUS
<1>9. k = IF c \notin Keys(stored["customers"]) THEN [kind |-> "unknown customer"]
          ELSE IF Elements(ids) \ Keys(h) # {} THEN [kind |-> "not found"]
          ELSE IF ids = <<>> THEN [kind |-> "no focus"]
          ELSE whole
  BY <1>3, <1>4, <1>5, <1>r DEF CaseOf, Where, InPlace, ByTime, WindowAt, Referring, PostingsOf
<1>10. k = whole /\ ids # <<>> /\ Elements(ids) \ Keys(h) = {}
  <2>1. \A x : [kind |-> x].kind = x
    OBVIOUS
  <2>2. [kind |-> "unknown customer"].kind # "case"
    BY <2>1
  <2>3. [kind |-> "not found"].kind # "case"
    BY <2>1
  <2>4. [kind |-> "no focus"].kind # "case"
    BY <2>1
  <2>5. k # [kind |-> "unknown customer"] /\ k # [kind |-> "not found"] /\ k # [kind |-> "no focus"]
    BY <2>2, <2>3, <2>4
  <2>6. c \in Keys(stored["customers"])
    BY <1>9, <2>5
  <2>7. ~(Elements(ids) \ Keys(h) # {})
    BY <1>9, <2>5, <2>6
  <2>8. ids # <<>>
    BY <1>9, <2>5, <2>6, <2>7
  <2>9. QED
    BY <1>9, <2>6, <2>7, <2>8
<1>11. /\ k.of = c /\ k.asked = ids /\ k.as_of = as_of /\ k.focus = focus /\ k.context = others
       /\ k.documents = InPlace(kyc, Referring(kyc, c))
       /\ k.postings = PostingsOf(Keys(focus) \cup Keys(others))
  BY <1>10, <1>r
<1>12. ids # <<>> /\ Elements(ids) \subseteq Keys(h)
  BY <1>10
<1>13. /\ k.as_of = Latest(Elements(k.focus)) /\ k.focus = ByTime(ById(h, ids))
       /\ k.context = InPlace(h, WindowAt(h, ids, k.as_of))
  BY <1>3, <1>4, <1>5, <1>11
<1>14. /\ k.documents = InPlace(kyc, Referring(kyc, c))
       /\ k.postings = PostingsOf(Keys(k.focus) \cup Keys(k.context))
  BY <1>11
<1>15. QED
  BY <1>11, <1>12, <1>13, <1>14 DEF Parts

LEMMA StoredRows ==
    ASSUME PipelineInv, NEW t \in Table
    PROVE  /\ stored[t] \in Seq(Cleared(files[t])) /\ accepted[t] \in Seq(Cleared(files[t]))
           /\ KeysApart(stored[t])
           /\ \A r \in Cleared(files[t]) : r.time \in Int
           /\ \A r \in Elements(stored[t]) : r.time \in Int
<1>1. PICK n \in 1 .. 4 : Tables[n] = t
  BY TheTables
<1>2. TableHolds(n)
  BY DEF PipelineInv
<1>3. stored[t] \in Seq(Cleared(files[t])) /\ accepted[t] \in Seq(Cleared(files[t])) /\ KeysApart(stored[t])
  BY <1>1, <1>2 DEF TableHolds, TableOK
<1>4. \A r \in Cleared(files[t]) : r.time \in Int
  <2> SUFFICES ASSUME NEW i \in 1 .. Len(files[t]) PROVE Clean(files[t][i]).time \in Int
    BY DEF Cleared
  <2>1. PICK r : r = files[t][i]
    OBVIOUS
  <2>2. DOMAIN r = {"key", "ref", "time", "body", "spaces"} /\ r.time \in Int
    <3>1. i \in DOMAIN files[t] /\ files \in Files
      BY TheFiles DEF PipelineInv, Shape
    <3>2. QED
      BY <2>1, <3>1, FilesAssumption
  <2>3. Clean(r).time = r.time
    BY <2>2 DEF Clean
  <2>4. QED
    BY <2>1, <2>2, <2>3
<1>5. Elements(stored[t]) \subseteq Cleared(files[t])
  BY <1>3 DEF Elements
<1>6. QED
  BY <1>3, <1>4, <1>5

\* The focus of a case and its time.
LEMMA FocusIsSound ==
    ASSUME NEW S, NEW h \in Seq(S), \A r \in Elements(h) : r.time \in Int,
           NEW U, NEW ids \in Seq(U), ids # <<>>, Elements(ids) \subseteq Keys(h),
           NEW focus, focus = ByTime(ById(h, ids)), NEW as_of, as_of = Latest(Elements(focus))
    PROVE  /\ Elements(focus) \subseteq Elements(h) /\ Keys(focus) = Elements(ids)
           /\ as_of \in Int /\ \E r \in Elements(focus) : r.time = as_of
           /\ \A r \in Elements(focus) : r.time <= as_of
           /\ AsOften(focus, ids)
           /\ \A i, j \in DOMAIN focus : i < j => focus[i].time <= focus[j].time
<1>1. PICK a : a = ById(h, ids)
  OBVIOUS
<1>2. /\ a \in Seq(Elements(h)) /\ DOMAIN a = DOMAIN ids
      /\ \A n \in DOMAIN ids : a[n] \in Elements(h) /\ a[n].key = ids[n]
  BY <1>1, Named
<1>3. PICK key : key = [n \in DOMAIN a |-> a[n].time]
  OBVIOUS
<1>4. key \in [DOMAIN a -> Int] /\ \A n \in DOMAIN a : key[n] = a[n].time
  BY <1>2, <1>3
<1>5. focus = Pick(a, DOMAIN a, key)
  BY <1>1, <1>3 DEF ByTime
<1>6. focus \in Seq(Elements(h)) /\ Elements(focus) = {a[n] : n \in DOMAIN a} /\ InOrder(focus, a, DOMAIN a, key)
  BY <1>2, <1>4, <1>5, Picked
<1>7. Elements(focus) \subseteq Elements(h) /\ \A r \in Elements(focus) : r.time \in Int
  BY <1>2, <1>6
<1>8. Keys(focus) = Elements(ids)
  <2>1. Keys(focus) = {r.key : r \in Elements(focus)}
    BY DEF Keys, Elements
  <2>2. ASSUME NEW n \in DOMAIN ids PROVE ids[n] \in Keys(focus)
    <3>1. a[n] \in Elements(focus) /\ a[n].key = ids[n]
      BY <1>2, <1>6
    <3>2. QED
      BY <2>1, <3>1
  <2>3. ASSUME NEW r \in Elements(focus) PROVE r.key \in Elements(ids)
    <3>1. PICK n \in DOMAIN a : r = a[n]
      BY <1>6
    <3>2. n \in DOMAIN ids /\ r.key = ids[n]
      BY <1>2, <3>1
    <3>3. QED
      BY <3>2 DEF Elements
  <2>4. Keys(focus) \subseteq Elements(ids)
    BY <2>1, <2>3
  <2>5. Elements(ids) \subseteq Keys(focus)
    BY <2>2 DEF Elements
  <2>6. QED
    BY <2>4, <2>5
<1>9. focus # <<>>
  <2>1. Len(ids) \in Nat /\ Len(ids) # 0 /\ DOMAIN ids = 1 .. Len(ids)
    OBVIOUS
  <2>2. 1 \in DOMAIN ids
    BY <2>1
  <2>3. ids[1] \in Keys(focus)
    BY <1>8, <2>2 DEF Elements
  <2>4. Keys(<<>>) = {}
    BY DEF Keys
  <2>5. QED
    BY <2>3, <2>4
<1>10. /\ \E r \in Elements(focus) : r.time = as_of
       /\ \A r \in Elements(focus) : r.time <= as_of
  BY <1>6, <1>7, <1>9, TimesAreFinite
<1>11. as_of \in Int
  BY <1>7, <1>10
<1>12. ASSUME NEW k PROVE Cardinality({n \in DOMAIN focus : focus[n].key = k})
                            = Cardinality({n \in DOMAIN ids : ids[n] = k})
  <2>1. Cardinality(AtKey(focus, k)) = Cardinality(AtKey(a, k))
    BY <1>2, <1>4, <1>5, SortedAsOften
  <2>2. AtKey(a, k) = {n \in DOMAIN ids : ids[n] = k}
    BY <1>2 DEF AtKey
  <2>3. AtKey(focus, k) = {n \in DOMAIN focus : focus[n].key = k}
    BY DEF AtKey
  <2>4. QED
    BY <2>1, <2>2, <2>3
<1>13. ASSUME NEW m \in DOMAIN focus, NEW n \in DOMAIN focus, m < n
       PROVE  focus[m].time <= focus[n].time
  <2>1. PICK i \in DOMAIN a, j \in DOMAIN a : /\ focus[m] = a[i] /\ focus[n] = a[j]
                                              /\ key[i] < key[j] \/ (key[i] = key[j] /\ i < j)
    BY <1>6, <1>13 DEF InOrder
  <2>2. key[i] \in Int /\ key[j] \in Int /\ key[i] = a[i].time /\ key[j] = a[j].time
    BY <1>4
  <2>3. QED
    BY <2>1, <2>2
<1>14. AsOften(focus, ids)
  BY <1>12 DEF AsOften
<1>15. QED
  BY <1>7, <1>8, <1>10, <1>11, <1>13, <1>14

\* The records that refer to something: all of them.
LEMMA AllReferring ==
    ASSUME NEW S, NEW s \in Seq(S), NEW c
    PROVE  Elements(InPlace(s, Referring(s, c))) = {r \in Elements(s) : r.ref = c}
<1>1. PICK R : R = Referring(s, c)
  OBVIOUS
<1>2. R \in SUBSET DOMAIN s /\ \A i \in DOMAIN s : i \in R <=> s[i].ref = c
  BY <1>1 DEF Referring
<1>3. Elements(InPlace(s, R)) = {s[i] : i \in R}
  BY <1>2, Kept
<1>4. {s[i] : i \in R} = {r \in Elements(s) : r.ref = c}
  BY <1>2 DEF Elements
<1>5. QED
  BY <1>1, <1>3, <1>4

LEMMA CaseIsSound ==
    ASSUME PipelineInv, NEW c, NEW U, NEW ids \in Seq(U), case' = CaseOf(c, ids), stored' = stored
    PROVE  /\ CaseIsOfThePast'
           /\ case'.kind = "case" => \E r \in Elements(stored["transactions"]) : r.time = case'.as_of
<1>k. PICK k : k = case'
  OBVIOUS
<1>1. CASE k.kind # "case"
  BY <1>k, <1>1 DEF CaseIsOfThePast
<1>2. CASE k.kind = "case"
  <2>h. PICK h, kyc, all, ledger :
           /\ h = History(c) /\ kyc = stored["kyc_records"]
           /\ all = stored["transactions"] /\ ledger = stored["ledger"]
    OBVIOUS
  <2>1. /\ ids # <<>> /\ Elements(ids) \subseteq Keys(h) /\ k.of = c /\ k.asked = ids
        /\ k.as_of = Latest(Elements(k.focus))
        /\ k.focus = ByTime(ById(h, ids))
        /\ k.context = InPlace(h, WindowAt(h, ids, k.as_of))
        /\ k.documents = InPlace(kyc, Referring(kyc, c))
        /\ k.postings = PostingsOf(Keys(k.focus) \cup Keys(k.context))
    <3>1. k = CaseOf(c, ids) /\ k.kind = "case"
      BY <1>k, <1>2
    <3>2. h = History(c) /\ kyc = stored["kyc_records"]
      BY <2>h
    <3>3. Parts(k, c, ids, h, kyc)
      BY <3>1, <3>2, PartsOfCase
    <3>4. QED
      BY <3>3 DEF Parts
  <2>2. "transactions" \in Table /\ "kyc_records" \in Table /\ "ledger" \in Table
    BY DEF Table, Tables
  <2>S. PICK S, R, L : /\ S = Cleared(files["transactions"]) /\ R = Cleared(files["kyc_records"])
                       /\ L = Cleared(files["ledger"])
    OBVIOUS
  <2>3. /\ all \in Seq(S) /\ kyc \in Seq(R) /\ ledger \in Seq(L) /\ KeysApart(all)
        /\ \A r \in Elements(all) : r.time \in Int
    BY <2>h, <2>2, <2>S, StoredRows
  <2>4. /\ h \in Seq(S) /\ KeysApart(h) /\ Elements(h) = {r \in Elements(all) : r.ref = c}
        /\ \A r \in Elements(h) : r.time \in Int
    BY <2>h, <2>3, TheHistory
  <2>5. /\ Elements(k.focus) \subseteq Elements(h) /\ Keys(k.focus) = Elements(ids)
        /\ k.as_of \in Int /\ \E r \in Elements(k.focus) : r.time = k.as_of
        /\ \A r \in Elements(k.focus) : r.time <= k.as_of
        /\ AsOften(k.focus, ids)
        /\ \A i, j \in DOMAIN k.focus : i < j => k.focus[i].time <= k.focus[j].time
    <3>1. PICK focus, as_of : focus = k.focus /\ as_of = k.as_of
      OBVIOUS
    <3>2. focus = ByTime(ById(h, ids)) /\ as_of = Latest(Elements(focus))
      BY <2>1, <3>1
    <3>3. h \in Seq(S) /\ (\A r \in Elements(h) : r.time \in Int) /\ ids # <<>> /\ Elements(ids) \subseteq Keys(h)
      BY <2>1, <2>4
    <3>4. /\ Elements(focus) \subseteq Elements(h) /\ Keys(focus) = Elements(ids)
          /\ as_of \in Int /\ \E r \in Elements(focus) : r.time = as_of
          /\ \A r \in Elements(focus) : r.time <= as_of
          /\ AsOften(focus, ids)
          /\ \A i, j \in DOMAIN focus : i < j => focus[i].time <= focus[j].time
      BY <3>2, <3>3, FocusIsSound
    <3>5. QED
      BY <3>1, <3>4
  <2>O. PICK O : O = WindowAt(h, ids, k.as_of)
    OBVIOUS
  <2>6. /\ O \in SUBSET DOMAIN h
        /\ \A i \in DOMAIN h : i \in O <=> h[i].key \notin Elements(ids) /\ InWindow(h[i], k.as_of)
    BY <2>O DEF WindowAt
  <2>7. PICK others : others = k.context
    OBVIOUS
  <2>8. /\ others \in Seq(S) /\ Elements(others) = {h[i] : i \in O}
        /\ \A m, n \in DOMAIN others : m < n => \E i, j \in O : others[m] = h[i] /\ others[n] = h[j] /\ i < j
    BY <2>1, <2>4, <2>6, <2>7, <2>O, Kept
  <2>9. Elements(others) = {r \in Elements(h) : r.key \notin Elements(ids) /\ InWindow(r, k.as_of)}
    <3>1. {h[i] : i \in O} \subseteq {r \in Elements(h) : r.key \notin Elements(ids) /\ InWindow(r, k.as_of)}
      BY <2>6 DEF Elements
    <3>2. ASSUME NEW r \in Elements(h), r.key \notin Elements(ids), InWindow(r, k.as_of)
          PROVE  r \in {h[i] : i \in O}
      <4>1. PICK i \in DOMAIN h : h[i] = r
        BY DEF Elements
      <4>2. QED
        BY <2>6, <3>2, <4>1
    <3>3. QED
      BY <2>8, <3>1, <3>2
  <2>10. Elements(k.context) = {r \in Elements(all) :
                                  /\ r.ref = k.of /\ r.key \notin Elements(k.asked)
                                  /\ k.as_of - ContextDays <= r.time /\ r.time <= k.as_of}
    BY <2>1, <2>4, <2>7, <2>9 DEF InWindow
  <2>11. IsInjective([i \in DOMAIN k.context |-> k.context[i].key])
    <3>1. ASSUME NEW m \in DOMAIN others, NEW n \in DOMAIN others, m < n PROVE others[m].key # others[n].key
      <4>1. PICK i \in O, j \in O : others[m] = h[i] /\ others[n] = h[j] /\ i < j
        BY <2>8, <3>1
      <4>2. i \in DOMAIN h /\ j \in DOMAIN h /\ i # j
        <5>1. i \in DOMAIN h /\ j \in DOMAIN h
          BY <2>6
        <5>2. i \in Int /\ j \in Int
          BY <2>4, <5>1
        <5>3. QED
          BY <4>1, <5>1, <5>2
      <4>3. QED
        BY <2>4, <4>1, <4>2 DEF KeysApart
    <3>2. KeysApart(others)
      BY <2>8, <3>1, Apart
    <3>3. QED
      BY <2>7, <3>2 DEF KeysApart, IsInjective
  <2>12. \A r \in Elements(k.focus) \cup Elements(k.context) : r.ref = k.of /\ r.time <= k.as_of
    BY <2>1, <2>4, <2>5, <2>10
  <2>13. Elements(k.documents) = {r \in Elements(kyc) : r.ref = k.of}
    BY <2>1, <2>3, AllReferring
  <2>14. DOMAIN k.postings = Keys(k.focus) \cup Keys(k.context)
    BY <2>1 DEF PostingsOf
  <2>15. \A id \in DOMAIN k.postings : Elements(k.postings[id]) = {r \in Elements(ledger) : r.ref = id}
    <3> SUFFICES ASSUME NEW id \in DOMAIN k.postings
                 PROVE  Elements(k.postings[id]) = {r \in Elements(ledger) : r.ref = id}
      OBVIOUS
    <3>1. k.postings[id] = Postings(id)
      BY <2>1, <2>14 DEF PostingsOf
    <3>2. Postings(id) = InPlace(ledger, Referring(ledger, id))
      BY <2>h DEF Postings, Where, InPlace, Referring
    <3>3. QED
      BY <2>3, <3>1, <3>2, AllReferring
  <2>16. \E r \in Elements(all) : r.time = k.as_of
    BY <2>4, <2>5
  <2>17. \A id \in Elements(k.asked) :
            Cardinality({n \in DOMAIN k.focus : k.focus[n].key = id})
              = Cardinality({n \in DOMAIN k.asked : k.asked[n] = id})
    <3>1. PICK asked : asked = k.asked
      OBVIOUS
    <3>2. asked = ids
      BY <2>1, <3>1
    <3>3. AsOften(k.focus, asked)
      BY <2>5, <3>2
    <3>4. QED
      BY <3>1, <3>3 DEF AsOften
  <2>18. Sound(k, stored)
    <3>1. Keys(k.focus) = Elements(k.asked)
      BY <2>1, <2>5
    <3>2. QED
      BY <2>h, <2>5, <2>10, <2>11, <2>12, <2>13, <2>14, <2>15, <2>17, <3>1 DEF Sound
  <2>19. CaseIsOfThePast'
    <3>1. Sound(case', stored')
      BY <1>k, <2>18
    <3>2. QED
      BY <3>1 DEF CaseIsOfThePast, Sound
  <2>20. QED
    BY <1>k, <2>h, <2>16, <2>19
<1>3. QED
  BY <1>1, <1>2

LEMMA BuildKeeps ==
    ASSUME PipelineInv, NEW c, NEW U, NEW ids \in Seq(U), Build(c, ids)
    PROVE  PipelineInv'
<1>1. /\ phase = "done" /\ UNCHANGED <<files, manifest, phase, at, seen, accepted, duplicates,
                                       quarantine, stored, report, context>>
      /\ case' = CaseOf(c, ids)
  BY DEF Build, loop
<1>2. Shape'
  BY <1>1, ShapeStays DEF PipelineInv
<1>3. Progress'
  BY <1>1 DEF PipelineInv, Progress
<1>4. Outcome'
  <2>1. /\ CaseIsOfThePast'
        /\ case'.kind = "case" => \E r \in Elements(stored["transactions"]) : r.time = case'.as_of
    BY <1>1, CaseIsSound
  <2>2. /\ Latest(Elements(stored["transactions"]))' = Latest(Elements(stored["transactions"]))
        /\ Elements(stored["transactions"])' = Elements(stored["transactions"])
    BY <1>1
  <2>3. QED
    BY <1>1, <2>1, <2>2 DEF PipelineInv, Outcome, NoContext
<1>5. ASSUME NEW n \in 1 .. 4 PROVE TableHolds(n)'
  <2>1. ReadTo(n)' = ReadTo(n) /\ JudgedTo(n)' = JudgedTo(n)
    BY <1>1 DEF ReadTo, JudgedTo
  <2>2. QED
    BY <1>1, <2>1, TableStays DEF PipelineInv
<1>6. QED
  BY <1>2, <1>3, <1>4, <1>5 DEF PipelineInv

LEMMA StutterKeeps == PipelineInv /\ UNCHANGED vars => PipelineInv'
<1> SUFFICES ASSUME PipelineInv, UNCHANGED vars PROVE PipelineInv'
  OBVIOUS
<1>1. UNCHANGED <<files, manifest, phase, at, seen, accepted, duplicates, quarantine, stored, report,
                  context, case>>
  BY DEF vars, loop
<1>2. Shape'
  BY <1>1, ShapeStays DEF PipelineInv, Shape
<1>3. Progress'
  BY <1>1 DEF PipelineInv, Progress
<1>4. Outcome'
  <2>1. CaseIsOfThePast'
    BY <1>1, CaseStays DEF PipelineInv, Outcome
  <2>2. /\ Latest(Elements(stored["transactions"]))' = Latest(Elements(stored["transactions"]))
        /\ Elements(stored["transactions"])' = Elements(stored["transactions"])
    BY <1>1
  <2>3. QED
    BY <1>1, <2>1, <2>2 DEF PipelineInv, Outcome, NoContext, NoCase
<1>5. ASSUME NEW n \in 1 .. 4 PROVE TableHolds(n)'
  <2>1. ReadTo(n)' = ReadTo(n) /\ JudgedTo(n)' = JudgedTo(n)
    BY <1>1 DEF ReadTo, JudgedTo
  <2>2. QED
    BY <1>1, <2>1, TableStays DEF PipelineInv
<1>6. QED
  BY <1>2, <1>3, <1>4, <1>5 DEF PipelineInv

LEMMA NextKeeps == PipelineInv /\ [Next]_vars => PipelineInv'
<1> SUFFICES ASSUME PipelineInv, [Next]_vars PROVE PipelineInv'
  OBVIOUS
<1>1. CASE Verify
  BY <1>1, VerifyKeeps
<1>2. CASE RaggedTable
  BY <1>2, FailKeeps DEF RaggedTable
<1>3. CASE MissingKey
  BY <1>3, MissingKeyKeeps
<1>4. CASE ExactDuplicate
  BY <1>4, ExactDuplicateKeeps
<1>5. CASE KeyConflict
  BY <1>5, KeyConflictKeeps
<1>6. CASE FirstOfItsKey
  BY <1>6, FirstOfItsKeyKeeps
<1>7. CASE EndOfTable
  BY <1>7, EndOfTableKeeps
<1>8. CASE Keep
  BY <1>8, KeepKeeps
<1>9. CASE Orphan
  BY <1>9, OrphanKeeps
<1>10. CASE Unusable
  BY <1>10, UnusableKeeps
<1>11. CASE EndOfConsolidation
  BY <1>11, EndOfConsolidationKeeps
<1>12. CASE Start
  BY <1>12, StartKeeps
<1>13. CASE BuildCase
  <2>1. PICK c : \/ BuildLatest(c)
                 \/ \E n \in 0 .. MaxFocus : \E ids \in [1 .. n -> Asked("transactions")] : Build(c, ids)
    BY <1>13 DEF BuildCase
  <2>2. CASE BuildLatest(c)
    <3>1. PICK ids : Build(c, ids) /\ (ids = <<>> \/ \E x : ids = <<x>>)
      BY <2>2 DEF BuildLatest
    <3>2. \E U : ids \in Seq(U)
      <4>1. CASE ids = <<>>
        <5>1. ids \in Seq({})
          BY <4>1
        <5>2. QED
          BY <5>1
      <4>2. CASE \E x : ids = <<x>>
        <5>1. PICK x : ids = <<x>>
          BY <4>2
        <5>2. ids \in Seq({x})
          BY <5>1
        <5>3. QED
          BY <5>2
      <4>3. QED
        BY <3>1, <4>1, <4>2
    <3>3. QED
      BY <3>1, <3>2, BuildKeeps
  <2>3. CASE \E n \in 0 .. MaxFocus : \E ids \in [1 .. n -> Asked("transactions")] : Build(c, ids)
    <3>1. PICK n \in 0 .. MaxFocus : \E ids \in [1 .. n -> Asked("transactions")] : Build(c, ids)
      BY <2>3
    <3>2. PICK ids \in [1 .. n -> Asked("transactions")] : Build(c, ids)
      BY <3>1
    <3>3. n \in Nat
      BY DaysAssumption
    <3>4. ids \in Seq(Asked("transactions"))
      BY <3>3
    <3>5. QED
      BY <3>2, <3>4, BuildKeeps
  <2>4. QED
    BY <2>1, <2>2, <2>3
<1>14. CASE UNCHANGED vars
  BY <1>14, StutterKeeps
<1>15. QED
  BY <1>1, <1>2, <1>3, <1>4, <1>5, <1>6, <1>7, <1>8, <1>9, <1>10, <1>11, <1>12, <1>13, <1>14 DEF Next

-----------------------------------------------------------------------------
(* What has become of every row when both loops are over.                  *)

FateIn(t, rows, i, parent) ==
    IF ReadFate(t, rows, i) = "accepted" THEN Judged(t, Clean(rows[i]), parent)
    ELSE ReadFate(t, rows, i)
Of(t, rows, parent, fate) == {i \in DOMAIN rows : FateIn(t, rows, i, parent) = fate}

CleanOf(rows, I) == {Clean(rows[i]) : i \in I}

LEMMA FateIsFateIn ==
    ASSUME NEW t, NEW i
    PROVE  Fate(t, i) = FateIn(t, files[t], i, stored[RefersTo[t]])
<1>1. PICK rows, parent : rows = files[t] /\ parent = stored[RefersTo[t]]
  OBVIOUS
<1>2. First(t, i) = FirstIn(rows, i)
  BY <1>1 DEF First, FirstIn
<1>3. PICK j : j = FirstIn(rows, i)
  OBVIOUS
<1>4. Fate(t, i) = IF Clean(rows[i]).key = None THEN "missing_primary_key"
                   ELSE IF j # i
                        THEN IF Clean(rows[j]) = Clean(rows[i]) THEN "duplicate" ELSE "duplicate_key_conflict"
                   ELSE IF ~Valid(t, Clean(rows[i])) THEN "schema_validation_failed"
                   ELSE IF t # "customers" /\ Clean(rows[i]).ref \notin Keys(parent) THEN "orphan_reference"
                   ELSE IF ~Usable(t, Clean(rows[i])) THEN "normalization_failed"
                   ELSE "stored"
  BY <1>1, <1>2, <1>3 DEF Fate
<1>5. ReadFate(t, rows, i) = IF Clean(rows[i]).key = None THEN "missing_primary_key"
                             ELSE IF j # i
                                  THEN IF Clean(rows[j]) = Clean(rows[i]) THEN "duplicate"
                                       ELSE "duplicate_key_conflict"
                             ELSE IF ~Valid(t, Clean(rows[i])) THEN "schema_validation_failed"
                             ELSE "accepted"
  BY <1>3 DEF ReadFate
<1>6. Judged(t, Clean(rows[i]), parent) =
         IF t # "customers" /\ Clean(rows[i]).ref \notin Keys(parent) THEN "orphan_reference"
         ELSE IF ~Usable(t, Clean(rows[i])) THEN "normalization_failed" ELSE "stored"
  BY DEF Judged
<1>7. Fate(t, i) = FateIn(t, rows, i, parent)
  BY <1>4, <1>5, <1>6 DEF FateIn
<1>8. QED
  BY <1>1, <1>7

\* Among the rows of a key one is the first.
LEMMA FirstExists ==
    ASSUME NEW rows, NEW i \in Nat \ {0}
    PROVE  IsFirst(rows, i, FirstIn(rows, i))
<1> DEFINE same == {j \in 1 .. i : Clean(rows[j]).key = Clean(rows[i]).key}
           key  == [j \in same |-> j]
           least == Nth(same, key, 1)
<1>1. same \in SUBSET Int /\ i \in same /\ same \subseteq 1 .. i
  OBVIOUS
<1>2. IsFiniteSet(same)
  BY <1>1, CardinalityUpTo, FS_Subset
<1>3. Cardinality(same) \in Nat /\ Cardinality(same) # 0
  BY <1>1, <1>2, FS_CardinalityType, FS_EmptySet
<1>4. 1 \in 1 .. Cardinality(same) /\ key \in [same -> Int] /\ \A j \in same : key[j] = j
  BY <1>1, <1>3
<1>5. \A j \in same : Clean(rows[j]).key = Clean(rows[i]).key /\ j \in 1 .. i
  OBVIOUS
<1>6. \A j \in 1 .. i : Clean(rows[j]).key = Clean(rows[i]).key => j \in same
  OBVIOUS
<1> HIDE DEF same, key
<1>7. least \in same /\ Rank(same, key, least) = 1
  BY <1>1, <1>2, <1>4, EveryPlaceIsTaken
<1>8. ASSUME NEW j \in same, j < least PROVE FALSE
  <2>1. Rank(same, key, j) < Rank(same, key, least)
    BY <1>1, <1>2, <1>4, <1>7, <1>8, RankIsStrict
  <2>2. Rank(same, key, j) \in 1 .. Cardinality(same)
    BY <1>1, <1>2, <1>4, RankType
  <2>3. QED
    BY <1>3, <1>7, <2>1, <2>2
<1> HIDE DEF least
<1>9. IsFirst(rows, i, least)
  <2>1. least \in 1 .. i
    BY <1>1, <1>7
  <2>2. \A k \in 1 .. least - 1 : Clean(rows[k]).key # Clean(rows[i]).key
    <3> SUFFICES ASSUME NEW k \in 1 .. least - 1, Clean(rows[k]).key = Clean(rows[i]).key PROVE FALSE
      OBVIOUS
    <3>1. k \in 1 .. i /\ k < least
      BY <2>1
    <3>2. QED
      BY <1>6, <1>8, <3>1
  <2>3. QED
    BY <1>5, <1>7, <2>1, <2>2 DEF IsFirst
<1>10. QED
  BY <1>9, FirstIsChosen

\* Two accepted rows have different keys.
LEMMA AcceptedApart ==
    ASSUME NEW t, NEW rows, NEW i \in Nat \ {0}, NEW j \in Nat \ {0},
           ReadFate(t, rows, i) = "accepted", ReadFate(t, rows, j) = "accepted",
           Clean(rows[i]).key = Clean(rows[j]).key
    PROVE  i = j
<1>1. ASSUME NEW m \in Nat \ {0}, NEW n \in Nat \ {0}, m < n, ReadFate(t, rows, n) = "accepted"
      PROVE  Clean(rows[m]).key # Clean(rows[n]).key
  <2>1. FirstIn(rows, n) = n
    BY <1>1 DEF ReadFate
  <2>2. IsFirst(rows, n, n)
    BY <2>1, FirstExists
  <2>3. m \in 1 .. n - 1
    BY <1>1
  <2>4. QED
    BY <2>2, <2>3 DEF IsFirst
<1>2. ~(i < j)
  BY <1>1
<1>3. ~(j < i)
  BY <1>1
<1>4. QED
  BY <1>2, <1>3

LEMMA AllJudged ==
    ASSUME NEW t, NEW rows, Len(rows) \in Nat, DOMAIN rows = 1 .. Len(rows), NEW parent,
           NEW S, NEW acc \in Seq(S), Elements(acc) = RowsOf(t, rows, Len(rows), "accepted"),
           NEW fate \in {"orphan_reference", "normalization_failed", "stored"}
    PROVE  JudgedOf(t, acc, Len(acc), parent, fate) = CleanOf(rows, Of(t, rows, parent, fate))
<1>1. DOMAIN acc = 1 .. Len(acc)
  OBVIOUS
<1>2. JudgedOf(t, acc, Len(acc), parent, fate) = {r \in Elements(acc) : Judged(t, r, parent) = fate}
  BY <1>1 DEF JudgedOf, Elements
<1>3. \A i : ReadFate(t, rows, i) # fate
  BY DEF ReadFate
<1>4. \A i \in DOMAIN rows :
         i \in Of(t, rows, parent, fate) <=> /\ i \in OfFate(t, rows, Len(rows), "accepted")
                                             /\ Judged(t, Clean(rows[i]), parent) = fate
  BY <1>3 DEF Of, FateIn, OfFate
<1>5. QED
  <2>1. ASSUME NEW r \in Elements(acc), Judged(t, r, parent) = fate
        PROVE  r \in CleanOf(rows, Of(t, rows, parent, fate))
    <3>1. PICK i \in OfFate(t, rows, Len(rows), "accepted") : r = Clean(rows[i])
      BY DEF RowsOf
    <3>2. i \in DOMAIN rows
      BY DEF OfFate
    <3>3. QED
      BY <1>4, <2>1, <3>1, <3>2 DEF CleanOf
  <2>2. ASSUME NEW i \in Of(t, rows, parent, fate)
        PROVE  Clean(rows[i]) \in Elements(acc) /\ Judged(t, Clean(rows[i]), parent) = fate
    <3>1. i \in DOMAIN rows
      BY DEF Of
    <3>2. QED
      BY <1>4, <3>1 DEF RowsOf
  <2>3. QED
    BY <1>2, <2>1, <2>2 DEF CleanOf

LEMMA StoredAreCounted ==
    ASSUME NEW t, NEW rows, Len(rows) \in Nat, DOMAIN rows = 1 .. Len(rows), NEW parent,
           NEW S, NEW st \in Seq(S), KeysApart(st),
           Elements(st) = CleanOf(rows, Of(t, rows, parent, "stored"))
    PROVE  Len(st) = Cardinality(Of(t, rows, parent, "stored"))
<1> DEFINE places == Of(t, rows, parent, "stored")
           f == [k \in 1 .. Len(st) |-> st[k]]
           g == [i \in places |-> Clean(rows[i])]
<1>1. DOMAIN st = 1 .. Len(st) /\ Len(st) \in Nat
  OBVIOUS
<1>2. /\ IsFiniteSet(1 .. Len(st)) /\ Cardinality(1 .. Len(st)) = Len(st)
      /\ IsFiniteSet(1 .. Len(rows))
  BY <1>1, CardinalityUpTo
<1>3. places \subseteq 1 .. Len(rows)
  BY DEF Of
<1>4. IsFiniteSet(places)
  BY <1>2, <1>3, FS_Subset
<1>5. f \in Surjection(1 .. Len(st), Elements(st)) /\ f \in Injection(1 .. Len(st), Elements(st))
  BY <1>1 DEF Surjection, Injection, IsInjective, Elements, KeysApart
<1>6. g \in Surjection(places, Elements(st))
  BY DEF Surjection, CleanOf
<1>7. g \in Injection(places, Elements(st))
  <2>1. \A i \in places : ReadFate(t, rows, i) = "accepted" /\ i \in Nat \ {0}
    BY <1>3 DEF Of, FateIn, ReadFate
  <2>2. \A i, j \in places : g[i] = g[j] => i = j
    BY <2>1, AcceptedApart
  <2>3. g \in [places -> Elements(st)]
    BY DEF CleanOf
  <2>4. QED
    BY <2>2, <2>3 DEF Injection, IsInjective
<1> HIDE DEF f, g, places
<1>8. Cardinality(Elements(st)) = Cardinality(1 .. Len(st))
  BY <1>2, <1>5, FS_Surjection
<1>9. Cardinality(Elements(st)) = Cardinality(places)
  BY <1>4, <1>6, <1>7, FS_Surjection
<1>10. QED
  BY <1>2, <1>8, <1>9 DEF places

LEMMA Accounting ==
    ASSUME NEW t, NEW rows, Len(rows) \in Nat, DOMAIN rows = 1 .. Len(rows), NEW acc, NEW dup,
           NEW E, NEW q \in Seq(E), NEW st, NEW parent,
           TableOK(t, rows, Len(rows), acc, dup, q, st, Len(acc), parent)
    PROVE  /\ Elements(st) = CleanOf(rows, Of(t, rows, parent, "stored"))
           /\ Len(st) = Cardinality(Of(t, rows, parent, "stored"))
           /\ dup = Cardinality(Of(t, rows, parent, "duplicate"))
           /\ \A reason \in Reasons :
                 RefusedOf(q, t, reason) = CleanOf(rows, Of(t, rows, parent, reason))
           /\ Len(rows) = Len(st) + dup + Cardinality(RefusedIn(q, t))
<1>1. /\ acc \in Seq(Cleared(rows)) /\ Elements(acc) = RowsOf(t, rows, Len(rows), "accepted")
      /\ st \in Seq(Cleared(rows)) /\ KeysApart(st)
  BY DEF TableOK
<1>2. Elements(st) = CleanOf(rows, Of(t, rows, parent, "stored"))
  <2>1. Elements(st) = JudgedOf(t, acc, Len(acc), parent, "stored")
    BY DEF TableOK
  <2>2. QED
    BY <1>1, <2>1, AllJudged
<1>3. Len(st) = Cardinality(Of(t, rows, parent, "stored"))
  BY <1>1, <1>2, StoredAreCounted
<1>4. \A fate \in ReadReasons \cup {"duplicate"} :
         OfFate(t, rows, Len(rows), fate) = Of(t, rows, parent, fate)
  BY DEF OfFate, Of, FateIn, Judged, ReadReasons
<1>5. dup = Cardinality(Of(t, rows, parent, "duplicate"))
  BY <1>4 DEF TableOK
<1>6. ASSUME NEW reason \in Reasons
      PROVE  RefusedOf(q, t, reason) = CleanOf(rows, Of(t, rows, parent, reason))
  <2>1. CASE reason \in ReadReasons
    <3>1. RefusedOf(q, t, reason) = RowsOf(t, rows, Len(rows), reason)
      BY <2>1 DEF TableOK
    <3>2. QED
      BY <1>4, <2>1, <3>1 DEF RowsOf, CleanOf
  <2>2. CASE reason \notin ReadReasons
    <3>1. reason \in {"orphan_reference", "normalization_failed", "stored"} /\ reason \in Reasons \ ReadReasons
      BY <2>2 DEF Reasons
    <3>2. RefusedOf(q, t, reason) = JudgedOf(t, acc, Len(acc), parent, reason)
      BY <3>1 DEF TableOK
    <3>3. QED
      BY <1>1, <3>1, <3>2, AllJudged
  <2>3. QED
    BY <2>1, <2>2
<1>7. Len(rows) = Len(st) + dup + Cardinality(RefusedIn(q, t))
  <2>1. Len(rows) = dup + Cardinality(RefusedIn(q, t)) + Len(st) + (Len(acc) - Len(acc))
    BY DEF TableOK
  <2>2. Len(st) \in Nat /\ Len(acc) \in Nat /\ dup \in Int
    BY <1>1, FatesAreCounted DEF TableOK
  <2>3. PICK c : c = Cardinality(RefusedIn(q, t))
    OBVIOUS
  <2>4. c \in Int
    <3>1. DOMAIN q = 1 .. Len(q) /\ Len(q) \in Nat
      OBVIOUS
    <3>2. RefusedIn(q, t) \subseteq 1 .. Len(q)
      BY <3>1 DEF RefusedIn
    <3>3. QED
      BY <2>3, <3>1, <3>2, CardinalityUpTo, FS_Subset, FS_CardinalityType
  <2>5. QED
    BY <2>1, <2>2, <2>3, <2>4
<1>8. QED
  BY <1>2, <1>3, <1>5, <1>6, <1>7

-----------------------------------------------------------------------------
(* What the invariant says.                                                *)

LEMMA TypesHold == PipelineInv => TypeOK
<1> SUFFICES ASSUME PipelineInv PROVE TypeOK
  OBVIOUS
<1>1. /\ manifest \in {"absent", "match", "differ"}
      /\ phase \in {"verify", "read", "consolidate", "done", "raised"}
  BY DEF PipelineInv, Shape
<1>2. at \in [table : DOMAIN Tables, row : Nat \ {0}]
  BY TheTables DEF PipelineInv, Shape
<1>3. ASSUME NEW t \in Table
      PROVE  /\ duplicates[t] \in Nat
             /\ \A r \in Elements(accepted[t]) : Valid(t, r) /\ r.key # None
             /\ Elements(stored[t]) \subseteq Elements(accepted[t])
  <2>1. PICK n \in 1 .. 4 : Tables[n] = t
    BY TheTables
  <2>2. PICK rows, m, acc, c, parent :
           /\ rows = files[t] /\ m = ReadTo(n) /\ acc = accepted[t] /\ c = JudgedTo(n)
           /\ parent = stored[RefersTo[t]]
    OBVIOUS
  <2>3. TableOK(t, rows, m, acc, duplicates[t], quarantine, stored[t], c, parent)
    BY <2>1, <2>2 DEF PipelineInv, TableHolds
  <2>4. m \in Nat /\ Len(acc) \in Nat /\ DOMAIN acc = 1 .. Len(acc) /\ c \in 0 .. Len(acc)
    <3>1. Len(rows) \in Nat
      BY <2>2, TheFiles DEF PipelineInv
    <3>2. acc \in Seq(Cleared(rows))
      BY <2>3 DEF TableOK
    <3>3. QED
      BY <2>3, <3>1, <3>2 DEF TableOK
  <2>5. duplicates[t] \in Nat
    BY <2>3, <2>4, FatesAreCounted DEF TableOK
  <2>6. \A r \in Elements(acc) : Valid(t, r) /\ r.key # None
    <3> SUFFICES ASSUME NEW r \in Elements(acc) PROVE Valid(t, r) /\ r.key # None
      OBVIOUS
    <3>1. PICK i \in OfFate(t, rows, m, "accepted") : r = Clean(rows[i])
      BY <2>3 DEF TableOK, RowsOf
    <3>2. ReadFate(t, rows, i) = "accepted"
      BY DEF OfFate
    <3>3. QED
      BY <3>1, <3>2 DEF ReadFate
  <2>7. Elements(stored[t]) \subseteq Elements(acc)
    <3>1. Elements(stored[t]) = JudgedOf(t, acc, c, parent, "stored")
      BY <2>3 DEF TableOK
    <3>2. 1 .. c \subseteq DOMAIN acc
      BY <2>4
    <3>3. QED
      BY <3>1, <3>2 DEF JudgedOf, Elements
  <2>8. QED
    BY <2>2, <2>5, <2>6, <2>7
<1>4. duplicates \in [Table -> Nat]
  BY <1>3 DEF PipelineInv, Shape
<1>5. \A q \in Elements(quarantine) : q.table \in Table /\ q.number \in Nat
  <2>1. quarantine \in Seq(Entry)
    BY DEF PipelineInv, Shape
  <2>2. Elements(quarantine) \subseteq Entry
    BY <2>1 DEF Elements
  <2>3. QED
    BY <2>2 DEF Entry
<1>6. context.state \in {"none", "started", "refused", "raised"}
  BY DEF PipelineInv, Outcome, NoContext
<1>7. QED
  BY <1>1, <1>2, <1>3, <1>4, <1>5, <1>6 DEF TypeOK

LEMMA StoreHolds == PipelineInv => StoreIsConsistent
<1> SUFFICES ASSUME PipelineInv PROVE StoreIsConsistent
  OBVIOUS
<1>1. ASSUME NEW t \in Table PROVE IsInjective([i \in DOMAIN stored[t] |-> stored[t][i].key])
  BY StoredRows DEF KeysApart, IsInjective
<1>2. ASSUME NEW t \in Table
      PROVE  /\ \A r \in Elements(stored[t]) :
                   t # "customers" => r.ref \in Keys(stored[RefersTo[t]])
             /\ \A e \in Elements(quarantine) : e.table = t /\ e.reason = "orphan_reference" =>
                   e.record.ref \notin Keys(stored[RefersTo[t]])
  <2>1. PICK n \in 1 .. 4 : Tables[n] = t
    BY TheTables
  <2>2. PICK rows, m, acc, c, parent :
           /\ rows = files[t] /\ m = ReadTo(n) /\ acc = accepted[t] /\ c = JudgedTo(n)
           /\ parent = stored[RefersTo[t]]
    OBVIOUS
  <2>3. TableOK(t, rows, m, acc, duplicates[t], quarantine, stored[t], c, parent)
    BY <2>1, <2>2 DEF PipelineInv, TableHolds
  <2>4. ASSUME NEW r \in Elements(stored[t]), t # "customers" PROVE r.ref \in Keys(parent)
    <3>1. r \in JudgedOf(t, acc, c, parent, "stored")
      BY <2>3 DEF TableOK
    <3>2. Judged(t, r, parent) = "stored"
      BY <3>1 DEF JudgedOf
    <3>3. QED
      BY <2>4, <3>2 DEF Judged
  <2>5. ASSUME NEW e \in Elements(quarantine), e.table = t, e.reason = "orphan_reference"
        PROVE  e.record.ref \notin Keys(parent)
    <3>1. e.record \in RefusedOf(quarantine, t, "orphan_reference")
      BY <2>5 DEF RefusedOf
    <3>2. "orphan_reference" \in Reasons \ ReadReasons
      BY DEF Reasons, ReadReasons
    <3>3. e.record \in JudgedOf(t, acc, c, parent, "orphan_reference")
      BY <2>3, <3>1, <3>2 DEF TableOK
    <3>4. Judged(t, e.record, parent) = "orphan_reference"
      BY <3>3 DEF JudgedOf
    <3>5. QED
      BY <3>4 DEF Judged
  <2>6. QED
    BY <2>2, <2>4, <2>5
<1>3. \A e \in Elements(quarantine) : e.table \in Table
  BY TypesHold DEF TypeOK
<1>4. QED
  BY <1>1, <1>2, <1>3 DEF StoreIsConsistent

LEMMA AgentsHold == PipelineInv => AgentsStartClean
<1> SUFFICES ASSUME PipelineInv, context.state = "started"
             PROVE  /\ quarantine = <<>> /\ manifest # "differ"
                    /\ case.kind = "case" => case.as_of <= context.as_of
  BY DEF AgentsStartClean
<1>1. /\ quarantine = <<>> /\ stored["transactions"] # <<>> /\ phase = "done"
      /\ context.as_of = Latest(Elements(stored["transactions"]))
  BY DEF PipelineInv, Outcome, NoContext
<1>2. manifest # "differ"
  BY <1>1 DEF PipelineInv, Progress
<1>3. ASSUME case.kind = "case" PROVE case.as_of <= context.as_of
  <2>1. PICK r \in Elements(stored["transactions"]) : r.time = case.as_of
    BY <1>3 DEF PipelineInv, Outcome
  <2>2. "transactions" \in Table
    BY DEF Table, Tables
  <2>3. \A s \in Elements(stored["transactions"]) : s.time <= Latest(Elements(stored["transactions"]))
    BY <1>1, <2>2, StoredRows, TimesAreFinite
  <2>4. QED
    BY <1>1, <2>1, <2>3
<1>4. QED
  BY <1>1, <1>2, <1>3

LEMMA RowsAreAccountedFor == PipelineInv => EveryRowIsAccountedFor
<1> SUFFICES ASSUME PipelineInv, phase = "done", NEW t \in Table
             PROVE  LET of(fate) == {i \in DOMAIN files[t] : Fate(t, i) = fate}
                    IN  /\ Elements(stored[t]) = {Clean(files[t][i]) : i \in of("stored")}
                        /\ report.accepted[t] = Cardinality(of("stored"))
                        /\ report.duplicates[t] = Cardinality(of("duplicate"))
                        /\ \A reason \in {"missing_primary_key", "duplicate_key_conflict",
                                          "schema_validation_failed", "orphan_reference",
                                          "normalization_failed"} :
                               {q.record : q \in {p \in Elements(quarantine) :
                                                      p.table = t /\ p.reason = reason}}
                                 = {Clean(files[t][i]) : i \in of(reason)}
                        /\ report.rows_read[t] = report.accepted[t] + report.duplicates[t]
                             + Cardinality({i \in DOMAIN quarantine : quarantine[i].table = t})
  BY DEF EveryRowIsAccountedFor
<1>1. PICK n \in 1 .. 4 : Tables[n] = t
  BY TheTables
<1>2. PICK rows, acc, st, parent, dup :
         /\ rows = files[t] /\ acc = accepted[t] /\ st = stored[t] /\ parent = stored[RefersTo[t]]
         /\ dup = duplicates[t]
  OBVIOUS
<1>3. Len(rows) \in Nat /\ DOMAIN rows = 1 .. Len(rows) /\ acc \in Seq(Cleared(rows))
  BY <1>2, TheFiles, StoredRows DEF PipelineInv
<1>4. ReadTo(n) = Len(rows)
  BY <1>1, <1>2 DEF ReadTo
<1>5. JudgedTo(n) = Len(acc)
  <2>1. at.table = 4 /\ at.row = Len(accepted["ledger"]) + 1
    BY DEF PipelineInv, Progress
  <2>2. CASE n = 4
    <3>1. acc = accepted["ledger"] /\ Len(acc) \in Nat
      BY <1>1, <1>2, <1>3, <2>2, TheTables
    <3>2. at.row - 1 = Len(acc)
      BY <2>1, <3>1
    <3>3. QED
      BY <2>1, <2>2, <3>2 DEF JudgedTo
  <2>3. CASE n # 4
    <3>1. ~(n > at.table) /\ n # at.table
      BY <2>1, <2>3
    <3>2. QED
      BY <1>1, <1>2, <3>1 DEF JudgedTo
  <2>4. QED
    BY <2>2, <2>3
<1>6. TableOK(t, rows, Len(rows), acc, dup, quarantine, st, Len(acc), parent)
  BY <1>1, <1>2, <1>4, <1>5 DEF PipelineInv, TableHolds
<1>7. quarantine \in Seq(Entry)
  BY DEF PipelineInv, Shape
<1>8. /\ Elements(st) = CleanOf(rows, Of(t, rows, parent, "stored"))
      /\ Len(st) = Cardinality(Of(t, rows, parent, "stored"))
      /\ dup = Cardinality(Of(t, rows, parent, "duplicate"))
      /\ \A reason \in Reasons :
            RefusedOf(quarantine, t, reason) = CleanOf(rows, Of(t, rows, parent, reason))
      /\ Len(rows) = Len(st) + dup + Cardinality(RefusedIn(quarantine, t))
  BY <1>3, <1>6, <1>7, Accounting
<1>9. \A fate : {i \in DOMAIN files[t] : Fate(t, i) = fate} = Of(t, rows, parent, fate)
  BY <1>2, FateIsFateIn DEF Of
<1>10. report.rows_read[t] = Len(rows) /\ report.accepted[t] = Len(st) /\ report.duplicates[t] = dup
  BY <1>2 DEF PipelineInv, Outcome
<1>11. Elements(stored[t]) = {Clean(files[t][i]) : i \in {i \in DOMAIN files[t] : Fate(t, i) = "stored"}}
  BY <1>2, <1>8, <1>9 DEF CleanOf
<1>12. /\ report.accepted[t] = Cardinality({i \in DOMAIN files[t] : Fate(t, i) = "stored"})
       /\ report.duplicates[t] = Cardinality({i \in DOMAIN files[t] : Fate(t, i) = "duplicate"})
  BY <1>8, <1>9, <1>10
<1>13. ASSUME NEW reason \in {"missing_primary_key", "duplicate_key_conflict",
                              "schema_validation_failed", "orphan_reference", "normalization_failed"}
       PROVE  {q.record : q \in {p \in Elements(quarantine) : p.table = t /\ p.reason = reason}}
                = {Clean(files[t][i]) : i \in {i \in DOMAIN files[t] : Fate(t, i) = reason}}
  <2>1. reason \in Reasons
    BY DEF Reasons, ReadReasons
  <2>2. RefusedOf(quarantine, t, reason)
          = {q.record : q \in {p \in Elements(quarantine) : p.table = t /\ p.reason = reason}}
    BY DEF RefusedOf
  <2>3. RefusedOf(quarantine, t, reason) = CleanOf(rows, Of(t, rows, parent, reason))
    BY <1>8, <2>1
  <2>4. CleanOf(rows, Of(t, rows, parent, reason))
          = {Clean(files[t][i]) : i \in Of(t, rows, parent, reason)}
    BY <1>2 DEF CleanOf
  <2>5. {i \in DOMAIN files[t] : Fate(t, i) = reason} = Of(t, rows, parent, reason)
    BY <1>9
  <2>6. QED
    BY <2>2, <2>3, <2>4, <2>5
<1>14. report.rows_read[t] = report.accepted[t] + report.duplicates[t]
          + Cardinality({i \in DOMAIN quarantine : quarantine[i].table = t})
  BY <1>8, <1>10 DEF RefusedIn
<1>15. QED
  BY <1>11, <1>12, <1>13, <1>14

-----------------------------------------------------------------------------
LEMMA PipelineInvHolds == Spec => []PipelineInv
<1>1. PipelineInv /\ [Next]_vars => PipelineInv'
  BY NextKeeps
<1>2. QED
  BY <1>1, InitHolds, PTL DEF Spec

\* Whatever the tables hold and however many rows they have: what every
\* variable can be, that every key is stored once and every stored reference
\* is to a stored row (pipeline.py:84-155), and that the agents start on
\* nothing that is in doubt (agents/context.py).
THEOREM ThePipelineIsSound == Spec => []PipelineInvariant
<1>1. PipelineInv => PipelineInvariant
  BY TypesHold, StoreHolds, AgentsHold DEF PipelineInvariant
<1>2. QED
  BY <1>1, PipelineInvHolds, PTL

\* No row is lost and none is counted twice: every row of every table is in
\* the store, is an exact duplicate or is in the quarantine for the reason
\* its place and its content give it (validator.py:44-85, pipeline.py:68-180).
THEOREM RowsAreNeverLost == Spec => []EveryRowIsAccountedFor
<1>1. QED
  BY RowsAreAccountedFor, PipelineInvHolds, PTL

\* A case shows its customer's past as of its focus, with all the records that
\* belong to it and no others, for a store of any size and any list of
\* transactions to focus on (consolidation/store.py, build_case).
THEOREM CasesLookBack == Spec => []CaseIsOfThePast
<1>1. PipelineInv => CaseIsOfThePast
  BY DEF PipelineInv, Outcome
<1>2. QED
  BY <1>1, PipelineInvHolds, PTL
=============================================================================
