----------------------------- MODULE BooksProofs -----------------------------
(***************************************************************************)
(* The books.  What the engine reconciles agrees with the ledger, for any  *)
(* transactions, ledgers, tolerances and times (ReconciliationIsFaithful). *)
(* And the synthetic data set that the engine is measured on is wrong      *)
(* where it is said to be and nowhere else, for any rows, configurations   *)
(* and draws: the engine finds what was injected into the ledger           *)
(* (InjectionsAreFound), and the labels say where (LabelsNameTheRecord).   *)
(***************************************************************************)
EXTENDS Engines, SyntheticLedger, Filters

-----------------------------------------------------------------------------
(* The postings of a transaction, in order.                                *)

Ledger(records) ==
    /\ records \in Seq(LedgerRecord)
    /\ \A i, j \in DOMAIN records : records[i].id = records[j].id => i = j

LEMMA RecordsAreTyped ==
    ASSUME NEW records, Ledger(records), NEW i \in DOMAIN records
    PROVE  /\ records[i] \in LedgerRecord
           /\ records[i].id \in Int /\ records[i].amount \in Int /\ records[i].posted \in Int
<1>1. records[i] \in LedgerRecord
  BY DEF Ledger
<1>2. QED
  BY <1>1 DEF LedgerRecord

\* The place of a record is how many come before it, so nobody comes before
\* the first.
LEMMA FirstCandidate ==
    ASSUME NEW tx, NEW records, Ledger(records)
    PROVE  /\ IsFiniteSet(Of(tx, records)) /\ Cardinality(Of(tx, records)) \in Nat
           /\ Candidates(tx, records) \in Seq(LedgerRecord)
           /\ Len(Candidates(tx, records)) = Cardinality(Of(tx, records))
           /\ Of(tx, records) # {} =>
                 \E i \in Of(tx, records) :
                     /\ Candidates(tx, records)[1] = records[i]
                     /\ \A j \in Of(tx, records) : ~Earlier(records[j], records[i])
<1> DEFINE I == Of(tx, records)
           A(i) == Ahead(tx, records, i)
           key == [i \in I |-> Cardinality(A(i))]
           candidates == Candidates(tx, records)
<1>1. /\ records \in Seq(LedgerRecord) /\ DOMAIN records = 1 .. Len(records) /\ Len(records) \in Nat
      /\ I \in SUBSET DOMAIN records
  BY DEF Ledger, Of
<1>2. IsFiniteSet(I)
  BY <1>1, CardinalityUpTo, FS_Subset
<1>3. \A i \in I : A(i) \subseteq I
  BY DEF Ahead
<1>4. \A i \in I : IsFiniteSet(A(i)) /\ Cardinality(A(i)) \in Nat
  BY <1>2, <1>3, FS_Subset, FS_CardinalityType
<1>5. key \in [I -> Int]
  BY <1>4
<1>6. candidates = Pick(records, I, key)
  BY DEF Candidates
<1>7. \A i \in I : records[i].posted \in Int /\ records[i].id \in Int
  BY <1>1, RecordsAreTyped
<1>8. ASSUME NEW i \in I, NEW j \in I, Earlier(records[j], records[i])
      PROVE  key[j] < key[i] /\ i # j
  <2>1. j \in A(i) /\ j \notin A(j)
    BY <1>7, <1>8 DEF Ahead, Earlier
  <2>2. A(j) \subseteq A(i)
    <3> SUFFICES ASSUME NEW k \in A(j) PROVE k \in A(i)
      OBVIOUS
    <3>1. k \in I /\ Earlier(records[k], records[j])
      BY DEF Ahead
    <3>2. Earlier(records[k], records[i])
      BY <1>7, <1>8, <3>1 DEF Earlier
    <3>3. QED
      BY <3>1, <3>2 DEF Ahead
  <2> HIDE DEF A
  <2>3. Cardinality(A(j)) < Cardinality(A(i))
    <3>1. Cardinality(A(j)) <= Cardinality(A(i)) /\ (Cardinality(A(i)) = Cardinality(A(j)) => A(i) = A(j))
      BY <1>4, <2>2, FS_Subset
    <3>2. QED
      BY <1>4, <2>1, <3>1
  <2>4. QED
    BY <2>1, <2>3
<1> HIDE DEF I, key, candidates
<1>9. /\ candidates \in Seq(LedgerRecord) /\ Len(candidates) = Cardinality(I) /\ Cardinality(I) \in Nat
      /\ \E place : /\ Enumerates(place, I, key)
                    /\ \A n \in 1 .. Cardinality(I) : candidates[n] = records[place[n]]
  <2>1. records \in Seq(LedgerRecord) /\ I \in SUBSET DOMAIN records /\ key \in [I -> Int]
    BY <1>1, <1>5
  <2>2. /\ Pick(records, I, key) \in Seq(LedgerRecord)
        /\ Len(Pick(records, I, key)) = Cardinality(I) /\ Cardinality(I) \in Nat
        /\ \E place : /\ Enumerates(place, I, key)
                      /\ \A n \in 1 .. Cardinality(I) : Pick(records, I, key)[n] = records[place[n]]
    BY ONLY <2>1, PickIsOrdered
  <2>3. QED
    BY <1>6, <2>2, Zenon
<1>10. ASSUME I # {}
       PROVE  \E i \in I : /\ candidates[1] = records[i]
                           /\ \A j \in I : ~Earlier(records[j], records[i])
  <2>1. PICK place : /\ Enumerates(place, I, key)
                     /\ \A n \in 1 .. Cardinality(I) : candidates[n] = records[place[n]]
    BY <1>9
  <2>2. 1 \in 1 .. Cardinality(I)
    <3>1. \E n \in 1 .. Cardinality(I) : TRUE
      BY <1>10, <2>1 DEF Enumerates
    <3>2. QED
      BY <1>9, <3>1
  <2>3. place[1] \in I /\ candidates[1] = records[place[1]]
    BY <2>1, <2>2 DEF Enumerates
  <2>4. ASSUME NEW j \in I, Earlier(records[j], records[place[1]])
        PROVE  FALSE
    <3>1. key[j] < key[place[1]] /\ place[1] # j
      BY <1>8, <2>3, <2>4
    <3>2. PICK n \in 1 .. Cardinality(I) : place[n] = j
      BY <2>1 DEF Enumerates
    <3>3. 1 < n
      BY <1>9, <3>1, <3>2
    <3>4. key[place[1]] <= key[j]
      <4>1. key[place[1]] \in Int /\ key[j] \in Int
        BY <1>5, <2>3
      <4>2. key[place[1]] < key[place[n]] \/ key[place[1]] = key[place[n]]
        BY <2>1, <2>2, <3>3 DEF Enumerates
      <4>3. QED
        BY <3>2, <4>1, <4>2
    <3>5. key[place[1]] \in Int /\ key[j] \in Int
      BY <1>5, <2>3
    <3>6. QED
      BY <3>1, <3>4, <3>5
  <2>5. QED
    BY <2>3, <2>4
<1>11. QED
  BY <1>2, <1>9, <1>10 DEF I, candidates

LEMMA FirstIsPrimary ==
    ASSUME NEW tx, NEW records, Ledger(records), Of(tx, records) # {}
    PROVE  /\ Candidates(tx, records)[1] = Primary(tx, records)
           /\ Primary(tx, records) \in LedgerRecord
<1> DEFINE mine == {records[j] : j \in Of(tx, records)}
           first(r) == \A s \in mine : r.posted < s.posted \/ (r.posted = s.posted /\ r.id <= s.id)
<1>1. PICK i \in Of(tx, records) : /\ Candidates(tx, records)[1] = records[i]
                                   /\ \A j \in Of(tx, records) : ~Earlier(records[j], records[i])
  BY FirstCandidate
<1>2. /\ \A j \in Of(tx, records) : records[j] \in LedgerRecord /\ records[j].posted \in Int /\ records[j].id \in Int
      /\ \A j, k \in Of(tx, records) : records[j].id = records[k].id => j = k
  BY RecordsAreTyped DEF Ledger, Of
<1>3. \A r \in mine : r.posted \in Int /\ r.id \in Int
  BY <1>2
<1>4. records[i] \in mine /\ first(records[i])
  BY <1>1, <1>2 DEF Earlier
<1>5. ASSUME NEW r \in mine, first(r)
      PROVE  r = records[i]
  <2>1. PICK j \in Of(tx, records) : r = records[j]
    OBVIOUS
  <2>2. r.posted = records[i].posted /\ r.id = records[i].id
    BY <1>3, <1>4, <1>5
  <2>3. QED
    BY <1>2, <2>1, <2>2
<1>6. Primary(tx, records) = CHOOSE r \in mine : first(r)
  BY DEF Primary
<1> HIDE DEF first, mine
<1>7. (CHOOSE r \in mine : first(r)) = records[i]
  BY <1>4, <1>5
<1>8. QED
  BY <1>1, <1>2, <1>6, <1>7

LEMMA RecordsAreNotMissing == \A r \in LedgerRecord : r # NoRecord
<1>1. \A r \in LedgerRecord : DOMAIN r = {"id", "tx", "amount", "currency", "reference", "posted", "settlement"}
  BY DEF LedgerRecord
<1>2. DOMAIN NoRecord = {"none"}
  BY DEF NoRecord
<1>3. QED
  BY <1>1, <1>2

LEMMA TheMatch ==
    ASSUME NEW tx, NEW records, Ledger(records), NEW m, m = Match(tx, records)
    PROVE  /\ m.tx = tx
           /\ Of(tx, records) = {} => m.primary = NoRecord
           /\ Of(tx, records) # {} => m.primary = Primary(tx, records) /\ m.primary # NoRecord
                                      /\ m.primary \in LedgerRecord
           /\ m.extras = <<>> <=> Cardinality(Of(tx, records)) <= 1
           /\ Cardinality(Of(tx, records)) \in Nat
           /\ Cardinality(Of(tx, records)) = 0 <=> Of(tx, records) = {}
<1> DEFINE c == Candidates(tx, records)
           I == Of(tx, records)
<1>1. /\ m.tx = tx /\ m.primary = (IF c = <<>> THEN NoRecord ELSE c[1])
      /\ m.extras = IF c = <<>> THEN <<>> ELSE Tail(c)
  BY DEF Match
<1>2. IsFiniteSet(I) /\ Cardinality(I) \in Nat /\ c \in Seq(LedgerRecord) /\ Len(c) = Cardinality(I)
  BY FirstCandidate
<1>3. Cardinality(I) = 0 <=> I = {}
  BY <1>2, FS_EmptySet
<1>4. I # {} => c[1] = Primary(tx, records) /\ Primary(tx, records) \in LedgerRecord
  BY FirstIsPrimary
<1>5. \A r \in LedgerRecord : r # NoRecord
  BY RecordsAreNotMissing
<1> HIDE DEF c, I
<1>6. c = <<>> <=> Cardinality(I) = 0
  BY <1>2
<1>7. m.extras = <<>> <=> Cardinality(I) <= 1
  <2>1. CASE c = <<>>
    BY <1>1, <1>6, <2>1
  <2>2. CASE c # <<>>
    <3>1. Tail(c) \in Seq(LedgerRecord) /\ Len(Tail(c)) = Len(c) - 1
      BY <1>2, <2>2
    <3>2. Tail(c) = <<>> <=> Len(c) = 1
      BY <1>2, <3>1
    <3>3. QED
      BY <1>1, <1>2, <1>6, <2>2, <3>2
  <2>3. QED
    BY <2>1, <2>2
<1>8. QED
  BY <1>1, <1>2, <1>3, <1>4, <1>5, <1>6, <1>7 DEF I

-----------------------------------------------------------------------------
(* What the rules find in a pair.                                          *)

Found(m, as_of) == {i \in RuleIds : Rule(i, m, as_of) # Nothing}

LEMMA SeveritiesAreFindings == \A s : Finds(s) # Nothing
BY DEF Finds, Nothing

LEMMA CentsAreNumbers == \A v \in Int : Cents(v) \in Int
BY DEF Cents

LEMMA DetectedIsFound ==
    ASSUME NEW m, NEW as_of
    PROVE  /\ Detect(m, as_of) = {} <=> Found(m, as_of) = {}
           /\ {d.rule : d \in Detect(m, as_of)} = Found(m, as_of)
           /\ \A d, e \in Detect(m, as_of) : d.rule = e.rule => d = e
<1> DEFINE item(i) == [rule |-> i, severity |-> Rule(i, m, as_of)[1]]
<1>1. Detect(m, as_of) = {item(i) : i \in Found(m, as_of)}
  BY DEF Detect, Found
<1>2. \A i \in Found(m, as_of) : item(i).rule = i
  OBVIOUS
<1> HIDE DEF item
<1>3. QED
  BY <1>1, <1>2

LEMMA RulesByName ==
    ASSUME NEW m, NEW as_of
    PROVE  /\ Rule("REC-001", m, as_of) = MissingLedger(m)
           /\ Rule("REC-002", m, as_of) = DuplicatePosting(m)
           /\ m.primary = NoRecord =>
                 \A i \in RuleIds \ {"REC-001", "REC-002"} : Rule(i, m, as_of) = Nothing
           /\ m.primary # NoRecord =>
                 /\ Rule("REC-003", m, as_of) = AmountRule(m)
                 /\ Rule("REC-004", m, as_of) = CurrencyRule(m)
                 /\ Rule("REC-005", m, as_of) = ReferenceMissing(m)
                 /\ Rule("REC-006", m, as_of) = ReferenceMismatch(m)
                 /\ Rule("REC-007", m, as_of) = PostedBefore(m)
                 /\ Rule("REC-008", m, as_of) = LatePosting(m)
                 /\ Rule("REC-009", m, as_of) = SettlementFailed(m)
                 /\ Rule("REC-010", m, as_of) = StalePending(m, as_of)
BY DEF Rule, RuleIds

\* Each rule of a posting, as a condition on the transaction and the posting.
LEMMA WhatIsFound ==
    ASSUME NEW m, NEW as_of \in Nat \cup {NoTime}, m.tx \in Transaction, m.primary \in LedgerRecord
    PROVE  LET tx == m.tx
               r  == m.primary
           IN  /\ "REC-003" \in Found(m, as_of) <=>
                      Cents(tx.amount) - Cents(r.amount) \notin -AmountToleranceCents .. AmountToleranceCents
               /\ "REC-004" \in Found(m, as_of) <=> tx.currency # r.currency
               /\ "REC-005" \in Found(m, as_of) <=> (tx.reference = NoReference) # (r.reference = NoReference)
               /\ "REC-006" \in Found(m, as_of) <=>
                      /\ tx.reference # NoReference /\ r.reference # NoReference
                      /\ tx.reference # r.reference
               /\ "REC-007" \in Found(m, as_of) <=> r.posted - tx.time < 0
               /\ "REC-008" \in Found(m, as_of) <=> r.posted - tx.time > MaxPostingLag
               /\ "REC-009" \in Found(m, as_of) <=> CheckSettlementStatus /\ r.settlement = "failed"
               /\ "REC-010" \in Found(m, as_of) <=>
                      /\ CheckSettlementStatus /\ as_of # NoTime /\ r.settlement = "pending"
                      /\ as_of > tx.time + StalePendingAfter
<1> DEFINE tx == m.tx
           r  == m.primary
<1>1. m.primary # NoRecord
  BY RecordsAreNotMissing
<1>2. /\ tx.amount \in Int /\ tx.time \in Int /\ r.amount \in Int /\ r.posted \in Int
      /\ {AmountToleranceCents, MaxPostingLag, StalePendingAfter} \subseteq Nat
      /\ Cents(tx.amount) \in Int /\ Cents(r.amount) \in Int
  BY CentsAreNumbers, ToleranceAssumption DEF Transaction, LedgerRecord
<1>3. /\ "REC-003" \in Found(m, as_of) <=> AmountRule(m) # Nothing
      /\ "REC-004" \in Found(m, as_of) <=> CurrencyRule(m) # Nothing
      /\ "REC-005" \in Found(m, as_of) <=> ReferenceMissing(m) # Nothing
      /\ "REC-006" \in Found(m, as_of) <=> ReferenceMismatch(m) # Nothing
      /\ "REC-007" \in Found(m, as_of) <=> PostedBefore(m) # Nothing
      /\ "REC-008" \in Found(m, as_of) <=> LatePosting(m) # Nothing
      /\ "REC-009" \in Found(m, as_of) <=> SettlementFailed(m) # Nothing
      /\ "REC-010" \in Found(m, as_of) <=> StalePending(m, as_of) # Nothing
  BY <1>1, RulesByName DEF Found, RuleIds
<1>4. AmountRule(m) # Nothing <=>
         Cents(tx.amount) - Cents(r.amount) \notin -AmountToleranceCents .. AmountToleranceCents
  <2>1. AmountRule(m) # Nothing <=> ~WithinTolerance(Cents(r.amount) - Cents(tx.amount))
    BY SeveritiesAreFindings DEF AmountRule
  <2>2. \A d \in Int : WithinTolerance(d) <=> d \in -AmountToleranceCents .. AmountToleranceCents
    BY <1>2 DEF WithinTolerance, Abs
  <2>3. QED
    BY <1>2, <2>1, <2>2
<1>5. CurrencyRule(m) # Nothing <=> tx.currency # r.currency
  BY SeveritiesAreFindings DEF CurrencyRule
<1>6. ReferenceMissing(m) # Nothing <=> (tx.reference = NoReference) # (r.reference = NoReference)
  BY SeveritiesAreFindings DEF ReferenceMissing
<1>7. ReferenceMismatch(m) # Nothing <=> /\ tx.reference # NoReference /\ r.reference # NoReference
                                         /\ tx.reference # r.reference
  BY SeveritiesAreFindings DEF ReferenceMismatch
<1>8. PostedBefore(m) # Nothing <=> r.posted - tx.time < 0
  BY SeveritiesAreFindings DEF PostedBefore, Lag
<1>9. LatePosting(m) # Nothing <=> r.posted - tx.time > MaxPostingLag
  <2>1. LatePosting(m) # Nothing <=> ~(r.posted - tx.time <= MaxPostingLag)
    BY SeveritiesAreFindings DEF LatePosting, Lag
  <2>2. QED
    BY <1>2, <2>1
<1>10. SettlementFailed(m) # Nothing <=> CheckSettlementStatus /\ r.settlement = "failed"
  BY SeveritiesAreFindings DEF SettlementFailed
<1>11. StalePending(m, as_of) # Nothing <=>
          /\ CheckSettlementStatus /\ as_of # NoTime /\ r.settlement = "pending"
          /\ as_of > tx.time + StalePendingAfter
  <2>1. StalePending(m, as_of) # Nothing <=>
           /\ CheckSettlementStatus /\ as_of # NoTime /\ r.settlement = "pending"
           /\ as_of - tx.time > StalePendingAfter
    BY SeveritiesAreFindings DEF StalePending
  <2>2. as_of \in Int
    BY DEF NoTime
  <2>3. QED
    BY <1>2, <2>1, <2>2
<1> HIDE DEF tx, r
<1>12. QED
  BY <1>3, <1>4, <1>5, <1>6, <1>7, <1>8, <1>9, <1>10, <1>11, Zenon DEF tx, r

\* Without a posting only its absence is found.
LEMMA WhatIsFoundOfNone ==
    ASSUME NEW m, NEW as_of, m.primary = NoRecord, m.extras = <<>>
    PROVE  Found(m, as_of) = {"REC-001"}
<1>1. Rule("REC-001", m, as_of) # Nothing
  BY RulesByName, SeveritiesAreFindings DEF MissingLedger
<1>2. Rule("REC-002", m, as_of) = Nothing
  BY RulesByName DEF DuplicatePosting
<1>3. \A i \in RuleIds \ {"REC-001", "REC-002"} : Rule(i, m, as_of) = Nothing
  BY RulesByName
<1>4. "REC-001" \in RuleIds
  BY DEF RuleIds
<1>5. QED
  BY <1>1, <1>2, <1>3, <1>4 DEF Found

LEMMA WhatIsFoundOfSome ==
    ASSUME NEW m, NEW as_of, m.primary # NoRecord
    PROVE  /\ "REC-001" \notin Found(m, as_of)
           /\ "REC-002" \in Found(m, as_of) <=> m.extras # <<>>
<1>1. Rule("REC-001", m, as_of) = Nothing
  BY RulesByName DEF MissingLedger
<1>2. Rule("REC-002", m, as_of) # Nothing <=> m.extras # <<>>
  BY RulesByName, SeveritiesAreFindings DEF DuplicatePosting
<1>3. "REC-002" \in RuleIds
  BY DEF RuleIds
<1>4. QED
  BY <1>1, <1>2, <1>3 DEF Found

-----------------------------------------------------------------------------
(* What a look at a transaction answers.                                   *)

\* Every rule in turn.
LEMMA NothingFound ==
    ASSUME NEW S \in SUBSET RuleIds
    PROVE  S = {} <=> /\ "REC-001" \notin S /\ "REC-002" \notin S /\ "REC-003" \notin S
                      /\ "REC-004" \notin S /\ "REC-005" \notin S /\ "REC-006" \notin S
                      /\ "REC-007" \notin S /\ "REC-008" \notin S /\ "REC-009" \notin S
                      /\ "REC-010" \notin S
BY DEF RuleIds

LEMMA ReconciledWhenAgreed ==
    ASSUME NEW tx \in Transaction, NEW records, Ledger(records), NEW as_of \in Nat \cup {NoTime},
           NEW m, m = Match(tx, records)
    PROVE  LET r == Primary(tx, records)
           IN  Found(m, as_of) = {} <=>
                  /\ Cardinality(Of(tx, records)) = 1
                  /\ Agree(tx, r)
                  /\ CheckSettlementStatus =>
                        /\ r.settlement # "failed"
                        /\ r.settlement = "pending" /\ as_of # NoTime =>
                               as_of <= tx.time + StalePendingAfter
<1> DEFINE I == Of(tx, records)
           r == Primary(tx, records)
           F == Found(m, as_of)
<1>1. /\ m.tx = tx
      /\ I = {} => m.primary = NoRecord
      /\ I # {} => m.primary = r /\ m.primary # NoRecord /\ m.primary \in LedgerRecord
      /\ m.extras = <<>> <=> Cardinality(I) <= 1
      /\ Cardinality(I) \in Nat
      /\ Cardinality(I) = 0 <=> I = {}
  BY TheMatch
<1>2. CASE I = {}
  <2>1. "REC-001" \in F
    BY <1>1, <1>2, WhatIsFoundOfNone
  <2> HIDE DEF F, I
  <2>2. QED
    BY <1>1, <1>2, <2>1 DEF F, I
<1>3. CASE I # {}
  <2>1. /\ r = m.primary /\ r \in LedgerRecord /\ m.tx = tx
    BY <1>1, <1>3
  <2>2. /\ "REC-001" \notin F
        /\ "REC-002" \in F <=> Cardinality(I) # 1
    <3>1. Cardinality(I) <= 1 <=> Cardinality(I) = 1
      BY <1>1, <1>3
    <3>2. QED
      BY <1>1, <1>3, <3>1, WhatIsFoundOfSome
  <2>3. /\ "REC-003" \in F <=>
               Cents(tx.amount) - Cents(r.amount) \notin -AmountToleranceCents .. AmountToleranceCents
        /\ "REC-004" \in F <=> tx.currency # r.currency
        /\ "REC-005" \in F <=> (tx.reference = NoReference) # (r.reference = NoReference)
        /\ "REC-006" \in F <=>
               /\ tx.reference # NoReference /\ r.reference # NoReference
               /\ tx.reference # r.reference
        /\ "REC-007" \in F <=> r.posted - tx.time < 0
        /\ "REC-008" \in F <=> r.posted - tx.time > MaxPostingLag
        /\ "REC-009" \in F <=> CheckSettlementStatus /\ r.settlement = "failed"
        /\ "REC-010" \in F <=>
               /\ CheckSettlementStatus /\ as_of # NoTime /\ r.settlement = "pending"
               /\ as_of > tx.time + StalePendingAfter
    BY <2>1, WhatIsFound
  <2>4. F = {} <=> /\ "REC-001" \notin F /\ "REC-002" \notin F /\ "REC-003" \notin F
                   /\ "REC-004" \notin F /\ "REC-005" \notin F /\ "REC-006" \notin F
                   /\ "REC-007" \notin F /\ "REC-008" \notin F /\ "REC-009" \notin F
                   /\ "REC-010" \notin F
    <3>1. F \in SUBSET RuleIds
      BY DEF Found
    <3> HIDE DEF F
    <3>2. QED
      BY <3>1, NothingFound
  <2>5. /\ r.posted \in Int /\ tx.time \in Int /\ as_of \in Int
        /\ MaxPostingLag \in Nat /\ StalePendingAfter \in Nat
    BY <2>1, ToleranceAssumption DEF Transaction, LedgerRecord, NoTime
  <2> DEFINE amounts == Cents(tx.amount) - Cents(r.amount) \in -AmountToleranceCents .. AmountToleranceCents
             timely == r.posted - tx.time \in 0 .. MaxPostingLag
             settled == CheckSettlementStatus =>
                           /\ r.settlement # "failed"
                           /\ r.settlement = "pending" /\ as_of # NoTime =>
                                  as_of <= tx.time + StalePendingAfter
  <2>6. timely <=> ~(r.posted - tx.time < 0) /\ ~(r.posted - tx.time > MaxPostingLag)
    BY <2>5
  <2>7. settled <=> "REC-009" \notin F /\ "REC-010" \notin F
    <3>1. as_of > tx.time + StalePendingAfter <=> ~(as_of <= tx.time + StalePendingAfter)
      BY <2>5
    <3>2. QED
      BY <2>3, <3>1, Zenon
  <2>8. tx.reference = r.reference <=> "REC-005" \notin F /\ "REC-006" \notin F
    BY <2>3
  <2>9. Agree(tx, r) <=> amounts /\ tx.currency = r.currency /\ tx.reference = r.reference /\ timely
    BY DEF Agree
  <2> HIDE DEF F, amounts, timely, settled
  <2>10. F = {} <=> Cardinality(I) = 1 /\ Agree(tx, r) /\ settled
    <3>1. amounts <=> "REC-003" \notin F
      BY <2>3 DEF amounts
    <3>2. timely <=> "REC-007" \notin F /\ "REC-008" \notin F
      BY <2>3, <2>6
    <3>3. tx.currency = r.currency <=> "REC-004" \notin F
      BY <2>3
    <3> HIDE DEF I, r
    <3>4. QED
      BY <2>2, <2>4, <2>7, <2>8, <2>9, <3>1, <3>2, <3>3, Zenon
  <2>11. QED
    BY <2>10 DEF F, settled
<1>4. QED
  BY <1>2, <1>3

\* No two rules accuse the same thing, and nothing else is wrong with what
\* was never posted.
LEMMA RulesExclude ==
    ASSUME NEW tx \in Transaction, NEW records, Ledger(records), NEW as_of \in Nat \cup {NoTime},
           NEW m, m = Match(tx, records)
    PROVE  /\ \A pair \in {{"REC-005", "REC-006"}, {"REC-007", "REC-008"}, StatusRules} :
                  ~(pair \subseteq Found(m, as_of))
           /\ "REC-001" \in Found(m, as_of) => Found(m, as_of) = {"REC-001"}
<1> DEFINE I == Of(tx, records)
           F == Found(m, as_of)
<1>1. /\ m.tx = tx
      /\ I = {} => m.primary = NoRecord /\ m.extras = <<>>
      /\ I # {} => m.primary # NoRecord /\ m.primary \in LedgerRecord
  <2>1. I = {} => Cardinality(I) = 0
    BY TheMatch
  <2>2. QED
    BY <2>1, TheMatch
<1>2. CASE I = {}
  <2>1. F = {"REC-001"}
    BY <1>1, <1>2, WhatIsFoundOfNone
  <2> HIDE DEF F
  <2>2. QED
    BY <2>1 DEF F, StatusRules
<1>3. CASE I # {}
  <2>1. "REC-001" \notin F
    BY <1>1, <1>3, WhatIsFoundOfSome
  <2> DEFINE r == m.primary
  <2>2. /\ "REC-005" \in F <=> (tx.reference = NoReference) # (r.reference = NoReference)
        /\ "REC-006" \in F => tx.reference # NoReference /\ r.reference # NoReference
        /\ "REC-007" \in F <=> r.posted - tx.time < 0
        /\ "REC-008" \in F <=> r.posted - tx.time > MaxPostingLag
        /\ "REC-009" \in F => r.settlement = "failed"
        /\ "REC-010" \in F => r.settlement = "pending"
    BY <1>1, <1>3, WhatIsFound
  <2>3. /\ r.posted - tx.time \in Int /\ MaxPostingLag \in Nat
    BY <1>1, <1>3, ToleranceAssumption DEF Transaction, LedgerRecord
  <2>4. ~("REC-005" \in F /\ "REC-006" \in F)
    BY <2>2
  <2>5. ~("REC-007" \in F /\ "REC-008" \in F)
    BY <2>2, <2>3
  <2>6. ~("REC-009" \in F /\ "REC-010" \in F)
    BY <2>2
  <2> HIDE DEF F
  <2>7. QED
    BY <2>1, <2>4, <2>5, <2>6 DEF F, StatusRules
<1>4. QED
  BY <1>2, <1>3

\* A later look finds what an earlier one did.
LEMMA LaterFindsNoLess ==
    ASSUME NEW m, NEW as_of \in Nat, m.tx \in Transaction, m.primary = NoRecord \/ m.primary \in LedgerRecord
    PROVE  Detect(m, as_of) \subseteq Detect(m, as_of + 1)
<1>1. ASSUME NEW i \in Found(m, as_of)
      PROVE  Rule(i, m, as_of + 1) = Rule(i, m, as_of)
  <2>1. CASE i # "REC-010"
    BY <2>1 DEF Rule, Found, RuleIds
  <2>2. CASE i = "REC-010"
    <3>1. m.primary # NoRecord
      BY <2>2, RulesByName DEF Found, RuleIds
    <3>2. StalePending(m, as_of) # Nothing
      BY <2>2, <3>1, RulesByName DEF Found
    <3>3. /\ CheckSettlementStatus /\ as_of # NoTime /\ m.primary.settlement = "pending"
          /\ as_of - m.tx.time > StalePendingAfter
      BY <3>2 DEF StalePending
    <3>4. (as_of + 1) - m.tx.time > StalePendingAfter /\ as_of + 1 # NoTime
      BY <3>3, ToleranceAssumption DEF Transaction, NoTime
    <3>5. StalePending(m, as_of) = Finds("medium")
      BY <3>3, Zenon DEF StalePending
    <3>6. StalePending(m, as_of + 1) = Finds("medium")
      BY <3>3, <3>4, Zenon DEF StalePending
    <3>7. QED
      BY <2>2, <3>1, <3>5, <3>6, RulesByName
  <2>3. QED
    BY <2>1, <2>2
<1>2. SUFFICES ASSUME NEW d \in Detect(m, as_of) PROVE d \in Detect(m, as_of + 1)
  OBVIOUS
<1>3. PICK i \in Found(m, as_of) : d = [rule |-> i, severity |-> Rule(i, m, as_of)[1]]
  BY DEF Detect, Found
<1>4. i \in RuleIds /\ Rule(i, m, as_of + 1) # Nothing
  BY <1>1 DEF Found
<1>5. d = [rule |-> i, severity |-> Rule(i, m, as_of + 1)[1]]
  BY <1>1, <1>3
<1>6. QED
  BY <1>4, <1>5 DEF Detect

\* The rules look at the transaction, the posting and whether there is another.
LEMMA SamePairSameFindings ==
    ASSUME NEW m, NEW n, NEW as_of, m.tx = n.tx, m.primary = n.primary,
           m.extras = <<>> <=> n.extras = <<>>
    PROVE  Detect(m, as_of) = Detect(n, as_of)
<1>1. /\ MissingLedger(m) = MissingLedger(n) /\ DuplicatePosting(m) = DuplicatePosting(n)
      /\ AmountRule(m) = AmountRule(n) /\ CurrencyRule(m) = CurrencyRule(n)
      /\ ReferenceMissing(m) = ReferenceMissing(n) /\ ReferenceMismatch(m) = ReferenceMismatch(n)
      /\ PostedBefore(m) = PostedBefore(n) /\ LatePosting(m) = LatePosting(n)
      /\ SettlementFailed(m) = SettlementFailed(n) /\ StalePending(m, as_of) = StalePending(n, as_of)
  BY Zenon DEF MissingLedger, DuplicatePosting, AmountRule, CurrencyRule, ReferenceMissing, ReferenceMismatch,
               PostedBefore, LatePosting, Lag, SettlementFailed, StalePending
<1>2. \A i \in RuleIds : Rule(i, m, as_of) = Rule(i, n, as_of)
  <2> DEFINE others == RuleIds \ {"REC-001", "REC-002"}
  <2>1. m.primary = NoRecord => \A i \in others : Rule(i, m, as_of) = Nothing
    BY RulesByName
  <2>2. m.primary = NoRecord => \A i \in others : Rule(i, n, as_of) = Nothing
    BY RulesByName
  <2>3. /\ Rule("REC-001", m, as_of) = Rule("REC-001", n, as_of)
        /\ Rule("REC-002", m, as_of) = Rule("REC-002", n, as_of)
    BY <1>1, RulesByName
  <2>4. CASE m.primary = NoRecord
    <3>1. RuleIds = others \cup {"REC-001", "REC-002"}
      BY DEF RuleIds
    <3> HIDE DEF others
    <3>2. QED
      BY <2>1, <2>2, <2>3, <2>4, <3>1
  <2>5. CASE m.primary # NoRecord
    BY <1>1, <2>5, RulesByName DEF RuleIds
  <2>6. QED
    BY <2>4, <2>5
<1>3. QED
  BY <1>2 DEF Detect

LEMMA ReversedLedger ==
    ASSUME NEW tx \in Transaction, NEW records, Ledger(records), NEW as_of
    PROVE  Reconcile(tx, records, as_of) = Reconcile(tx, Reverse(records), as_of)
<1> DEFINE n == Len(records)
           back == Reverse(records)
           I == Of(tx, records)
           J == Of(tx, back)
           flip == [i \in I |-> n - i + 1]
<1>1. records \in Seq(LedgerRecord) /\ n \in Nat /\ DOMAIN records = 1 .. n
  BY DEF Ledger
<1>2. /\ back = [i \in 1 .. n |-> records[n - i + 1]]
      /\ back \in Seq(LedgerRecord) /\ DOMAIN back = 1 .. n /\ Len(back) = n
      /\ \A i \in 1 .. n : back[i] = records[n - i + 1] /\ n - i + 1 \in 1 .. n
  <2>1. back = [i \in 1 .. n |-> records[n - i + 1]]
    BY DEF Reverse
  <2>2. \A i \in 1 .. n : n - i + 1 \in 1 .. n
    BY <1>1
  <2>3. \A i \in 1 .. n : records[n - i + 1] \in LedgerRecord
    BY <1>1, <2>2
  <2>4. QED
    BY <1>1, <2>1, <2>2, <2>3
<1> HIDE DEF back, n
<1>3. Ledger(back)
  <2> SUFFICES ASSUME NEW i \in 1 .. n, NEW j \in 1 .. n, back[i].id = back[j].id PROVE i = j
    BY <1>2 DEF Ledger
  <2>1. n - i + 1 = n - j + 1
    BY <1>1, <1>2 DEF Ledger
  <2>2. QED
    BY <1>1, <2>1
<1>4. I \subseteq 1 .. n /\ J \subseteq 1 .. n
  BY <1>1, <1>2 DEF Of
<1>5. \A i \in 1 .. n : n - (n - i + 1) + 1 = i /\ n - i + 1 \in 1 .. n
  BY <1>1
<1>6. \A i \in 1 .. n : i \in I <=> n - i + 1 \in J
  BY <1>1, <1>2, <1>5 DEF Of
<1>7. flip \in Bijection(I, J)
  <2>1. \A i \in I : flip[i] \in J
    BY <1>4, <1>6
  <2>2. \A i, j \in I : flip[i] = flip[j] => i = j
    BY <1>1, <1>4
  <2>3. \A j \in J : \E i \in I : flip[i] = j
    <3> SUFFICES ASSUME NEW j \in J PROVE \E i \in I : flip[i] = j
      OBVIOUS
    <3>1. n - j + 1 \in I /\ n - (n - j + 1) + 1 = j
      BY <1>4, <1>5, <1>6
    <3>2. QED
      BY <3>1
  <2> HIDE DEF I, J
  <2>4. flip \in [I -> J]
    BY <2>1
  <2>5. QED
    BY <2>2, <2>3, <2>4 DEF Bijection, Injection, IsInjective, Surjection
<1>8. Cardinality(I) = Cardinality(J) /\ (I = {} <=> J = {})
  <2>1. IsFiniteSet(I)
    BY FirstCandidate
  <2>2. I = {} <=> J = {}
    BY <1>7 DEF Bijection, Surjection
  <2> HIDE DEF I, J, flip
  <2>3. Cardinality(I) = Cardinality(J)
    BY <1>7, <2>1, FS_Bijection DEF ExistsBijection
  <2>4. QED
    BY <2>2, <2>3
<1>9. {records[i] : i \in I} = {back[j] : j \in J}
  <2>1. \A i \in I : back[n - i + 1] = records[i] /\ n - i + 1 \in J
    BY <1>2, <1>4, <1>5, <1>6
  <2>2. \A j \in J : back[j] = records[n - j + 1] /\ n - j + 1 \in I
    BY <1>2, <1>4, <1>5, <1>6
  <2> HIDE DEF I, J
  <2>3. QED
    BY <2>1, <2>2
<1>10. Primary(tx, records) = Primary(tx, back)
  BY <1>9 DEF Primary
<1> DEFINE m == Match(tx, records)
           k == Match(tx, back)
<1>11. m.tx = k.tx /\ m.primary = k.primary /\ (m.extras = <<>> <=> k.extras = <<>>)
  <2>1. /\ m.tx = tx
        /\ I = {} => m.primary = NoRecord
        /\ I # {} => m.primary = Primary(tx, records)
        /\ m.extras = <<>> <=> Cardinality(I) <= 1
    BY TheMatch
  <2>2. /\ k.tx = tx
        /\ J = {} => k.primary = NoRecord
        /\ J # {} => k.primary = Primary(tx, back)
        /\ k.extras = <<>> <=> Cardinality(J) <= 1
    BY <1>3, TheMatch
  <2> HIDE DEF m, k, I, J
  <2>3. QED
    BY <1>8, <1>10, <2>1, <2>2
<1> HIDE DEF m, k
<1>12. Detect(m, as_of) = Detect(k, as_of)
  BY <1>11, SamePairSameFindings
<1>13. QED
  BY <1>11, <1>12 DEF Reconcile, m, k, back

LEMMA ReconcilingIsSound ==
    ASSUME NEW tx \in Transaction, NEW records, Ledger(records), NEW as_of \in Nat \cup {NoTime}
    PROVE  ResultIsFaithful(tx, records, as_of)
<1> DEFINE m == Match(tx, records)
           I == Of(tx, records)
           r == Primary(tx, records)
           result == Reconcile(tx, records, as_of)
           rules == {d.rule : d \in result.discrepancies}
           settled == CheckSettlementStatus =>
                          /\ r.settlement # "failed"
                          /\ r.settlement = "pending" /\ as_of # NoTime =>
                                 as_of <= tx.time + StalePendingAfter
<1>1. /\ result.reconciled = (Detect(m, as_of) = {})
      /\ result.discrepancies = Detect(m, as_of)
      /\ result.ledger = IF m.primary = NoRecord THEN 0 ELSE m.primary.id
  BY DEF Reconcile
<1>2. rules = Found(m, as_of)
  BY <1>1, DetectedIsFound
<1>3. result.reconciled <=> Cardinality(I) = 1 /\ Agree(tx, r) /\ settled
  <2>1. Found(m, as_of) = {} <=> Cardinality(I) = 1 /\ Agree(tx, r) /\ settled
    BY ReconciledWhenAgreed
  <2> HIDE DEF I, r, settled, m, result
  <2>2. QED
    BY <1>1, <2>1, DetectedIsFound
<1>4. \A d, e \in result.discrepancies : d.rule = e.rule => d = e
  <2>1. \A d, e \in Detect(m, as_of) : d.rule = e.rule => d = e
    BY DetectedIsFound
  <2> HIDE DEF result
  <2>2. QED
    BY <1>1, <2>1
<1>5. /\ \A pair \in {{"REC-005", "REC-006"}, {"REC-007", "REC-008"}, StatusRules} : ~(pair \subseteq rules)
      /\ "REC-001" \in rules => rules = {"REC-001"}
  <2>1. /\ \A pair \in {{"REC-005", "REC-006"}, {"REC-007", "REC-008"}, StatusRules} :
               ~(pair \subseteq Found(m, as_of))
        /\ "REC-001" \in Found(m, as_of) => Found(m, as_of) = {"REC-001"}
    BY RulesExclude
  <2> HIDE DEF rules
  <2>2. QED
    BY <1>2, <2>1
<1>6. I # {} => result.ledger = r.id
  <2>1. I # {} => m.primary = r /\ m.primary # NoRecord
    BY TheMatch
  <2> HIDE DEF I, r, m, result
  <2>2. QED
    BY <1>1, <2>1
<1>7. result = Reconcile(tx, Reverse(records), as_of)
  BY ReversedLedger
<1>8. as_of # NoTime => result.discrepancies \subseteq Reconcile(tx, records, as_of + 1).discrepancies
  <2>1. SUFFICES ASSUME as_of # NoTime
                 PROVE  result.discrepancies \subseteq Reconcile(tx, records, as_of + 1).discrepancies
    OBVIOUS
  <2>2. as_of \in Nat
    BY <2>1 DEF NoTime
  <2>3. Reconcile(tx, records, as_of + 1).discrepancies = Detect(m, as_of + 1)
    BY DEF Reconcile
  <2>4. m.tx = tx /\ (m.primary = NoRecord \/ m.primary \in LedgerRecord)
    BY TheMatch
  <2> HIDE DEF m, result
  <2>5. Detect(m, as_of) \subseteq Detect(m, as_of + 1)
    BY <2>2, <2>4, LaterFindsNoLess
  <2>6. QED
    BY <1>1, <2>3, <2>5
<1> HIDE DEF rules, settled
<1>9. QED
  BY <1>3, <1>4, <1>5, <1>6, <1>7, <1>8, Zenon DEF ResultIsFaithful, I, r, result, rules, settled

-----------------------------------------------------------------------------
(* What the agent shows of the answers.                                    *)

LEMMA EvidenceNamesTheTransaction ==
    ASSUME NEW tx, NEW records, NEW as_of, NEW result, result = Reconcile(tx, records, as_of)
    PROVE  /\ {e.of : e \in EvidenceOf(result)} = {tx.id}
           /\ \A d \in result.discrepancies :
                 [of |-> tx.id, rule |-> d.rule, severity |-> d.severity] \in EvidenceOf(result)
<1>1. result.tx = tx.id
  BY DEF Reconcile
<1>2. CASE result.discrepancies = {}
  <2>1. EvidenceOf(result) = {[of |-> tx.id, rule |-> "OK", severity |-> "none"]}
    BY <1>1, <1>2 DEF EvidenceOf
  <2>2. QED
    BY <1>2, <2>1
<1>3. CASE result.discrepancies # {}
  <2>1. EvidenceOf(result) = {[of |-> tx.id, rule |-> d.rule, severity |-> d.severity] : d \in result.discrepancies}
    BY <1>1, <1>3 DEF EvidenceOf
  <2>2. \A d \in result.discrepancies :
           [of |-> tx.id, rule |-> d.rule, severity |-> d.severity] \in EvidenceOf(result)
    BY <2>1
  <2>3. \A e \in EvidenceOf(result) : e.of = tx.id
    BY <2>1
  <2>4. \E e \in EvidenceOf(result) : TRUE
    BY <1>3, <2>2
  <2>5. QED
    BY <2>2, <2>3, <2>4
<1>4. QED
  BY <1>2, <1>3

LEMMA FocusIsShown ==
    ASSUME NEW focus \in SUBSET Payments, NEW context \in SUBSET Payments, NEW records, NEW as_of
    PROVE  EvidenceIsComplete(focus, context, records, as_of)
<1> DEFINE look(tx) == Reconcile(tx, records, as_of)
           listing == {look(tx) : tx \in focus \cup context}
           ids  == {tx.id : tx \in focus}
           rest == {r \in listing : r.tx \notin ids}
           out  == ReconciliationOutput(focus, context, records, as_of)
           evidence == UNION {EvidenceOf(r) : r \in {q \in listing : q.tx \in ids}}
<1>1. out.evidence = evidence /\ out.context.seen = Cardinality(rest)
  BY DEF ReconciliationOutput, ReconcileCase, ContextResults
<1>2. \A tx : look(tx).tx = tx.id
  BY DEF Reconcile
<1>3. \A tx \in Payments : tx.id \in ids => tx \in focus
  BY LedgersAssumption
<1>4. /\ \A tx : {e.of : e \in EvidenceOf(look(tx))} = {tx.id}
      /\ \A tx : \A d \in look(tx).discrepancies :
            [of |-> tx.id, rule |-> d.rule, severity |-> d.severity] \in EvidenceOf(look(tx))
  BY EvidenceNamesTheTransaction
<1> HIDE DEF look
<1>5. {q \in listing : q.tx \in ids} = {look(tx) : tx \in focus}
  BY <1>2, <1>3
<1>6. evidence = UNION {EvidenceOf(look(tx)) : tx \in focus}
  BY <1>5
<1>7. {e.of : e \in evidence} = ids
  <2>1. \A tx : \A e \in EvidenceOf(look(tx)) : e.of = tx.id
    BY <1>4
  <2>2. \A tx : \E e \in EvidenceOf(look(tx)) : TRUE
    BY <1>4
  <2>3. ASSUME NEW e \in evidence PROVE e.of \in ids
    BY <1>6, <2>1, <2>3
  <2>4. ASSUME NEW tx \in focus PROVE \E e \in evidence : e.of = tx.id
    <3>1. PICK e \in EvidenceOf(look(tx)) : TRUE
      BY <2>2
    <3>2. e \in evidence
      BY <1>6
    <3>3. QED
      BY <2>1, <3>2
  <2> HIDE DEF evidence
  <2>5. QED
    BY <2>3, <2>4
<1>8. Cardinality(rest) = Cardinality(context \ focus)
  <2> DEFINE S == context \ focus
             f == [tx \in S |-> look(tx)]
  <2>1. IsFiniteSet(S)
    BY LedgersAssumption, FS_Subset
  <2>2. rest = {look(tx) : tx \in S}
    BY <1>2, <1>3
  <2>3. \A tx, other \in S : look(tx) = look(other) => tx = other
    BY <1>2, LedgersAssumption
  <2> HIDE DEF rest, S
  <2>4. f \in Bijection(S, rest)
    BY <2>2, <2>3 DEF Bijection, Injection, IsInjective, Surjection
  <2> HIDE DEF f
  <2>5. Cardinality(rest) = Cardinality(S)
    BY <2>1, <2>4, FS_Bijection DEF ExistsBijection
  <2>6. QED
    BY <2>5 DEF S
<1>9. ASSUME NEW tx \in focus, NEW d \in look(tx).discrepancies
      PROVE  [of |-> tx.id, rule |-> d.rule, severity |-> d.severity] \in evidence
  BY <1>4, <1>6
<1> HIDE DEF evidence, rest, ids, out
<1>10. QED
  BY <1>1, <1>7, <1>8, <1>9, Zenon DEF EvidenceIsComplete, out, look, ids

-----------------------------------------------------------------------------
ReconcileAsked ==
    call = "reconciliation" =>
        /\ asked.tx \in Payments /\ asked.context \in SUBSET Payments
        /\ asked.ledger \in Postings /\ asked.as_of \in AsOfs

LEMMA AskedIsReconciled ==
    ASSUME ReconcileAsked
    PROVE  ReconciliationIsFaithful
<1> SUFFICES ASSUME call = "reconciliation"
             PROVE  /\ ResultIsFaithful(asked.tx, asked.ledger, asked.as_of)
                    /\ EvidenceIsComplete({asked.tx}, asked.context, asked.ledger, asked.as_of)
  BY DEF ReconciliationIsFaithful
<1>1. /\ asked.tx \in Payments /\ asked.tx \in Transaction /\ asked.context \in SUBSET Payments
      /\ Ledger(asked.ledger) /\ asked.as_of \in Nat \cup {NoTime}
  BY LedgersAssumption DEF ReconcileAsked, Ledger
<1>2. ResultIsFaithful(asked.tx, asked.ledger, asked.as_of)
  BY <1>1, ReconcilingIsSound
<1>3. EvidenceIsComplete({asked.tx}, asked.context, asked.ledger, asked.as_of)
  <2>1. {asked.tx} \in SUBSET Payments
    BY <1>1
  <2>2. QED
    BY <1>1, <2>1, FocusIsShown
<1>4. QED
  BY <1>2, <1>3

\* Whatever the tolerances, the transactions, the ledger and the time, what
\* is reconciled agrees with the books, the order of the books makes no
\* difference, later looks find no less, and the evidence leaves out nothing
\* found on the focus (matcher.py, rules.py, service.py:23-37,
\* agents/reconciliation/agent.py).
THEOREM ReconcilingIsFaithful == EnginesSpec => []ReconciliationIsFaithful
<1>1. EnginesInit => ReconcileAsked
  BY DEF EnginesInit, ReconcileAsked
<1>2. ReconcileAsked /\ [EnginesNext]_enginesVars => ReconcileAsked'
  <2> SUFFICES ASSUME ReconcileAsked, [EnginesNext]_enginesVars PROVE ReconcileAsked'
    OBVIOUS
  <2>1. CASE ReconcileCall
    <3>1. PICK tx \in Payments, context \in SUBSET Payments, postings \in Postings, as_of \in AsOfs :
             asked' = [tx |-> tx, context |-> context, ledger |-> postings, as_of |-> as_of]
      BY <2>1, Zenon DEF ReconcileCall
    <3>2. QED
      BY <3>1 DEF ReconcileAsked
  <2>2. CASE UNCHANGED enginesVars
    BY <2>2 DEF ReconcileAsked, enginesVars
  <2>3. CASE AnalyzeKycCall \/ LookBackCall \/ SplitCall \/ ThresholdCall \/ TrainCall
    <3>1. call' # "reconciliation"
      BY <2>3 DEF AnalyzeKycCall, LookBackCall, SplitCall, ThresholdCall, TrainCall
    <3>2. QED
      BY <3>1 DEF ReconcileAsked
  <2>4. QED
    BY <2>1, <2>2, <2>3 DEF EnginesNext
<1>3. ReconcileAsked => ReconciliationIsFaithful
  BY AskedIsReconciled
<1>4. QED
  BY <1>1, <1>2, <1>3, PTL DEF EnginesSpec

-----------------------------------------------------------------------------
(* The generator and the engine agree on what a discrepancy is.            *)

\* A row as the table has it.
PublicRows == {WithIds(r, p) : r \in RawRow, p \in Nat}

LEMMA PublicOf ==
    ASSUME NEW r \in RawRow, NEW p
    PROVE  LET tx == WithIds(r, p)
           IN  /\ tx.id = TxId(p) /\ tx.reference = TxId(p)
               /\ \E c \in Int : c >= 100 /\ tx.amount = 10 * c
               /\ tx.currency \in Currencies /\ tx.time \in Nat
<1> DEFINE g == Public(r)
           tx == WithIds(r, p)
           c == Max({100, r.amount})
<1>1. r.amount \in Int /\ r.ts \in Nat /\ r.cust \in DOMAIN Profiles
  BY DEF RawRow
<1>2. g.time = r.ts /\ g.amount = 10 * c /\ g.currency = Profiles[r.cust].currency
  BY DEF Public
<1>3. /\ tx.id = TxId(p) /\ tx.reference = TxId(p)
      /\ tx.time = g.time /\ tx.amount = g.amount /\ tx.currency = g.currency
  BY DEF WithIds
<1>6. c \in {100, r.amount} /\ \A v \in {100, r.amount} : c >= v
  <2>1. \E top \in {100, r.amount} : \A v \in {100, r.amount} : top >= v
    BY <1>1
  <2>2. QED
    BY <2>1 DEF Max
<1> HIDE DEF g, tx, c
<1>9. Profiles[r.cust].currency \in Currencies
  BY <1>1, CurrencyAssumption
<1>10. c \in Int /\ c >= 100
  BY <1>1, <1>6
<1>11. QED
  BY <1>1, <1>2, <1>3, <1>9, <1>10 DEF tx

\* The transactions of the table, as far as a ledger is built of them.
IsTable ==
    /\ transactions \in Seq(PublicRows)
    /\ \A i \in TxRows : \E r \in RawRow : transactions[i] = WithIds(r, i)

LEMMA TableTells ==
    ASSUME IsTable, Len(transactions) <= MaxPosted
    PROVE  /\ Len(transactions) \in Nat /\ TxRows = 1 .. Len(transactions)
           /\ IsFiniteSet(TxRows)
           /\ \A i \in TxRows :
                 LET tx == transactions[i]
                 IN  /\ tx.id = TxId(i) /\ tx.reference = TxId(i)
                     /\ tx.id \in STRING /\ tx.id # NoReference
                     /\ \E c \in Int : c >= 100 /\ tx.amount = 10 * c
                     /\ tx.currency \in STRING /\ tx.currency \in Currencies /\ tx.time \in Nat
           /\ \A i, j \in TxRows : transactions[i].id = transactions[j].id => i = j
<1>1. Len(transactions) \in Nat /\ TxRows = 1 .. Len(transactions)
  BY DEF IsTable, TxRows
<1>2. IsFiniteSet(TxRows)
  BY <1>1, CardinalityUpTo
<1>3. TxRows \subseteq 1 .. MaxPosted
  BY <1>1, IdsAssumption
<1>4. ASSUME NEW i \in TxRows
      PROVE  LET tx == transactions[i]
             IN  /\ tx.id = TxId(i) /\ tx.reference = TxId(i)
                 /\ \E c \in Int : c >= 100 /\ tx.amount = 10 * c
                 /\ tx.currency \in Currencies /\ tx.time \in Nat
  <2>1. PICK r \in RawRow : transactions[i] = WithIds(r, i)
    BY DEF IsTable
  <2>2. LET tx == WithIds(r, i)
        IN  /\ tx.id = TxId(i) /\ tx.reference = TxId(i)
            /\ \E c \in Int : c >= 100 /\ tx.amount = 10 * c
            /\ tx.currency \in Currencies /\ tx.time \in Nat
    BY PublicOf
  <2>3. QED
    BY <2>1, <2>2
<1>5. \A p, q \in TxRows : TxId(p) \in STRING \ {NoReference} /\ (TxId(p) = TxId(q) => p = q)
  BY <1>3, IdsAssumption
<1>6. Currencies \subseteq STRING
  BY CurrencyAssumption
<1>7. \A i, j \in TxRows : transactions[i].id = transactions[j].id => i = j
  BY <1>4, <1>5
<1>8. ASSUME NEW i \in TxRows
      PROVE  LET tx == transactions[i]
             IN  tx.id \in STRING /\ tx.id # NoReference /\ tx.currency \in STRING
  BY <1>4, <1>5, <1>6
<1>9. QED
  BY <1>1, <1>2, <1>4, <1>7, <1>8

LEMMA CentsOf ==
    ASSUME NEW x \in Int
    PROVE  Cents(10 * x) = x
<1>1. (10 * x) \div 10 = x /\ (10 * x) % 10 = 0
  OBVIOUS
<1>2. QED
  BY <1>1 DEF Cents

LEMMA CentsAreNear ==
    ASSUME NEW v \in Int
    PROVE  Cents(v) \in Int /\ 10 * Cents(v) <= v + 5 /\ v - 5 <= 10 * Cents(v)
<1> DEFINE q == v \div 10
           r == v % 10
<1>1. v = 10 * q + r /\ r \in 0 .. 9 /\ q \in Int
  OBVIOUS
<1>2. Cents(v) = IF r < 5 \/ (r = 5 /\ q % 2 = 0) THEN q ELSE q + 1
  BY DEF Cents
<1> HIDE DEF q, r
<1>3. (Cents(v) = q /\ r <= 5) \/ (Cents(v) = q + 1 /\ 5 <= r)
  BY <1>1, <1>2
<1>4. QED
  BY <1>1, <1>3

LEMMA HundredthsAreNear ==
    ASSUME NEW u \in Int
    PROVE  u \div 100 \in Int /\ 100 * (u \div 100) <= u /\ u < 100 * (u \div 100) + 100
OBVIOUS

\* What the amount of a transaction may become is told apart from it.
LEMMA ContradictionShows ==
    ASSUME NEW c \in Int, c >= 100, NEW f \in Factors
    PROVE  /\ Cents(10 * c) = c
           /\ 10 * Cents((10 * c * f) \div 100) \in Int
           /\ Cents(10 * c) - Cents(10 * Cents((10 * c * f) \div 100))
                 \notin -AmountToleranceCents .. AmountToleranceCents
<1> DEFINE u == 10 * c * f
           v == u \div 100
           d == Cents(v)
<1>1. f \in Int /\ ((50 <= f /\ f <= 98) \/ (102 <= f /\ f <= 150))
  BY FactorsAssumption
<1>2. u \in Int /\ (u <= 10 * (98 * c) \/ 10 * (102 * c) <= u)
  <2>1. CASE f <= 98
    <3>1. c * f <= c * 98
      BY ONLY c \in Int, c >= 100, <1>1, <2>1
    <3>2. u \in Int /\ u = 10 * (c * f) /\ c * f \in Int
      BY <1>1
    <3> HIDE DEF u
    <3>3. QED
      BY <3>1, <3>2
  <2>2. CASE 102 <= f
    <3>1. c * 102 <= c * f
      BY ONLY c \in Int, c >= 100, <1>1, <2>2
    <3>2. u \in Int /\ u = 10 * (c * f) /\ c * f \in Int
      BY <1>1
    <3> HIDE DEF u
    <3>3. QED
      BY <3>1, <3>2
  <2>3. QED
    BY <1>1, <2>1, <2>2
<1> HIDE DEF u
<1>3. v \in Int /\ 100 * v <= u /\ u < 100 * v + 100
  BY <1>2, HundredthsAreNear
<1> HIDE DEF v
<1>4. d \in Int /\ 10 * d <= v + 5 /\ v - 5 <= 10 * d
  BY <1>3, CentsAreNear
<1> HIDE DEF d
<1>5. d - c >= 2 \/ d - c <= -2
  BY <1>2, <1>3, <1>4
<1>6. AmountToleranceCents \in Nat /\ AmountToleranceCents <= 1
  BY DefaultsAssumption, ToleranceAssumption
<1>7. Cents(10 * c) = c /\ Cents(10 * d) = d
  BY <1>4, CentsOf
<1>8. c - d \notin -AmountToleranceCents .. AmountToleranceCents
  BY <1>4, <1>5, <1>6
<1>9. 10 * d \in Int
  BY <1>4
<1>10. d = Cents((10 * c * f) \div 100)
  BY DEF d, v, u
<1>11. QED
  BY <1>7, <1>8, <1>9, <1>10

\* A posting, and what is right and wrong with one that bears a discrepancy.
Posting == [row : Nat, again : BOOLEAN, tx : STRING, amount : Int, currency : STRING,
            posted : Int, settlement : STRING, reference : STRING]

Bears(r, tx, kind) ==
    /\ Cents(tx.amount) - Cents(r.amount) \in -AmountToleranceCents .. AmountToleranceCents
          <=> kind # "contradictory_amount"
    /\ r.currency = tx.currency <=> kind # "currency_mismatch"
    /\ r.reference = IF kind = "missing_reference" THEN NoReference ELSE tx.reference
    /\ r.posted - tx.time >= 0
    /\ r.posted - tx.time > MaxPostingLag <=> kind = "late_posting"

IsPosting(r, i) == /\ r \in Posting /\ i \in TxRows /\ r.row = i /\ r.tx = transactions[i].id
                   /\ Bears(r, transactions[i], plan[i])

LEMMA Spans ==
    /\ \A d \in Delays : d \in Int /\ 0 <= d /\ d + 29 <= MaxPostingLag
    /\ \A d \in LateBy : d \in Int /\ 0 <= d /\ d > MaxPostingLag
    /\ MaxPostingLag \in Int
    /\ \A d \in SecondsLater : d \in Int /\ 0 < d /\ d <= 29
<1>1. MaxPostingLag \in Nat
  BY ToleranceAssumption
<1>2. QED
  BY <1>1, DefaultsAssumption DEF SecondsLater

\* Before anything is injected the posting agrees with the transaction.
LEMMA NaturalAgrees ==
    ASSUME IsTable, Len(transactions) <= MaxPosted, NEW i \in TxRows, NEW r \in Natural(i)
    PROVE  /\ r \in Posting /\ r.row = i /\ ~r.again /\ r.tx = transactions[i].id
           /\ r.amount = transactions[i].amount /\ r.currency = transactions[i].currency
           /\ r.reference = transactions[i].reference
           /\ r.posted - transactions[i].time >= 0 /\ r.posted - transactions[i].time + 29 <= MaxPostingLag
<1> DEFINE tx == transactions[i]
<1>1. /\ i \in Nat /\ tx.id \in STRING /\ tx.amount \in Int /\ tx.currency \in STRING
      /\ tx.reference \in STRING /\ tx.time \in Int
  BY TableTells
<1>2. PICK d \in Delays, s \in {"settled", "pending", "failed"} :
         r = [row |-> i, again |-> FALSE, tx |-> tx.id, amount |-> tx.amount, currency |-> tx.currency,
              posted |-> tx.time + d, settlement |-> s, reference |-> tx.reference]
  BY DEF Natural
<1>3. d \in Int /\ 0 <= d /\ d + 29 <= MaxPostingLag /\ MaxPostingLag \in Int
  BY Spans
<1>a. s \in STRING
  BY TextsAssumption
<1> HIDE DEF tx
<1>4. r \in Posting
  BY <1>1, <1>2, <1>3, <1>a DEF Posting
<1>5. r.posted = tx.time + d
  BY <1>2
<1>6. r.posted - tx.time = d /\ r.posted - tx.time >= 0 /\ r.posted - tx.time + 29 <= MaxPostingLag
  BY <1>1, <1>3, <1>5
<1>7. QED
  BY <1>2, <1>4, <1>6 DEF tx

\* What is injected is what the posting bears, and nothing else.
LEMMA InjectedBears ==
    ASSUME IsTable, Len(transactions) <= MaxPosted, NEW i \in TxRows, NEW r \in Natural(i),
           NEW s \in Injected(r, plan[i]), plan[i] \in Kinds \cup {"none"}
    PROVE  IsPosting(s, i) /\ ~s.again
           /\ (plan[i] # "late_posting" => s.posted - transactions[i].time + 29 <= MaxPostingLag)
<1> DEFINE tx == transactions[i]
           kind == plan[i]
<1>1. PICK c \in Int : c >= 100 /\ tx.amount = 10 * c
  BY TableTells
<1>2. /\ tx.reference # NoReference /\ tx.currency \in STRING /\ tx.time \in Int
      /\ tx.id = tx.reference
  BY TableTells
<1>3. /\ r \in Posting /\ r.row = i /\ ~r.again /\ r.tx = tx.id
      /\ r.amount = tx.amount /\ r.currency = tx.currency /\ r.reference = tx.reference
      /\ r.posted - tx.time >= 0 /\ r.posted - tx.time + 29 <= MaxPostingLag
  BY NaturalAgrees
<1>4. /\ r.posted \in Int /\ MaxPostingLag \in Int
      /\ AmountToleranceCents \in Nat
  BY <1>3, Spans, ToleranceAssumption DEF Posting
<1>5. Cents(tx.amount) = c /\ 0 \in -AmountToleranceCents .. AmountToleranceCents
  BY <1>1, <1>4, CentsOf
<1>6. Cents(tx.amount) - Cents(r.amount) \in -AmountToleranceCents .. AmountToleranceCents
  BY <1>3, <1>5
<1>7. r.posted - tx.time >= 0 /\ ~(r.posted - tx.time > MaxPostingLag)
  BY <1>2, <1>3, <1>4
<1> HIDE DEF tx, kind
<1>8. CASE kind = "contradictory_amount"
  <2>1. PICK f \in Factors : s = [r EXCEPT !.amount = 10 * Cents((r.amount * f) \div 100)]
    BY <1>8 DEF Injected, kind
  <2>2. /\ 10 * Cents((10 * c * f) \div 100) \in Int
        /\ Cents(10 * c) - Cents(10 * Cents((10 * c * f) \div 100))
              \notin -AmountToleranceCents .. AmountToleranceCents
    <3>1. c \in Int /\ c >= 100 /\ f \in Factors
      BY <1>1, <2>1
    <3>2. QED
      BY ONLY <3>1, ContradictionShows
  <2>3. s = [r EXCEPT !.amount = 10 * Cents((10 * c * f) \div 100)]
    BY <1>1, <1>3, <2>1
  <2> DEFINE a == 10 * Cents((10 * c * f) \div 100)
  <2> HIDE DEF a
  <2>4. a \in Int /\ Cents(tx.amount) - Cents(a) \notin -AmountToleranceCents .. AmountToleranceCents
    BY <1>1, <2>2 DEF a
  <2>5. s = [r EXCEPT !.amount = a]
    BY <2>3 DEF a
  <2>6. s \in Posting /\ s.amount = a /\ s.row = r.row /\ s.again = r.again /\ s.tx = r.tx
        /\ s.currency = r.currency /\ s.reference = r.reference /\ s.posted = r.posted
    BY <1>3, <2>4, <2>5 DEF Posting
  <2>7. Bears(s, tx, kind)
    BY <1>3, <1>7, <1>8, <2>4, <2>6 DEF Bears
  <2>8. QED
    BY <1>3, <2>6, <2>7 DEF IsPosting, tx, kind
<1>9. CASE kind = "missing_reference"
  <2>1. s = [r EXCEPT !.reference = NoReference]
    BY <1>9 DEF Injected, kind
  <2>2. s \in Posting /\ s.amount = r.amount /\ s.row = r.row /\ s.again = r.again /\ s.tx = r.tx
        /\ s.currency = r.currency /\ s.reference = NoReference /\ s.posted = r.posted
    <3>1. NoReference \in STRING
      BY TextsAssumption
    <3>2. QED
      BY ONLY <1>3, <2>1, <3>1 DEF Posting
  <2>3. Bears(s, tx, kind)
    BY <1>3, <1>6, <1>7, <1>9, <2>2 DEF Bears
  <2>4. QED
    BY <1>3, <2>2, <2>3 DEF IsPosting, tx, kind
<1>10. CASE kind = "currency_mismatch"
  <2>1. PICK cur \in Currencies \ {r.currency} : s = [r EXCEPT !.currency = cur]
    BY <1>10 DEF Injected, kind
  <2>2. cur \in STRING /\ cur # tx.currency
    BY <1>3, <2>1, CurrencyAssumption
  <2>3. s \in Posting /\ s.amount = r.amount /\ s.row = r.row /\ s.again = r.again /\ s.tx = r.tx
        /\ s.currency = cur /\ s.reference = r.reference /\ s.posted = r.posted
    BY <1>3, <2>1, <2>2 DEF Posting
  <2>4. Bears(s, tx, kind)
    BY <1>3, <1>6, <1>7, <1>10, <2>2, <2>3 DEF Bears
  <2>5. QED
    BY <1>3, <2>3, <2>4 DEF IsPosting, tx, kind
<1>11. CASE kind = "late_posting"
  <2>1. PICK d \in LateBy : s = [r EXCEPT !.posted = @ + d]
    BY <1>11 DEF Injected, kind
  <2>2. d \in Int /\ 0 <= d /\ d > MaxPostingLag
    BY Spans
  <2> DEFINE late == r.posted + d
  <2>3. late \in Int /\ late - tx.time >= 0 /\ late - tx.time > MaxPostingLag
    <3>1. \A p, t, e, lag \in Int : p - t >= 0 /\ 0 <= e /\ e > lag =>
            p + e \in Int /\ (p + e) - t >= 0 /\ (p + e) - t > lag
      OBVIOUS
    <3>2. r.posted \in Int /\ tx.time \in Int /\ MaxPostingLag \in Int /\ r.posted - tx.time >= 0
      BY <1>2, <1>3, <1>4
    <3>3. QED
      BY ONLY <2>2, <3>1, <3>2
  <2>4. s = [r EXCEPT !.posted = late]
    BY <2>1
  <2> HIDE DEF late
  <2>5. s \in Posting /\ s.amount = r.amount /\ s.row = r.row /\ s.again = r.again /\ s.tx = r.tx
        /\ s.currency = r.currency /\ s.reference = r.reference /\ s.posted = late
    BY <1>3, <2>3, <2>4 DEF Posting
  <2>6. Bears(s, tx, kind)
    BY <1>3, <1>6, <1>11, <2>3, <2>5 DEF Bears
  <2>7. QED
    BY <1>3, <1>11, <2>5, <2>6 DEF IsPosting, tx, kind
<1>12. CASE kind \notin {"contradictory_amount", "missing_reference", "currency_mismatch", "late_posting"}
  <2>1. s = r
    BY <1>12 DEF Injected, kind
  <2>2. Bears(r, tx, kind)
    BY <1>3, <1>6, <1>7, <1>12 DEF Bears
  <2>3. QED
    BY <1>3, <2>1, <2>2 DEF IsPosting, tx, kind
<1>13. QED
  BY <1>8, <1>9, <1>10, <1>11, <1>12

\* The second posting of a duplicate is a posting like the first.
LEMMA DoubledBears ==
    ASSUME IsTable, Len(transactions) <= MaxPosted, NEW i \in TxRows, plan[i] = "duplicate_posting",
           NEW s, IsPosting(s, i), s.posted - transactions[i].time + 29 <= MaxPostingLag, NEW gap \in SecondsLater
    PROVE  IsPosting(Doubled(s, gap), i) /\ Doubled(s, gap).again /\ s.posted < Doubled(s, gap).posted
<1> DEFINE tx == transactions[i]
           t == Doubled(s, gap)
<1>1. s \in Posting /\ s.row = i /\ s.tx = tx.id /\ Bears(s, tx, "duplicate_posting")
  BY DEF IsPosting
<1>2. gap \in Int /\ 0 < gap /\ gap <= 29 /\ MaxPostingLag \in Int
  BY Spans
<1>3. s.posted \in Int /\ tx.time \in Int
  BY <1>1, TableTells DEF Posting
<1>4. t = [s EXCEPT !.again = TRUE, !.posted = @ + gap]
  BY DEF Doubled
<1>5. t \in Posting /\ t.amount = s.amount /\ t.row = s.row /\ t.again = TRUE /\ t.tx = s.tx
      /\ t.currency = s.currency /\ t.reference = s.reference /\ t.posted = s.posted + gap
  <2>1. s.posted + gap \in Int /\ TRUE \in BOOLEAN
    BY <1>2, <1>3
  <2> DEFINE later == s.posted + gap
  <2> HIDE DEF t, later
  <2>2. t = [s EXCEPT !.again = TRUE, !.posted = later] /\ later \in Int
    BY <1>4, <2>1 DEF later
  <2>3. s \in Posting
    BY <1>1
  <2>4. /\ t \in Posting /\ t.amount = s.amount /\ t.row = s.row /\ t.again = TRUE /\ t.tx = s.tx
        /\ t.currency = s.currency /\ t.reference = s.reference /\ t.posted = later
    BY ONLY <2>2, <2>3 DEF Posting
  <2>5. QED
    BY <2>4 DEF later
<1>6. s.posted - tx.time >= 0 /\ s.posted - tx.time + 29 <= MaxPostingLag
  BY <1>1 DEF Bears, tx
<1>7. t.posted - tx.time >= 0 /\ ~(t.posted - tx.time > MaxPostingLag)
  BY <1>2, <1>3, <1>5, <1>6
<1> HIDE DEF tx, t
<1>8. Bears(t, tx, "duplicate_posting")
  BY <1>1, <1>5, <1>7 DEF Bears
<1>9. s.posted < t.posted
  BY <1>2, <1>3, <1>5
<1>10. QED
  BY <1>1, <1>5, <1>8, <1>9 DEF IsPosting, tx, t

-----------------------------------------------------------------------------
(* The ledger that is posted.                                              *)

\* What is picked of the places I is each of them once.
Rearranges(place, t, s, I) ==
    /\ \A n \in DOMAIN t : place[n] \in I /\ t[n] = s[place[n]]
    /\ \A i \in I : \E n \in DOMAIN t : place[n] = i
    /\ \A m, n \in DOMAIN t : place[m] = place[n] => m = n

LEMMA PickedOnce ==
    ASSUME NEW S, NEW s \in Seq(S), NEW I \in SUBSET DOMAIN s, NEW key \in [I -> Int]
    PROVE  Pick(s, I, key) \in Seq(S) /\ \E place : Rearranges(place, Pick(s, I, key), s, I)
<1> DEFINE t == Pick(s, I, key)
           C == Cardinality(I)
<1>1. /\ t \in Seq(S) /\ Len(t) = C /\ C \in Nat
      /\ \E place : Enumerates(place, I, key) /\ \A n \in 1 .. C : t[n] = s[place[n]]
  BY PickIsOrdered
<1>2. I \in SUBSET Int
  OBVIOUS
<1> HIDE DEF t, C
<1>3. PICK place : Enumerates(place, I, key) /\ \A n \in 1 .. C : t[n] = s[place[n]]
  BY <1>1
<1>4. DOMAIN t = 1 .. C
  BY <1>1
<1>5. /\ place \in [1 .. C -> I]
      /\ \A i \in I : \E n \in 1 .. C : place[n] = i
  BY <1>3 DEF Enumerates, C
<1>6. ASSUME NEW m \in 1 .. C, NEW n \in 1 .. C, place[m] = place[n] PROVE m = n
  BY <1>1, <1>2, <1>3, <1>6, EnumeratesOnce DEF C
<1>7. Rearranges(place, t, s, I)
  BY <1>3, <1>4, <1>5, <1>6 DEF Rearranges
<1>8. QED
  BY <1>1, <1>7 DEF t

\* Every row that has a posting has one first one, every duplicate one more.
Booked(all) ==
    /\ all \in Seq(Posting)
    /\ \A j \in DOMAIN all :
          /\ IsPosting(all[j], all[j].row) /\ plan[all[j].row] # "missing_ledger_entry"
          /\ all[j].again => plan[all[j].row] = "duplicate_posting"
    /\ \A i \in TxRows \ Having("missing_ledger_entry") : \E j \in DOMAIN all : all[j].row = i /\ ~all[j].again
    /\ \A i \in Having("duplicate_posting") : \E j \in DOMAIN all : all[j].row = i /\ all[j].again
    /\ \A j, k \in DOMAIN all : all[j].row = all[k].row /\ all[j].again = all[k].again => j = k
    /\ \A j, k \in DOMAIN all :
          all[j].row = all[k].row /\ ~all[j].again /\ all[k].again => all[j].posted < all[k].posted

LEMMA OrderKeepsBooked ==
    ASSUME NEW all, Booked(all)
    PROVE  Booked(Pick(all, DOMAIN all, [j \in DOMAIN all |-> all[j].posted]))
<1> DEFINE D == DOMAIN all
           key == [j \in D |-> all[j].posted]
           t == Pick(all, D, key)
<1>1. all \in Seq(Posting) /\ \A j \in D : all[j] \in Posting
  BY DEF Booked
<1>2. \A j \in D : all[j].posted \in Int
  BY <1>1 DEF Posting
<1>3. key \in [D -> Int] /\ D \in SUBSET DOMAIN all
  BY <1>2
<1> HIDE DEF key
<1>4. t \in Seq(Posting) /\ \E place : Rearranges(place, t, all, D)
  BY <1>1, <1>3, PickedOnce
<1>5. PICK place : Rearranges(place, t, all, D)
  BY <1>4
<1> HIDE DEF D, t
<1>6. /\ \A n \in DOMAIN t : place[n] \in D /\ t[n] = all[place[n]]
      /\ \A i \in D : \E n \in DOMAIN t : place[n] = i
      /\ \A m, n \in DOMAIN t : place[m] = place[n] => m = n
  BY <1>5 DEF Rearranges
<1>7. \A j \in DOMAIN t :
          /\ IsPosting(t[j], t[j].row) /\ plan[t[j].row] # "missing_ledger_entry"
          /\ t[j].again => plan[t[j].row] = "duplicate_posting"
  BY <1>6 DEF Booked, D
<1>8. ASSUME NEW i \in TxRows \ Having("missing_ledger_entry")
      PROVE  \E j \in DOMAIN t : t[j].row = i /\ ~t[j].again
  <2>1. PICK j \in D : all[j].row = i /\ ~all[j].again
    BY DEF Booked, D
  <2>2. QED
    BY <1>6, <2>1
<1>9. ASSUME NEW i \in Having("duplicate_posting")
      PROVE  \E j \in DOMAIN t : t[j].row = i /\ t[j].again
  <2>1. PICK j \in D : all[j].row = i /\ all[j].again
    BY DEF Booked, D
  <2>2. QED
    BY <1>6, <2>1
<1>10. ASSUME NEW j \in DOMAIN t, NEW k \in DOMAIN t, t[j].row = t[k].row, t[j].again = t[k].again
       PROVE  j = k
  <2>1. place[j] = place[k]
    BY <1>6, <1>10 DEF Booked, D
  <2>2. QED
    BY <1>6, <2>1
<1>11. ASSUME NEW j \in DOMAIN t, NEW k \in DOMAIN t, t[j].row = t[k].row, ~t[j].again, t[k].again
       PROVE  t[j].posted < t[k].posted
  BY <1>6, <1>11 DEF Booked, D
<1>12. Booked(t)
  BY <1>4, <1>7, <1>8, <1>9, <1>10, <1>11 DEF Booked
<1>13. QED
  BY <1>12 DEF t, key, D

\* A part of the rows, each once.
LEMMA SliceOf ==
    ASSUME NEW S, NEW s \in Seq(S), NEW I \in SUBSET DOMAIN s
    PROVE  Slice(s, I) \in Seq(S) /\ \E place : Rearranges(place, Slice(s, I), s, I)
<1> DEFINE key == [i \in I |-> i]
<1>1. key \in [I -> Int]
  OBVIOUS
<1> HIDE DEF key
<1>2. Pick(s, I, key) \in Seq(S) /\ \E place : Rearranges(place, Pick(s, I, key), s, I)
  BY <1>1, PickedOnce
<1>3. QED
  BY <1>2 DEF Slice, key

\* What is drawn for the rows.
AreDrawn(rw, gap) ==
    /\ rw \in Seq(Posting) /\ DOMAIN rw = TxRows
    /\ \A i \in TxRows : /\ IsPosting(rw[i], i) /\ ~rw[i].again
                         /\ plan[i] # "late_posting" => rw[i].posted - transactions[i].time + 29 <= MaxPostingLag
    /\ \A i \in Having("duplicate_posting") : gap[i] \in SecondsLater

LEMMA KeptAndDoubled ==
    ASSUME IsTable, Len(transactions) <= MaxPosted, NEW rw, NEW gap, AreDrawn(rw, gap),
           NEW dd, dd = [i \in TxRows |-> IF plan[i] = "duplicate_posting" THEN Doubled(rw[i], gap[i]) ELSE rw[i]]
    PROVE  /\ dd \in Seq(Posting) /\ DOMAIN dd = TxRows
           /\ \A i \in Having("duplicate_posting") :
                 IsPosting(dd[i], i) /\ dd[i].again /\ rw[i].posted < dd[i].posted
<1>1. ASSUME NEW i \in Having("duplicate_posting")
      PROVE  /\ dd[i] = Doubled(rw[i], gap[i]) /\ IsPosting(dd[i], i) /\ dd[i].again
             /\ rw[i].posted < dd[i].posted
  <2>1. i \in TxRows /\ plan[i] = "duplicate_posting"
    BY DEF Having
  <2>2. /\ IsPosting(rw[i], i) /\ rw[i].posted - transactions[i].time + 29 <= MaxPostingLag
        /\ gap[i] \in SecondsLater
    BY <2>1 DEF AreDrawn
  <2>3. /\ IsPosting(Doubled(rw[i], gap[i]), i) /\ Doubled(rw[i], gap[i]).again
        /\ rw[i].posted < Doubled(rw[i], gap[i]).posted
    BY <2>1, <2>2, DoubledBears
  <2>4. dd[i] = Doubled(rw[i], gap[i])
    BY <2>1
  <2>5. QED
    BY <2>3, <2>4
<1>2. \A i \in TxRows : dd[i] \in Posting
  <2> SUFFICES ASSUME NEW i \in TxRows PROVE dd[i] \in Posting
    OBVIOUS
  <2>1. CASE plan[i] = "duplicate_posting"
    BY <1>1, <2>1 DEF Having, IsPosting
  <2>2. CASE plan[i] # "duplicate_posting"
    <3>1. dd[i] = rw[i]
      BY <2>2
    <3>2. QED
      BY <3>1 DEF AreDrawn, IsPosting
  <2>3. QED
    BY <2>1, <2>2
<1>3. Len(transactions) \in Nat /\ TxRows = 1 .. Len(transactions) /\ DOMAIN dd = TxRows
  BY TableTells
<1>4. dd = [i \in 1 .. Len(transactions) |-> dd[i]]
  BY <1>3
<1>5. dd \in Seq(Posting)
  BY ONLY <1>2, <1>3, <1>4
<1>6. QED
  BY <1>1, <1>3, <1>5

LEMMA AllIsBooked ==
    ASSUME IsTable, Len(transactions) <= MaxPosted, NEW rw, NEW gap, AreDrawn(rw, gap)
    PROVE  Booked(PostedInOrder(rw, gap))
<1> DEFINE K == TxRows \ Having("missing_ledger_entry")
           D == Having("duplicate_posting")
           dd == [i \in TxRows |-> IF plan[i] = "duplicate_posting" THEN Doubled(rw[i], gap[i]) ELSE rw[i]]
           kept == Slice(rw, K)
           doubles == Slice(dd, D)
           all == kept \o doubles
<1>1. K \in SUBSET TxRows /\ D \in SUBSET TxRows /\ D \in SUBSET K
  BY DEF Having
<1>2. rw \in Seq(Posting) /\ DOMAIN rw = TxRows /\ \A i \in TxRows : IsPosting(rw[i], i) /\ ~rw[i].again
  BY DEF AreDrawn
<1>3. /\ dd \in Seq(Posting) /\ DOMAIN dd = TxRows
      /\ \A i \in D : IsPosting(dd[i], i) /\ dd[i].again /\ rw[i].posted < dd[i].posted
  BY KeptAndDoubled
<1>a. /\ \A i \in K : plan[i] # "missing_ledger_entry"
      /\ \A i \in D : plan[i] = "duplicate_posting"
  BY DEF Having
<1> HIDE DEF K, D, dd
<1>4. kept \in Seq(Posting) /\ \E p : Rearranges(p, kept, rw, K)
  BY <1>1, <1>2, SliceOf
<1>5. doubles \in Seq(Posting) /\ \E q : Rearranges(q, doubles, dd, D)
  BY <1>1, <1>3, SliceOf
<1> HIDE DEF kept, doubles
<1>6. PICK p : Rearranges(p, kept, rw, K)
  BY <1>4
<1>7. PICK q : Rearranges(q, doubles, dd, D)
  BY <1>5
<1> DEFINE k == Len(kept)
           d == Len(doubles)
<1>8. /\ k \in Nat /\ d \in Nat /\ DOMAIN kept = 1 .. k /\ DOMAIN doubles = 1 .. d
      /\ all \in Seq(Posting) /\ DOMAIN all = 1 .. k + d
      /\ \A j \in 1 .. k : all[j] = kept[j]
      /\ \A j \in 1 .. d : all[k + j] = doubles[j]
  BY <1>4, <1>5
<1> HIDE DEF k, d, all
<1>9. ASSUME NEW j \in 1 .. k
      PROVE  /\ p[j] \in K /\ all[j] = rw[p[j]] /\ all[j].row = p[j] /\ ~all[j].again
             /\ IsPosting(all[j], p[j])
  <2>1. p[j] \in K /\ all[j] = rw[p[j]]
    BY <1>6, <1>8 DEF Rearranges
  <2>2. IsPosting(rw[p[j]], p[j]) /\ ~rw[p[j]].again
    BY <1>1, <1>2, <2>1
  <2>3. QED
    BY <2>1, <2>2 DEF IsPosting
<1>10. ASSUME NEW j \in 1 .. d
       PROVE  /\ q[j] \in D /\ all[k + j] = dd[q[j]] /\ all[k + j].row = q[j] /\ all[k + j].again
              /\ IsPosting(all[k + j], q[j])
  <2>1. q[j] \in D /\ all[k + j] = dd[q[j]]
    BY <1>7, <1>8 DEF Rearranges
  <2>2. IsPosting(dd[q[j]], q[j]) /\ dd[q[j]].again
    BY <1>3, <2>1
  <2>3. QED
    BY <2>1, <2>2 DEF IsPosting
<1>11. \A j \in DOMAIN all : j \in 1 .. k \/ \E m \in 1 .. d : j = k + m
  <2> SUFFICES ASSUME NEW j \in DOMAIN all, j \notin 1 .. k PROVE \E m \in 1 .. d : j = k + m
    OBVIOUS
  <2>1. j - k \in 1 .. d /\ j = k + (j - k)
    BY <1>8
  <2>2. QED
    BY <2>1
<1>12. ASSUME NEW j \in DOMAIN all
       PROVE  /\ IsPosting(all[j], all[j].row) /\ plan[all[j].row] # "missing_ledger_entry"
              /\ all[j].again => plan[all[j].row] = "duplicate_posting"
  <2>1. CASE j \in 1 .. k
    BY <1>9, <1>a, <2>1
  <2>2. CASE \E m \in 1 .. d : j = k + m
    <3>1. PICK m \in 1 .. d : j = k + m
      BY <2>2
    <3>2. QED
      BY <1>1, <1>10, <1>a, <3>1
  <2>3. QED
    BY <1>11, <2>1, <2>2
<1>13. ASSUME NEW i \in K PROVE \E j \in DOMAIN all : all[j].row = i /\ ~all[j].again
  <2>1. PICK j \in 1 .. k : p[j] = i
    BY <1>6, <1>8 DEF Rearranges
  <2>2. j \in DOMAIN all
    BY <1>8
  <2>3. QED
    BY <1>9, <2>1, <2>2
<1>14. ASSUME NEW i \in D PROVE \E j \in DOMAIN all : all[j].row = i /\ all[j].again
  <2>1. PICK j \in 1 .. d : q[j] = i
    BY <1>7, <1>8 DEF Rearranges
  <2>2. k + j \in DOMAIN all
    BY <1>8
  <2>3. QED
    BY <1>10, <2>1, <2>2
<1>15. ASSUME NEW j \in DOMAIN all, NEW l \in DOMAIN all, all[j].row = all[l].row, all[j].again = all[l].again
       PROVE  j = l
  <2>1. CASE j \in 1 .. k
    <3>1. ~all[l].again
      BY <1>9, <1>15, <2>1
    <3>2. l \in 1 .. k
      BY <1>10, <1>11, <3>1
    <3>3. p[j] = p[l]
      BY <1>9, <1>15, <2>1, <3>2
    <3>4. QED
      BY <1>6, <1>8, <2>1, <3>2, <3>3 DEF Rearranges
  <2>2. CASE \E m \in 1 .. d : j = k + m
    <3>1. PICK m \in 1 .. d : j = k + m
      BY <2>2
    <3>2. all[l].again
      BY <1>10, <1>15, <3>1
    <3>3. PICK n \in 1 .. d : l = k + n
      BY <1>9, <1>11, <3>2
    <3>4. q[m] = q[n]
      BY <1>10, <1>15, <3>1, <3>3
    <3>5. m = n
      BY <1>7, <1>8, <3>4 DEF Rearranges
    <3>6. QED
      BY <3>1, <3>3, <3>5
  <2>3. QED
    BY <1>11, <2>1, <2>2
<1>16. ASSUME NEW j \in DOMAIN all, NEW l \in DOMAIN all, all[j].row = all[l].row, ~all[j].again, all[l].again
       PROVE  all[j].posted < all[l].posted
  <2>1. j \in 1 .. k
    BY <1>10, <1>11, <1>16
  <2>2. PICK n \in 1 .. d : l = k + n
    BY <1>9, <1>11, <1>16
  <2>3. p[j] = q[n] /\ q[n] \in D /\ all[j] = rw[p[j]] /\ all[l] = dd[q[n]]
    BY <1>9, <1>10, <1>16, <2>1, <2>2
  <2>4. rw[q[n]].posted < dd[q[n]].posted
    BY <1>3, <2>3
  <2>5. QED
    BY <2>3, <2>4
<1>b. Booked(all)
  BY <1>8, <1>12, <1>13, <1>14, <1>15, <1>16 DEF Booked, K, D
<1>17. Booked(Pick(all, DOMAIN all, [j \in DOMAIN all |-> all[j].posted]))
  BY <1>b, OrderKeepsBooked
<1>18. PostedInOrder(rw, gap) = Pick(all, DOMAIN all, [j \in DOMAIN all |-> all[j].posted])
  BY DEF PostedInOrder, all, kept, doubles, dd, K, D
<1>19. QED
  BY <1>17, <1>18

\* The books as they are written: a transaction without a posting is the one
\* that was left out, one with two is a duplicate, and every posting bears
\* what was injected.
BooksAgree(records) ==
    /\ Ledger(records)
    /\ \A i \in TxRows :
          /\ Of(Asked(i), records) = {} <=> plan[i] = "missing_ledger_entry"
          /\ Cardinality(Of(Asked(i), records)) <= 1 <=> plan[i] # "duplicate_posting"
          /\ \A j \in Of(Asked(i), records) : Bears(records[j], transactions[i], plan[i])

LabelsAgree(told) ==
    /\ \A l \in told : \E i \in TxRows : l.tx = transactions[i].id /\ l.kind = plan[i] /\ plan[i] # "none"
    /\ \A i \in TxRows : plan[i] # "none" => \E l \in told : l.tx = transactions[i].id

\* A label names the posting that is wrong: the only one there is, or the
\* second one of a duplicate.
Names(l, i, records) ==
    /\ l.tx = transactions[i].id /\ l.kind = plan[i] /\ plan[i] # "none"
    /\ plan[i] = "missing_ledger_entry" => l.ledger = 0
    /\ plan[i] = "duplicate_posting" =>
          \E j \in DOMAIN records : /\ j # l.ledger /\ Of(Asked(i), records) = {j, l.ledger}
                                    /\ Earlier(records[j], records[l.ledger])
    /\ plan[i] \notin {"missing_ledger_entry", "duplicate_posting"} => Of(Asked(i), records) = {l.ledger}
LabelsName(records, told) ==
    /\ \A j \in DOMAIN records : records[j].id = j /\ \E i \in TxRows : records[j].tx = transactions[i].id
    /\ \A l, m \in told : l.tx = m.tx => l = m
    /\ \A l \in told : \E i \in TxRows : Names(l, i, records)

LEMMA OneAtMost ==
    ASSUME NEW S, \A a, b \in S : a = b
    PROVE  Cardinality(S) <= 1
<1>1. CASE S = {}
  <2>1. Cardinality(S) = 0
    BY <1>1, FS_EmptySet
  <2>2. QED
    BY <2>1
<1>2. CASE S # {}
  <2>1. PICK a \in S : TRUE
    BY <1>2
  <2>2. S = {a}
    BY <2>1
  <2>3. Cardinality({a}) = 1
    BY FS_Singleton
  <2>4. QED
    BY <2>2, <2>3
<1>3. QED
  BY <1>1, <1>2

LEMMA MoreThanOne ==
    ASSUME NEW S, IsFiniteSet(S), NEW a \in S, NEW b \in S, a # b
    PROVE  ~(Cardinality(S) <= 1)
<1>1. IsFiniteSet({a}) /\ Cardinality({a}) = 1
  BY FS_Singleton
<1>2. b \notin {a} /\ {a} \cup {b} = {a, b} /\ {a, b} \in SUBSET S
  OBVIOUS
<1>3. Cardinality({a} \cup {b}) = Cardinality({a}) + 1
  BY <1>1, <1>2, FS_AddElement
<1>4. Cardinality({a, b}) = 2
  BY <1>1, <1>2, <1>3
<1>5. Cardinality({a, b}) <= Cardinality(S) /\ Cardinality(S) \in Nat
  BY <1>2, FS_Subset, FS_CardinalityType
<1>6. QED
  BY <1>4, <1>5

LEMMA RecordTells ==
    ASSUME NEW r \in Posting, NEW j \in Nat
    PROVE  /\ Record(r, j) \in LedgerRecord
           /\ Record(r, j).id = j /\ Record(r, j).tx = r.tx
           /\ \A tx, kind : Bears(Record(r, j), tx, kind) <=> Bears(r, tx, kind)
<1>1. /\ r.tx \in STRING /\ r.amount \in Int /\ r.currency \in STRING /\ r.posted \in Int
      /\ r.settlement \in STRING /\ r.reference \in STRING
  BY DEF Posting
<1>2. Record(r, j) \in LedgerRecord
  BY <1>1 DEF Record, LedgerRecord
<1>3. /\ Record(r, j).id = j /\ Record(r, j).tx = r.tx /\ Record(r, j).amount = r.amount
      /\ Record(r, j).currency = r.currency /\ Record(r, j).reference = r.reference
      /\ Record(r, j).posted = r.posted
  BY DEF Record
<1>4. QED
  BY <1>2, <1>3 DEF Bears

LEMMA BooksOfBooked ==
    ASSUME IsTable, Len(transactions) <= MaxPosted, NEW all, Booked(all),
           NEW records, records = [j \in DOMAIN all |-> Record(all[j], j)]
    PROVE  /\ BooksAgree(records)
           /\ \A i \in TxRows : Of(Asked(i), records) = {j \in DOMAIN all : all[j].row = i}
<1>1. /\ all \in Seq(Posting) /\ Len(all) \in Nat /\ DOMAIN all = 1 .. Len(all)
      /\ \A j \in DOMAIN all : all[j] \in Posting /\ j \in Nat
  BY DEF Booked
<1>2. \A j \in DOMAIN all :
          /\ records[j] \in LedgerRecord /\ records[j].id = j /\ records[j].tx = all[j].tx
          /\ \A tx, kind : Bears(records[j], tx, kind) <=> Bears(all[j], tx, kind)
  BY <1>1, RecordTells
<1>3. Ledger(records)
  <2>1. records = [j \in 1 .. Len(all) |-> Record(all[j], j)] /\ DOMAIN records = DOMAIN all
    BY <1>1
  <2>2. \A j \in 1 .. Len(all) : Record(all[j], j) \in LedgerRecord
    BY <1>1, RecordTells
  <2>3. records \in Seq(LedgerRecord)
    BY ONLY <1>1, <2>1, <2>2
  <2>4. QED
    BY <1>2, <2>1, <2>3 DEF Ledger
<1>4. \A j \in DOMAIN all :
          /\ all[j].row \in TxRows /\ all[j].tx = transactions[all[j].row].id
          /\ Bears(all[j], transactions[all[j].row], plan[all[j].row])
          /\ plan[all[j].row] # "missing_ledger_entry"
          /\ all[j].again \in BOOLEAN
          /\ all[j].again => plan[all[j].row] = "duplicate_posting"
  BY <1>1 DEF Booked, IsPosting, Posting
<1>5. ASSUME NEW i \in TxRows
      PROVE  Of(Asked(i), records) = {j \in DOMAIN all : all[j].row = i}
  <2>1. Asked(i).id = transactions[i].id
    BY DEF Asked
  <2>2. DOMAIN records = DOMAIN all
    OBVIOUS
  <2>3. \A j \in DOMAIN all : records[j].tx = transactions[i].id <=> all[j].row = i
    BY <1>2, <1>4, TableTells
  <2>4. QED
    BY <2>1, <2>2, <2>3 DEF Of
<1>6. ASSUME NEW i \in TxRows
      PROVE  /\ Of(Asked(i), records) = {} <=> plan[i] = "missing_ledger_entry"
             /\ \A j \in Of(Asked(i), records) : Bears(records[j], transactions[i], plan[i])
  <2>1. plan[i] # "missing_ledger_entry" => \E j \in DOMAIN all : all[j].row = i
    BY DEF Booked, Having
  <2> DEFINE mine == {j \in DOMAIN all : all[j].row = i}
  <2>2. mine = {} <=> plan[i] = "missing_ledger_entry"
    BY <1>4, <2>1
  <2>3. ASSUME NEW j \in mine PROVE Bears(records[j], transactions[i], plan[i])
    <3>1. j \in DOMAIN all /\ all[j].row = i
      OBVIOUS
    <3>2. Bears(all[j], transactions[i], plan[i])
      BY <1>4, <3>1
    <3>3. QED
      BY <1>2, <3>1, <3>2
  <2> HIDE DEF mine
  <2>4. Of(Asked(i), records) = mine
    BY <1>5 DEF mine
  <2>5. QED
    BY <2>2, <2>3, <2>4
<1>7. ASSUME NEW i \in TxRows
      PROVE  Cardinality(Of(Asked(i), records)) <= 1 <=> plan[i] # "duplicate_posting"
  <2> DEFINE mine == {j \in DOMAIN all : all[j].row = i}
  <2>1. \A j, k \in mine : all[j].again = all[k].again => j = k
    BY DEF Booked
  <2>2. CASE plan[i] # "duplicate_posting"
    <3>1. \A j, k \in mine : j = k
      BY <1>4, <2>1, <2>2
    <3> HIDE DEF mine
    <3>2. Cardinality(mine) <= 1
      BY <3>1, OneAtMost
    <3>3. QED
      BY <1>5, <2>2, <3>2 DEF mine
  <2>3. CASE plan[i] = "duplicate_posting"
    <3>1. i \in TxRows \ Having("missing_ledger_entry") /\ i \in Having("duplicate_posting")
      BY <2>3 DEF Having
    <3>2. PICK j \in DOMAIN all : all[j].row = i /\ ~all[j].again
      BY <3>1 DEF Booked
    <3>3. PICK k \in DOMAIN all : all[k].row = i /\ all[k].again
      BY <3>1 DEF Booked
    <3>4. j \in mine /\ k \in mine /\ j # k
      BY <3>2, <3>3
    <3>5. IsFiniteSet(mine)
      <4>1. IsFiniteSet(DOMAIN all)
        BY <1>1, CardinalityUpTo
      <4>2. QED
        BY <4>1, FS_Subset
    <3> HIDE DEF mine
    <3>6. ~(Cardinality(mine) <= 1)
      BY <3>4, <3>5, MoreThanOne
    <3>7. mine = Of(Asked(i), records)
      BY <1>5 DEF mine
    <3>8. QED
      BY <2>3, <3>6, <3>7
  <2>4. QED
    BY <2>2, <2>3
<1>8. QED
  BY <1>3, <1>5, <1>6, <1>7 DEF BooksAgree

LEMMA LabelsOfBooked ==
    ASSUME NEW all, Booked(all), NEW told,
           told = {[tx |-> all[j].tx, ledger |-> j, kind |-> plan[all[j].row]] :
                      j \in {j \in DOMAIN all : Labelled(all[j])}}
                  \cup {[tx |-> transactions[i].id, ledger |-> 0, kind |-> plan[i]] :
                           i \in Having("missing_ledger_entry")}
    PROVE  LabelsAgree(told)
<1>1. \A j \in DOMAIN all : /\ all[j].row \in TxRows /\ all[j].tx = transactions[all[j].row].id
                            /\ all[j].again \in BOOLEAN
  BY DEF Booked, IsPosting, Posting
<1>2. ASSUME NEW l \in told
      PROVE  \E i \in TxRows : l.tx = transactions[i].id /\ l.kind = plan[i] /\ plan[i] # "none"
  <2>1. CASE \E j \in DOMAIN all : Labelled(all[j]) /\ l = [tx |-> all[j].tx, ledger |-> j, kind |-> plan[all[j].row]]
    BY <1>1, <2>1 DEF Labelled
  <2>2. CASE \E i \in Having("missing_ledger_entry") : l = [tx |-> transactions[i].id, ledger |-> 0, kind |-> plan[i]]
    BY <2>2 DEF Having
  <2>3. QED
    BY <2>1, <2>2
<1>3. ASSUME NEW i \in TxRows, plan[i] # "none"
      PROVE  \E l \in told : l.tx = transactions[i].id
  <2>1. CASE plan[i] = "missing_ledger_entry"
    <3>1. i \in Having("missing_ledger_entry")
      BY <2>1 DEF Having
    <3>2. [tx |-> transactions[i].id, ledger |-> 0, kind |-> plan[i]] \in told
      BY <3>1
    <3>3. QED
      BY <3>2
  <2>2. CASE plan[i] # "missing_ledger_entry"
    <3>1. \E j \in DOMAIN all : all[j].row = i /\ Labelled(all[j])
      <4>1. CASE plan[i] = "duplicate_posting"
        BY <1>3, <4>1 DEF Booked, Having, Labelled
      <4>2. CASE plan[i] # "duplicate_posting"
        BY <1>3, <2>2, <4>2 DEF Booked, Having, Labelled
      <4>3. QED
        BY <4>1, <4>2
    <3>2. PICK j \in DOMAIN all : all[j].row = i /\ Labelled(all[j])
      BY <3>1
    <3>3. [tx |-> all[j].tx, ledger |-> j, kind |-> plan[all[j].row]] \in told
      BY <3>2
    <3>4. QED
      BY <1>1, <3>2, <3>3
  <2>3. QED
    BY <2>1, <2>2
<1>4. QED
  BY <1>2, <1>3 DEF LabelsAgree

LEMMA LabelsOfRecords ==
    ASSUME IsTable, Len(transactions) <= MaxPosted, NEW all, Booked(all),
           NEW records, records = [j \in DOMAIN all |-> Record(all[j], j)], NEW told,
           told = {[tx |-> all[j].tx, ledger |-> j, kind |-> plan[all[j].row]] :
                      j \in {j \in DOMAIN all : Labelled(all[j])}}
                  \cup {[tx |-> transactions[i].id, ledger |-> 0, kind |-> plan[i]] :
                           i \in Having("missing_ledger_entry")}
    PROVE  LabelsName(records, told)
<1>1. \A j \in DOMAIN all : /\ all[j] \in Posting /\ all[j].row \in TxRows
                            /\ all[j].tx = transactions[all[j].row].id
                            /\ all[j].again \in BOOLEAN /\ plan[all[j].row] # "missing_ledger_entry"
                            /\ all[j].again => plan[all[j].row] = "duplicate_posting"
  BY DEF Booked, IsPosting, Posting
<1>2. /\ DOMAIN records = DOMAIN all
      /\ \A j \in DOMAIN all : /\ records[j].id = j /\ records[j].tx = all[j].tx
                                /\ records[j].posted = all[j].posted
  BY DEF Record
<1>3. \A i \in TxRows : Of(Asked(i), records) = {j \in DOMAIN all : all[j].row = i}
  BY BooksOfBooked
<1>4. \A i, k \in TxRows : transactions[i].id = transactions[k].id => i = k
  BY TableTells
<1> DEFINE of(j) == [tx |-> all[j].tx, ledger |-> j, kind |-> plan[all[j].row]]
           none(i) == [tx |-> transactions[i].id, ledger |-> 0, kind |-> plan[i]]
<1>5. ASSUME NEW l \in told
      PROVE  \/ \E j \in DOMAIN all : Labelled(all[j]) /\ l = of(j)
             \/ \E i \in TxRows : plan[i] = "missing_ledger_entry" /\ l = none(i)
  BY DEF Having
<1>6. \A j : of(j).tx = all[j].tx /\ of(j).ledger = j /\ of(j).kind = plan[all[j].row]
  OBVIOUS
<1>7. \A i : none(i).tx = transactions[i].id /\ none(i).ledger = 0 /\ none(i).kind = plan[i]
  OBVIOUS
<1> HIDE DEF of, none
<1>8. ASSUME NEW j \in DOMAIN all, Labelled(all[j]), NEW k \in DOMAIN all, Labelled(all[k]), all[j].row = all[k].row
      PROVE  j = k
  <2>1. all[j].again = all[k].again
    BY <1>1, <1>8 DEF Labelled
  <2>2. QED
    BY <1>8, <2>1 DEF Booked
<1>9. ASSUME NEW l \in told, NEW m \in told, l.tx = m.tx PROVE l = m
  <2>1. CASE \E j \in DOMAIN all : Labelled(all[j]) /\ l = of(j)
    <3>1. PICK j \in DOMAIN all : Labelled(all[j]) /\ l = of(j)
      BY <2>1
    <3>2. l.tx = transactions[all[j].row].id /\ all[j].row \in TxRows /\ plan[all[j].row] # "missing_ledger_entry"
      BY <1>1, <1>6, <3>1
    <3>3. PICK k \in DOMAIN all : Labelled(all[k]) /\ m = of(k)
      <4>1. ASSUME NEW i \in TxRows, plan[i] = "missing_ledger_entry", m = none(i) PROVE FALSE
        <5>1. m.tx = transactions[i].id
          BY <1>7, <4>1
        <5>2. transactions[i].id = transactions[all[j].row].id
          BY <1>9, <3>2, <5>1
        <5>3. i = all[j].row
          BY <1>4, <3>2, <5>2
        <5>4. QED
          BY <3>2, <4>1, <5>3
      <4>2. QED
        BY <1>5, <4>1
    <3>4. all[j].row = all[k].row
      <4>1. m.tx = transactions[all[k].row].id /\ all[k].row \in TxRows
        BY <1>1, <1>6, <3>3
      <4>2. transactions[all[j].row].id = transactions[all[k].row].id
        BY <1>9, <3>2, <4>1
      <4>3. QED
        BY <1>4, <3>2, <4>1, <4>2
    <3>5. QED
      BY <1>8, <3>1, <3>3, <3>4
  <2>2. CASE \E i \in TxRows : plan[i] = "missing_ledger_entry" /\ l = none(i)
    <3>1. PICK i \in TxRows : plan[i] = "missing_ledger_entry" /\ l = none(i)
      BY <2>2
    <3>2. l.tx = transactions[i].id
      BY <1>7, <3>1
    <3>3. PICK k \in TxRows : plan[k] = "missing_ledger_entry" /\ m = none(k)
      <4>1. ASSUME NEW k \in DOMAIN all, m = of(k) PROVE FALSE
        <5>1. m.tx = transactions[all[k].row].id /\ all[k].row \in TxRows
          BY <1>1, <1>6, <4>1
        <5>2. all[k].row = i
          BY <1>4, <1>9, <3>2, <5>1
        <5>3. QED
          BY <1>1, <3>1, <5>2
      <4>2. QED
        BY <1>5, <4>1
    <3>4. i = k
      <4>1. m.tx = transactions[k].id
        BY <1>7, <3>3
      <4>2. transactions[i].id = transactions[k].id
        BY <1>9, <3>2, <4>1
      <4>3. QED
        BY <1>4, <3>1, <3>3, <4>2
    <3>5. QED
      BY <3>1, <3>3, <3>4
  <2>3. QED
    BY <1>5, <2>1, <2>2
<1>10. ASSUME NEW l \in told PROVE \E i \in TxRows : Names(l, i, records)
  <2>1. CASE \E i \in TxRows : plan[i] = "missing_ledger_entry" /\ l = none(i)
    BY <1>7, <2>1 DEF Names
  <2>2. CASE \E j \in DOMAIN all : Labelled(all[j]) /\ l = of(j)
    <3>1. PICK k \in DOMAIN all : Labelled(all[k]) /\ l = of(k)
      BY <2>2
    <3> DEFINE i == all[k].row
    <3>2. /\ i \in TxRows /\ l.tx = transactions[i].id /\ l.kind = plan[i] /\ plan[i] # "none"
          /\ l.ledger = k /\ plan[i] # "missing_ledger_entry"
          /\ plan[i] = "duplicate_posting" => all[k].again
      BY <1>1, <1>6, <3>1 DEF Labelled
    <3>3. Of(Asked(i), records) = {j \in DOMAIN all : all[j].row = i} /\ all[k].row = i
      BY <1>3, <3>2
    <3> HIDE DEF i
    <3>4. ASSUME plan[i] = "duplicate_posting"
          PROVE  \E j \in DOMAIN records : /\ j # k /\ Of(Asked(i), records) = {j, k}
                                           /\ Earlier(records[j], records[k])
      <4>1. i \in TxRows \ Having("missing_ledger_entry")
        BY <3>2 DEF Having
      <4>2. PICK j \in DOMAIN all : all[j].row = i /\ ~all[j].again
        BY <4>1 DEF Booked
      <4>3. all[k].again
        BY <3>2, <3>4
      <4>4. \A n \in DOMAIN all : all[n].row = i => n = j \/ n = k
        <5> SUFFICES ASSUME NEW n \in DOMAIN all, all[n].row = i PROVE n = j \/ n = k
          OBVIOUS
        <5>1. all[n].again = all[j].again \/ all[n].again = all[k].again
          BY <1>1, <4>2, <4>3
        <5>2. QED
          BY <3>3, <4>2, <5>1 DEF Booked
      <4>5. j # k /\ {j, k} = {n \in DOMAIN all : all[n].row = i}
        BY <3>3, <4>2, <4>3, <4>4
      <4>6. all[j].posted < all[k].posted
        BY <3>3, <4>2, <4>3 DEF Booked
      <4>7. Earlier(records[j], records[k])
        BY <1>2, <4>6 DEF Earlier
      <4>8. QED
        BY <1>2, <3>3, <4>5, <4>7
    <3>5. ASSUME plan[i] # "duplicate_posting" PROVE Of(Asked(i), records) = {k}
      <4>1. \A n \in DOMAIN all : all[n].row = i => n = k
        <5> SUFFICES ASSUME NEW n \in DOMAIN all, all[n].row = i PROVE n = k
          OBVIOUS
        <5>1. ~all[n].again /\ ~all[k].again
          BY <1>1, <3>3, <3>5
        <5>2. all[n].again = all[k].again
          BY <1>1, <5>1
        <5>3. QED
          BY <3>3, <5>2 DEF Booked
      <4>2. QED
        BY <3>3, <4>1
    <3>6. Names(l, i, records)
      BY <1>2, <3>2, <3>4, <3>5 DEF Names
    <3>7. QED
      BY <3>2, <3>6
  <2>3. QED
    BY <1>5, <2>1, <2>2
<1>11. \A j \in DOMAIN records : records[j].id = j /\ \E i \in TxRows : records[j].tx = transactions[i].id
  BY <1>1, <1>2
<1>12. QED
  BY <1>9, <1>10, <1>11 DEF LabelsName

\* What is drawn for a row is a posting of it.
LEMMA RowsAreDrawn ==
    ASSUME IsTable, Len(transactions) <= MaxPosted, plan \in [TxRows -> Kinds \cup {"none"}],
           NEW D, NEW rw \in [TxRows -> D], \A i \in TxRows : rw[i] \in Drawn(i),
           NEW gap \in [Having("duplicate_posting") -> SecondsLater]
    PROVE  AreDrawn(rw, gap)
<1>1. ASSUME NEW i \in TxRows
      PROVE  /\ IsPosting(rw[i], i) /\ ~rw[i].again
             /\ plan[i] # "late_posting" => rw[i].posted - transactions[i].time + 29 <= MaxPostingLag
  <2>1. PICK r \in Natural(i) : rw[i] \in Injected(r, plan[i])
    BY DEF Drawn
  <2>2. plan[i] \in Kinds \cup {"none"}
    OBVIOUS
  <2>3. QED
    BY <2>1, <2>2, InjectedBears
<1>2. rw \in Seq(Posting) /\ DOMAIN rw = TxRows
  <2>1. TxRows = 1 .. Len(transactions) /\ Len(transactions) \in Nat
    BY TableTells
  <2> DEFINE n == Len(transactions)
  <2>2. n \in Nat /\ DOMAIN rw = 1 .. n /\ rw = [i \in 1 .. n |-> rw[i]]
    BY <2>1
  <2>3. \A i \in 1 .. n : rw[i] \in Posting
    BY <1>1, <2>1 DEF IsPosting
  <2> HIDE DEF n
  <2>4. rw \in Seq(Posting)
    BY ONLY <2>2, <2>3
  <2>5. QED
    BY <2>4
<1>3. \A i \in Having("duplicate_posting") : gap[i] \in SecondsLater
  OBVIOUS
<1>4. QED
  BY <1>1, <1>2, <1>3 DEF AreDrawn

-----------------------------------------------------------------------------
(* What the engine finds in the books.                                     *)

LEMMA LabelsByRule ==
    /\ Label("REC-001") = "missing_ledger_entry"
    /\ Label("REC-002") = "duplicate_posting"
    /\ Label("REC-003") = "contradictory_amount"
    /\ Label("REC-004") = "currency_mismatch"
    /\ Label("REC-005") = "missing_reference"
    /\ Label("REC-008") = "late_posting"
BY DEF Label, RULE_TO_LABEL

LEMMA TransactionAsked ==
    ASSUME IsTable, Len(transactions) <= MaxPosted, NEW i \in TxRows
    PROVE  /\ Asked(i) \in Transaction
           /\ Asked(i).id = transactions[i].id /\ Asked(i).amount = transactions[i].amount
           /\ Asked(i).currency = transactions[i].currency /\ Asked(i).time = transactions[i].time
           /\ Asked(i).reference = transactions[i].reference /\ Asked(i).reference # NoReference
<1> DEFINE tx == transactions[i]
<1>1. /\ tx.id \in STRING /\ tx.amount \in Int /\ tx.currency \in STRING
      /\ tx.reference \in STRING /\ tx.time \in Int /\ tx.reference # NoReference
  BY TableTells
<1> HIDE DEF tx
<1>2. Asked(i) = [id |-> tx.id, amount |-> tx.amount, currency |-> tx.currency,
                  reference |-> tx.reference, time |-> tx.time]
  BY DEF Asked, tx
<1>3. QED
  BY <1>1, <1>2 DEF Transaction, tx

LEMMA AsOfIsTime ==
    ASSUME IsTable, Len(transactions) <= MaxPosted, TxRows # {}
    PROVE  AsOf \in Nat
<1> DEFINE T == {transactions[i].time : i \in TxRows}
<1>1. IsFiniteSet(TxRows) /\ \A i \in TxRows : transactions[i].time \in Nat
  BY TableTells
<1>2. T \in SUBSET Int /\ T # {} /\ T \in SUBSET Nat
  BY <1>1
<1>3. IsFiniteSet(T)
  <2> DEFINE at == [i \in TxRows |-> transactions[i].time]
  <2>1. at \in Surjection(TxRows, T)
    BY DEF Surjection
  <2> HIDE DEF at, T
  <2>2. QED
    BY <1>1, <2>1, FS_Surjection
<1> HIDE DEF T
<1>4. Max(T) \in T
  <2>1. \E n \in T : \A m \in T : m <= n
    BY <1>2, <1>3, GreatestExists
  <2>2. \E n \in T : \A m \in T : n >= m
    BY <1>2, <2>1
  <2>3. QED
    BY <2>2 DEF Max
<1>5. QED
  BY <1>2, <1>4 DEF AsOf, T

\* What is found of a transaction, but for the status of its settlement.
LEMMA CoreIsFound ==
    ASSUME NEW tx, NEW records, NEW as_of
    PROVE  /\ Core(Reconcile(tx, records, as_of)) = Found(Match(tx, records), as_of) \ StatusRules
           /\ Reconcile(tx, records, as_of).tx = tx.id
<1> DEFINE m == Match(tx, records)
           result == Reconcile(tx, records, as_of)
<1>1. result.discrepancies = Detect(m, as_of) /\ result.tx = tx.id
  BY DEF Reconcile
<1>2. {d.rule : d \in Detect(m, as_of)} = Found(m, as_of)
  BY DetectedIsFound
<1> HIDE DEF m, result
<1>3. Core(result) = {d.rule : d \in Detect(m, as_of)} \ StatusRules
  BY <1>1 DEF Core
<1>4. Core(result) = Found(m, as_of) \ StatusRules
  BY <1>2, <1>3
<1>5. QED
  BY <1>1, <1>4 DEF m, result

\* Whatever is injected is found, and nothing else.
LEMMA CoreTells ==
    ASSUME IsTable, Len(transactions) <= MaxPosted, NEW records, BooksAgree(records), NEW as_of \in Nat,
           NEW i \in TxRows, plan[i] \in Kinds \cup {"none"}
    PROVE  LET core == Core(Reconcile(Asked(i), records, as_of))
           IN  /\ {Label(rule) : rule \in core} = {plan[i]} \ {"none"}
               /\ Cardinality(core) <= 1
               /\ core # {} <=> plan[i] # "none"
<1> DEFINE tx == Asked(i)
           m == Match(tx, records)
           core == Core(Reconcile(tx, records, as_of))
           F == Found(m, as_of)
           kind == plan[i]
<1>1. core = F \ StatusRules /\ F \subseteq RuleIds
  BY CoreIsFound DEF Found
<1>2. /\ Ledger(records)
      /\ Of(tx, records) = {} <=> kind = "missing_ledger_entry"
      /\ Cardinality(Of(tx, records)) <= 1 <=> kind # "duplicate_posting"
      /\ \A j \in Of(tx, records) : Bears(records[j], transactions[i], kind)
  BY DEF BooksAgree
<1>3. /\ m.tx = tx
      /\ Of(tx, records) = {} => m.primary = NoRecord
      /\ Of(tx, records) # {} => m.primary = Primary(tx, records) /\ m.primary # NoRecord
                                 /\ m.primary \in LedgerRecord
      /\ m.extras = <<>> <=> Cardinality(Of(tx, records)) <= 1
  BY <1>2, TheMatch
<1>4. /\ tx \in Transaction /\ tx.amount = transactions[i].amount
      /\ tx.currency = transactions[i].currency /\ tx.time = transactions[i].time
      /\ tx.reference = transactions[i].reference /\ tx.reference # NoReference
  BY TransactionAsked
<1> HIDE DEF tx, m, core, F, kind
<1>5. ASSUME NEW rule \in {"REC-001", "REC-002", "REC-003", "REC-004", "REC-005", "REC-008"},
             core = {rule}, Label(rule) = kind
      PROVE  {Label(r) : r \in core} = {kind} \ {"none"} /\ Cardinality(core) <= 1 /\ core # {} /\ kind # "none"
  <2>1. kind # "none"
    BY <1>5, LabelsByRule
  <2>2. {Label(r) : r \in core} = {kind}
    BY <1>5
  <2>3. Cardinality(core) = 1
    BY <1>5, FS_Singleton
  <2>4. QED
    BY <1>5, <2>1, <2>2, <2>3
<1>6. CASE kind = "missing_ledger_entry"
  <2>1. m.primary = NoRecord /\ m.extras = <<>>
    BY <1>2, <1>3, <1>6
  <2>2. F = {"REC-001"}
    BY <2>1, WhatIsFoundOfNone DEF F
  <2>3. core = {"REC-001"} /\ Label("REC-001") = kind
    BY <1>1, <1>6, <2>2, LabelsByRule DEF StatusRules
  <2>4. QED
    BY <1>5, <2>3 DEF tx, core, kind
<1>7. CASE kind # "missing_ledger_entry"
  <2> DEFINE r == m.primary
  <2>1. Of(tx, records) # {} /\ r \in LedgerRecord /\ r # NoRecord /\ r = Primary(tx, records)
    BY <1>2, <1>3, <1>7
  <2>2. Bears(r, transactions[i], kind)
    <3>1. PICK j \in Of(tx, records) : Candidates(tx, records)[1] = records[j]
      BY <1>2, <2>1, FirstCandidate
    <3>2. Candidates(tx, records)[1] = Primary(tx, records)
      BY <1>2, <2>1, FirstIsPrimary
    <3> HIDE DEF r
    <3>3. r = records[j]
      BY <2>1, <3>1, <3>2
    <3>4. QED
      BY <1>2, <3>1, <3>3
  <2>3. /\ "REC-001" \notin F
        /\ "REC-002" \in F <=> kind = "duplicate_posting"
    BY <1>2, <1>3, <2>1, WhatIsFoundOfSome DEF F
  <2>4. /\ "REC-003" \in F <=>
               Cents(tx.amount) - Cents(r.amount) \notin -AmountToleranceCents .. AmountToleranceCents
        /\ "REC-004" \in F <=> tx.currency # r.currency
        /\ "REC-005" \in F <=> (tx.reference = NoReference) # (r.reference = NoReference)
        /\ "REC-006" \in F <=>
               /\ tx.reference # NoReference /\ r.reference # NoReference
               /\ tx.reference # r.reference
        /\ "REC-007" \in F <=> r.posted - tx.time < 0
        /\ "REC-008" \in F <=> r.posted - tx.time > MaxPostingLag
    BY <1>3, <1>4, <2>1, WhatIsFound DEF F
  <2>a. r.posted \in Int /\ tx.time \in Int
    BY <1>4, <2>1 DEF LedgerRecord, Transaction
  <2> HIDE DEF r
  <2>5. /\ "REC-003" \in F <=> kind = "contradictory_amount"
        /\ "REC-004" \in F <=> kind = "currency_mismatch"
        /\ "REC-008" \in F <=> kind = "late_posting"
    BY <1>4, <2>2, <2>4 DEF Bears
  <2>6. /\ "REC-005" \in F <=> kind = "missing_reference"
        /\ "REC-006" \notin F
    BY <1>4, <2>2, <2>4 DEF Bears
  <2>7. "REC-007" \notin F
    <3>1. r.posted - tx.time >= 0
      BY <1>4, <2>2 DEF Bears
    <3>2. QED
      BY <2>4, <2>a, <3>1
  <2>8. \A rule : rule \in core <=> rule \in F /\ rule \in RuleIds /\ rule \notin StatusRules
    BY <1>1
  <2>9. \A rule \in core :
            \/ rule = "REC-002" /\ kind = "duplicate_posting"
            \/ rule = "REC-003" /\ kind = "contradictory_amount"
            \/ rule = "REC-004" /\ kind = "currency_mismatch"
            \/ rule = "REC-005" /\ kind = "missing_reference"
            \/ rule = "REC-008" /\ kind = "late_posting"
    BY <2>3, <2>5, <2>6, <2>7, <2>8 DEF RuleIds, StatusRules
  <2>10. /\ kind = "duplicate_posting" => "REC-002" \in core
         /\ kind = "contradictory_amount" => "REC-003" \in core
         /\ kind = "currency_mismatch" => "REC-004" \in core
         /\ kind = "missing_reference" => "REC-005" \in core
         /\ kind = "late_posting" => "REC-008" \in core
    BY <2>3, <2>5, <2>6, <2>8 DEF RuleIds, StatusRules
  <2>11. CASE kind = "none"
    <3>1. core = {}
      BY <2>9, <2>11
    <3>2. Cardinality({}) = 0
      BY FS_EmptySet
    <3>3. {Label(rule) : rule \in core} = {kind} \ {"none"} /\ Cardinality(core) <= 1
      BY <2>11, <3>1, <3>2
    <3>4. QED
      BY <2>11, <3>1, <3>3 DEF tx, core, kind
  <2>12. CASE kind # "none"
    <3>1. \E rule \in {"REC-002", "REC-003", "REC-004", "REC-005", "REC-008"} :
              core = {rule} /\ Label(rule) = kind
      <4>0. kind \in {"contradictory_amount", "missing_reference", "currency_mismatch",
                      "duplicate_posting", "late_posting"}
        BY <1>7, <2>12 DEF Kinds, kind
      <4>1. CASE kind = "duplicate_posting"
        <5>1. core = {"REC-002"}
          BY <2>9, <2>10, <4>1
        <5>2. QED
          BY <4>1, <5>1, LabelsByRule
      <4>2. CASE kind = "contradictory_amount"
        <5>1. core = {"REC-003"}
          BY <2>9, <2>10, <4>2
        <5>2. QED
          BY <4>2, <5>1, LabelsByRule
      <4>3. CASE kind = "currency_mismatch"
        <5>1. core = {"REC-004"}
          BY <2>9, <2>10, <4>3
        <5>2. QED
          BY <4>3, <5>1, LabelsByRule
      <4>4. CASE kind = "missing_reference"
        <5>1. core = {"REC-005"}
          BY <2>9, <2>10, <4>4
        <5>2. QED
          BY <4>4, <5>1, LabelsByRule
      <4>5. CASE kind = "late_posting"
        <5>1. core = {"REC-008"}
          BY <2>9, <2>10, <4>5
        <5>2. QED
          BY <4>5, <5>1, LabelsByRule
      <4>6. QED
        BY <4>0, <4>1, <4>2, <4>3, <4>4, <4>5
    <3>2. QED
      BY <1>5, <3>1 DEF tx, core, kind
  <2>13. QED
    BY <2>11, <2>12
<1>8. QED
  BY <1>6, <1>7

-----------------------------------------------------------------------------
(* The evaluation counts no error.                                         *)

LEMMA TallyOfSame ==
    ASSUME NEW A
    PROVE  Tally(A, A) = [tp |-> Cardinality(A), fp |-> 0, fn |-> 0]
<1>1. A \cap A = A /\ A \ A = {}
  OBVIOUS
<1>2. Cardinality({}) = 0
  BY FS_EmptySet
<1>3. QED
  BY <1>1, <1>2 DEF Tally

IdsOf(S) == {transactions[i].id : i \in S}

LEMMA IdsCount ==
    ASSUME IsTable, Len(transactions) <= MaxPosted, NEW S \in SUBSET TxRows
    PROVE  Cardinality(IdsOf(S)) = Cardinality(S)
<1> DEFINE f == [i \in S |-> transactions[i].id]
<1>1. IsFiniteSet(S)
  BY TableTells, FS_Subset
<1>2. \A i, j \in S : transactions[i].id = transactions[j].id => i = j
  BY TableTells
<1>3. f \in Bijection(S, IdsOf(S))
  BY <1>2 DEF Bijection, Injection, IsInjective, Surjection, IdsOf
<1> HIDE DEF f
<1>4. QED
  BY <1>1, <1>3, FS_Bijection DEF ExistsBijection

Wrong == {i \in TxRows : plan[i] # "none"}

LEMMA TruthTells ==
    ASSUME IsTable, Len(transactions) <= MaxPosted, LabelsAgree(labels)
    PROVE  /\ DOMAIN Truth = IdsOf(Wrong)
           /\ \A i \in Wrong : Truth[transactions[i].id] = plan[i]
<1>1. DOMAIN Truth = {l.tx : l \in labels}
  BY DEF Truth
<1>2. {l.tx : l \in labels} = IdsOf(Wrong)
  BY DEF LabelsAgree, IdsOf, Wrong
<1>3. ASSUME NEW i \in Wrong PROVE Truth[transactions[i].id] = plan[i]
  <2> DEFINE t == transactions[i].id
             l == CHOOSE l \in labels : l.tx = t
  <2>1. \E k \in labels : k.tx = t
    BY DEF LabelsAgree, Wrong
  <2>2. l \in labels /\ l.tx = t
    BY <2>1
  <2>3. t \in {k.tx : k \in labels}
    BY <2>1
  <2>4. Truth[t] = l.kind
    BY <2>3 DEF Truth
  <2> HIDE DEF l
  <2>5. PICK j \in TxRows : l.tx = transactions[j].id /\ l.kind = plan[j]
    BY <2>2 DEF LabelsAgree
  <2>6. i \in TxRows
    BY DEF Wrong
  <2>7. i = j
    BY <2>2, <2>5, <2>6, TableTells
  <2>8. QED
    BY <2>4, <2>5, <2>7
<1>4. QED
  BY <1>1, <1>2, <1>3

\* What the engine says of every transaction.
FoundIn(records) == {Reconcile(Asked(i), records, AsOf) : i \in TxRows}

LEMMA FoundTells ==
    ASSUME IsTable, Len(transactions) <= MaxPosted, NEW records, BooksAgree(records),
           plan \in [TxRows -> Kinds \cup {"none"}], NEW i \in TxRows, NEW r \in FoundIn(records),
           r.tx = transactions[i].id
    PROVE  /\ {Label(rule) : rule \in Core(r)} = {plan[i]} \ {"none"}
           /\ Cardinality(Core(r)) <= 1
           /\ Core(r) # {} <=> plan[i] # "none"
<1>1. PICK j \in TxRows : r = Reconcile(Asked(j), records, AsOf)
  BY DEF FoundIn
<1>2. r.tx = transactions[j].id
  BY <1>1, CoreIsFound, TransactionAsked
<1>3. i = j
  BY <1>2, TableTells
<1>4. AsOf \in Nat /\ plan[i] \in Kinds \cup {"none"}
  BY AsOfIsTime
<1>5. QED
  BY <1>1, <1>3, <1>4, CoreTells

LEMMA PredictedTells ==
    ASSUME IsTable, Len(transactions) <= MaxPosted, NEW records, BooksAgree(records),
           plan \in [TxRows -> Kinds \cup {"none"}]
    PROVE  /\ DOMAIN Predicted(FoundIn(records)) = IdsOf(Wrong)
           /\ \A i \in Wrong : Predicted(FoundIn(records))[transactions[i].id] = {plan[i]}
<1> DEFINE found == FoundIn(records)
           P == Predicted(found)
           D == {r.tx : r \in {r \in found : Core(r) # {}}}
<1>1. P = [t \in D |-> UNION {{Label(rule) : rule \in Core(r)} : r \in {r \in found : r.tx = t}}]
  BY DEF Predicted
<1>2. \A i \in TxRows : \E r \in found : r.tx = transactions[i].id
  <2> SUFFICES ASSUME NEW i \in TxRows PROVE \E r \in found : r.tx = transactions[i].id
    OBVIOUS
  <2>1. Reconcile(Asked(i), records, AsOf) \in found
    BY DEF FoundIn
  <2>2. Reconcile(Asked(i), records, AsOf).tx = transactions[i].id
    BY CoreIsFound, TransactionAsked
  <2>3. QED
    BY <2>1, <2>2
<1>3. \A r \in found : \E i \in TxRows : r.tx = transactions[i].id
  <2> SUFFICES ASSUME NEW r \in found PROVE \E i \in TxRows : r.tx = transactions[i].id
    OBVIOUS
  <2>1. PICK i \in TxRows : r = Reconcile(Asked(i), records, AsOf)
    BY DEF FoundIn
  <2>2. QED
    BY <2>1, CoreIsFound, TransactionAsked
<1>4. \A i \in TxRows : \A r \in found : r.tx = transactions[i].id =>
          /\ {Label(rule) : rule \in Core(r)} = {plan[i]} \ {"none"}
          /\ Core(r) # {} <=> plan[i] # "none"
  BY FoundTells
<1> HIDE DEF found
<1>5. D = IdsOf(Wrong)
  <2>1. ASSUME NEW t \in D PROVE t \in IdsOf(Wrong)
    <3>1. PICK r \in found : Core(r) # {} /\ t = r.tx
      OBVIOUS
    <3>2. PICK i \in TxRows : r.tx = transactions[i].id
      BY <1>3
    <3>3. i \in Wrong
      BY <1>4, <3>1, <3>2 DEF Wrong
    <3>4. QED
      BY <3>1, <3>2, <3>3 DEF IdsOf
  <2>2. ASSUME NEW t \in IdsOf(Wrong) PROVE t \in D
    <3>1. PICK i \in Wrong : t = transactions[i].id
      BY DEF IdsOf
    <3>2. i \in TxRows /\ plan[i] # "none"
      BY DEF Wrong
    <3>3. PICK r \in found : r.tx = transactions[i].id
      BY <1>2, <3>2
    <3>4. Core(r) # {}
      BY <1>4, <3>2, <3>3
    <3>5. QED
      BY <3>1, <3>3, <3>4
  <2>3. QED
    BY <2>1, <2>2
<1>6. ASSUME NEW i \in Wrong PROVE P[transactions[i].id] = {plan[i]}
  <2> DEFINE t == transactions[i].id
             mine == {r \in found : r.tx = t}
             said == {{Label(rule) : rule \in Core(r)} : r \in mine}
  <2>1. i \in TxRows /\ plan[i] # "none"
    BY DEF Wrong
  <2>2. t \in D
    BY <1>5 DEF IdsOf
  <2>3. P[t] = UNION said
    BY <1>1, <2>2
  <2>4. \A r \in mine : {Label(rule) : rule \in Core(r)} = {plan[i]}
    BY <1>4, <2>1
  <2>5. mine # {}
    BY <1>2, <2>1
  <2> HIDE DEF mine
  <2>6. said = {{plan[i]}}
    BY <2>4, <2>5
  <2> HIDE DEF said
  <2>7. P[t] = {plan[i]}
    BY <2>3, <2>6
  <2>8. QED
    BY <2>7
<1>7. DOMAIN P = D
  BY <1>1
<1> HIDE DEF P, D
<1>8. QED
  BY <1>5, <1>6, <1>7 DEF P, found

LEMMA ScoresTell ==
    ASSUME IsTable, Len(transactions) <= MaxPosted, BooksAgree(ledger), LabelsAgree(labels),
           plan \in [TxRows -> Kinds \cup {"none"}]
    PROVE  LET s == ScoresOf(FoundIn(ledger))
           IN  /\ \A k \in Kinds : s.per_type[k] = [tp |-> Cardinality(Having(k)), fp |-> 0, fn |-> 0]
               /\ s.overall = [tp |-> Cardinality(Wrong), fp |-> 0, fn |-> 0]
               /\ s.misattributed = 0
<1> DEFINE P == Predicted(FoundIn(ledger))
           T == Truth
           s == ScoresOf(FoundIn(ledger))
           missed == {t \in DOMAIN T \cap DOMAIN P : T[t] \notin P[t]}
<1>1. /\ DOMAIN T = IdsOf(Wrong)
      /\ \A i \in Wrong : T[transactions[i].id] = plan[i]
  BY TruthTells
<1>2. /\ DOMAIN P = IdsOf(Wrong)
      /\ \A i \in Wrong : P[transactions[i].id] = {plan[i]}
  BY PredictedTells
<1>3. /\ \A k \in Kinds : s.per_type[k] = Tally({t \in DOMAIN T : T[t] = k}, {t \in DOMAIN P : k \in P[t]})
      /\ s.overall = Tally(DOMAIN T, DOMAIN P)
      /\ s.misattributed = Cardinality(missed)
  BY DEF ScoresOf
<1> HIDE DEF P, T, s
<1>4. \A t \in IdsOf(Wrong) : \E i \in Wrong : t = transactions[i].id
  BY DEF IdsOf
<1>5. ASSUME NEW k \in Kinds
      PROVE  s.per_type[k] = [tp |-> Cardinality(Having(k)), fp |-> 0, fn |-> 0]
  <2> DEFINE A == {t \in DOMAIN T : T[t] = k}
             B == {t \in DOMAIN P : k \in P[t]}
  <2>1. Having(k) \in SUBSET TxRows /\ Having(k) \subseteq Wrong /\ \A i \in Having(k) : plan[i] = k
    BY DEF Having, Wrong, Kinds
  <2>2. \A i \in Wrong : plan[i] = k => i \in Having(k)
    BY DEF Having, Wrong
  <2>3. A = IdsOf(Having(k))
    <3>1. \A t \in A : t \in IdsOf(Having(k))
      BY <1>1, <1>4, <2>2 DEF IdsOf
    <3>2. \A t \in IdsOf(Having(k)) : t \in A
      BY <1>1, <2>1 DEF IdsOf
    <3>3. QED
      BY <3>1, <3>2
  <2>4. B = IdsOf(Having(k))
    <3>1. \A t \in B : t \in IdsOf(Having(k))
      BY <1>2, <1>4, <2>2 DEF IdsOf
    <3>2. \A t \in IdsOf(Having(k)) : t \in B
      BY <1>2, <2>1 DEF IdsOf
    <3>3. QED
      BY <3>1, <3>2
  <2>5. s.per_type[k] = Tally(A, B)
    BY <1>3
  <2> HIDE DEF A, B
  <2>6. s.per_type[k] = [tp |-> Cardinality(A), fp |-> 0, fn |-> 0]
    BY <2>3, <2>4, <2>5, TallyOfSame
  <2>7. Cardinality(A) = Cardinality(Having(k))
    BY <2>1, <2>3, IdsCount
  <2>8. QED
    BY <2>6, <2>7
<1>6. s.overall = [tp |-> Cardinality(Wrong), fp |-> 0, fn |-> 0]
  <2>1. Wrong \in SUBSET TxRows
    BY DEF Wrong
  <2>2. Cardinality(IdsOf(Wrong)) = Cardinality(Wrong)
    BY <2>1, IdsCount
  <2>3. s.overall = Tally(IdsOf(Wrong), IdsOf(Wrong))
    BY <1>1, <1>2, <1>3
  <2>4. QED
    BY <2>2, <2>3, TallyOfSame
<1>7. s.misattributed = 0
  <2>1. missed = {}
    BY <1>1, <1>2, <1>4
  <2>2. Cardinality({}) = 0
    BY FS_EmptySet
  <2> HIDE DEF missed
  <2>3. QED
    BY <1>3, <2>1, <2>2
<1>8. QED
  BY <1>5, <1>6, <1>7 DEF s

LEMMA CardinalityAdds ==
    ASSUME NEW A, IsFiniteSet(A), NEW B, IsFiniteSet(B), A \cap B = {}
    PROVE  Cardinality(A \cup B) = Cardinality(A) + Cardinality(B)
<1>1. Cardinality(A) \in Nat /\ Cardinality(B) \in Nat
  BY FS_CardinalityType
<1>2. Cardinality(A \cap B) = 0
  BY FS_EmptySet
<1>3. Cardinality(A \cup B) = Cardinality(A) + Cardinality(B) - Cardinality(A \cap B)
  BY FS_Union
<1>4. QED
  BY <1>1, <1>2, <1>3

\* As many as there are of every kind are there altogether.
LEMMA PartsAddUp ==
    ASSUME NEW S, IsFiniteSet(S), NEW f, NEW K, IsFiniteSet(K), NEW c,
           \A k \in K : c[k] = Cardinality({i \in S : f[i] = k})
    PROVE  SumFunctionOnSet(c, K) = Cardinality({i \in S : f[i] \in K})
<1> DEFINE of(B) == {i \in S : f[i] \in B}
           N == {n \in Nat : \A B \in SUBSET K : Cardinality(B) = n =>
                    SumFunctionOnSet(c, B) = Cardinality(of(B))}
<1>1. \A B \in SUBSET K : IsFiniteSet(B) /\ Cardinality(B) \in Nat
  BY FS_Subset, FS_CardinalityType
<1>2. \A B : IsFiniteSet(of(B)) /\ Cardinality(of(B)) \in Nat
  BY FS_Subset, FS_CardinalityType
<1>3. \A k \in K : IsFiniteSet({i \in S : f[i] = k}) /\ Cardinality({i \in S : f[i] = k}) \in Nat
  BY FS_Subset, FS_CardinalityType
<1>4. 0 \in N
  <2> SUFFICES ASSUME NEW B \in SUBSET K, Cardinality(B) = 0
               PROVE  SumFunctionOnSet(c, B) = Cardinality(of(B))
    OBVIOUS
  <2>1. B = {}
    BY <1>1, FS_EmptySet
  <2>2. of(B) = {} /\ Cardinality({}) = 0
    BY <2>1, FS_EmptySet
  <2> HIDE DEF of
  <2>3. SumFunctionOnSet(c, {}) = 0
    BY SumOfNone
  <2>4. QED
    BY <2>1, <2>2, <2>3
<1>5. ASSUME NEW n \in Nat, n \in N PROVE n + 1 \in N
  <2> SUFFICES ASSUME NEW B \in SUBSET K, Cardinality(B) = n + 1
               PROVE  SumFunctionOnSet(c, B) = Cardinality(of(B))
    OBVIOUS
  <2>1. IsFiniteSet(B) /\ B # {}
    BY <1>1, FS_EmptySet
  <2>2. PICK k \in B : TRUE
    BY <2>1
  <2> DEFINE C == B \ {k}
             one == {i \in S : f[i] = k}
  <2>3. IsFiniteSet(C) /\ Cardinality(C) = n /\ C \in SUBSET K
    BY <2>1, OneLess
  <2>4. Numbers(c, B)
    <3>1. \A l \in K : c[l] \in Int
      <4> SUFFICES ASSUME NEW l \in K PROVE c[l] \in Int
        OBVIOUS
      <4>1. c[l] = Cardinality({i \in S : f[i] = l})
        OBVIOUS
      <4>2. QED
        BY <1>3, <4>1
    <3> HIDE DEF N, of
    <3>2. QED
      BY <3>1 DEF Numbers
  <2>5. SumFunctionOnSet(c, B) = c[k] + SumFunctionOnSet(c, C)
    BY <2>1, <2>4, SumTakesOut
  <2>6. SumFunctionOnSet(c, C) = Cardinality(of(C))
    <3> HIDE DEF C, of
    <3>1. QED
      BY <1>5, <2>3
  <2>7. one \cup of(C) = of(B) /\ one \cap of(C) = {}
    OBVIOUS
  <2>8. c[k] = Cardinality(one) /\ IsFiniteSet(one) /\ Cardinality(one) \in Nat
    BY <1>3
  <2>9. IsFiniteSet(of(C)) /\ Cardinality(of(C)) \in Nat
    BY <1>2
  <2> HIDE DEF C, one, of
  <2>10. Cardinality(one \cup of(C)) = Cardinality(one) + Cardinality(of(C))
    BY <2>7, <2>8, <2>9, CardinalityAdds
  <2>11. Cardinality(of(B)) = Cardinality(one) + Cardinality(of(C))
    BY <2>7, <2>10
  <2>12. QED
    BY <2>5, <2>6, <2>8, <2>11
<1>6. \A n \in Nat : n \in N
  <2> HIDE DEF N
  <2>1. QED
    BY <1>4, <1>5, EveryNumber
<1>7. K \in SUBSET K /\ Cardinality(K) \in Nat
  BY <1>1
<1>8. SumFunctionOnSet(c, K) = Cardinality(of(K))
  <2> HIDE DEF of
  <2>1. QED
    BY <1>6, <1>7
<1>9. QED
  BY <1>8

\* The quotas are the configured total, whatever rounding leaves of the mix.
LEMMA QuotasAddUp ==
    ASSUME config \in Configs
    PROVE  /\ IsFiniteSet(Kinds)
           /\ SumFunctionOnSet(Quotas, Kinds) = config.discrepancies
<1> DEFINE D == config.discrepancies
           floor == [k \in Kinds |-> (config.ledger_mix[k] * D) \div 100]
           a == "contradictory_amount"
           rest == Kinds \ {a}
           q == [floor EXCEPT ![a] = @ + D - SumFunction(floor)]
<1>1. /\ D \in Nat /\ \A k \in Kinds : config.ledger_mix[k] \in Nat
  BY LedgerMixAssumption
<1>2. \A k \in Kinds : (config.ledger_mix[k] * D) \div 100 \in Int
  <2> SUFFICES ASSUME NEW k \in Kinds PROVE (config.ledger_mix[k] * D) \div 100 \in Int
    OBVIOUS
  <2> DEFINE u == config.ledger_mix[k] * D
  <2>1. u \in Int
    BY <1>1
  <2> HIDE DEF u
  <2>2. u \div 100 \in Int
    BY <2>1, HundredthsAreNear
  <2>3. QED
    BY <2>2 DEF u
<1>3. IsFiniteSet(Kinds) /\ IsFiniteSet(rest) /\ a \in Kinds
  <2>1. IsFiniteSet(Kinds)
    <3> DEFINE names == <<"contradictory_amount", "missing_reference", "currency_mismatch",
                          "missing_ledger_entry", "duplicate_posting", "late_posting">>
    <3>1. names \in Surjection(1 .. 6, Kinds)
      BY DEF Surjection, Kinds
    <3>2. IsFiniteSet(1 .. 6)
      BY CardinalityUpTo
    <3> HIDE DEF names
    <3>3. QED
      BY <3>1, <3>2, FS_Surjection
  <2>2. QED
    BY <2>1, FS_Subset DEF Kinds
<1>4. \A k \in Kinds : floor[k] \in Int
  BY <1>2
<1>5. DOMAIN floor = Kinds
  OBVIOUS
<1>6. Quotas = q
  BY DEF Quotas
<1> DEFINE sum == SumFunctionOnSet(floor, Kinds)
<1>7. SumFunction(floor) = sum
  BY <1>5 DEF SumFunction
<1> HIDE DEF floor
<1>8. sum \in Int /\ Numbers(floor, Kinds)
  BY <1>3, <1>4, SumType DEF Numbers
<1>9. sum = floor[a] + SumFunctionOnSet(floor, rest)
  BY <1>3, <1>8, SumTakesOut
<1>10. q = [floor EXCEPT ![a] = @ + D - sum]
  BY <1>7
<1>11. /\ q[a] = floor[a] + D - sum
       /\ \A k \in rest : q[k] = floor[k]
  BY <1>3, <1>5, <1>10
<1> HIDE DEF q, sum, D, a
<1>12. floor[a] \in Int /\ q[a] \in Int
  BY <1>1, <1>3, <1>4, <1>8, <1>11
<1>13. Numbers(q, Kinds)
  BY <1>4, <1>11, <1>12 DEF Numbers
<1>14. SumFunctionOnSet(q, Kinds) = q[a] + SumFunctionOnSet(q, rest)
  BY <1>3, <1>13, SumTakesOut
<1>15. SumFunctionOnSet(q, rest) = SumFunctionOnSet(floor, rest)
  <2> DEFINE at == [k \in rest |-> k]
  <2>1. /\ \A k \in rest : q[k] \in Int /\ q[k] = floor[at[k]]
        /\ \A k, l \in rest : at[k] = at[l] => k = l
    BY <1>4, <1>11
  <2>2. {at[k] : k \in rest} = rest
    OBVIOUS
  <2> HIDE DEF at, rest
  <2>3. SumFunctionOnSet(q, rest) = SumFunctionOnSet(floor, {at[k] : k \in rest})
    BY ONLY <1>3, <2>1, SumRenames
  <2>4. QED
    BY <2>2, <2>3
<1>16. SumFunctionOnSet(floor, rest) \in Int
  <2>1. Numbers(floor, rest)
    BY <1>4 DEF Numbers
  <2>2. QED
    BY <1>3, <2>1, SumType
<1>17. SumFunctionOnSet(q, Kinds) = D
  <2> DEFINE x == SumFunctionOnSet(floor, rest)
  <2> HIDE DEF x, rest
  <2>1. x \in Int /\ sum = floor[a] + x /\ SumFunctionOnSet(q, Kinds) = q[a] + x
    BY <1>9, <1>14, <1>15, <1>16 DEF x
  <2>2. QED
    BY <1>1, <1>8, <1>11, <1>12, <2>1
<1>18. QED
  BY <1>3, <1>6, <1>17 DEF D

LEMMA WrongCount ==
    ASSUME IsTable, Len(transactions) <= MaxPosted, config \in Configs,
           \A k \in Kinds : Cardinality(Having(k)) = Quotas[k],
           plan \in [TxRows -> Kinds \cup {"none"}]
    PROVE  Cardinality(Wrong) = config.discrepancies
<1>1. IsFiniteSet(TxRows)
  BY TableTells
<1>2. \A k \in Kinds : Quotas[k] = Cardinality({i \in TxRows : plan[i] = k})
  BY DEF Having
<1>3. IsFiniteSet(Kinds) /\ SumFunctionOnSet(Quotas, Kinds) = config.discrepancies
  BY QuotasAddUp
<1> DEFINE q == Quotas
<1> HIDE DEF q
<1>4. SumFunctionOnSet(q, Kinds) = Cardinality({i \in TxRows : plan[i] \in Kinds})
  BY <1>1, <1>2, <1>3, PartsAddUp DEF q
<1>5. {i \in TxRows : plan[i] \in Kinds} = Wrong
  BY DEF Wrong, Kinds
<1>6. QED
  BY <1>3, <1>4, <1>5 DEF q

\* What InjectionsAreFound says of a run of the engine.
AllAreFound(found, s) ==
    /\ \A i \in TxRows : \A r \in found :
          r.tx = transactions[i].id =>
              {Label(rule) : rule \in Core(r)} = {plan[i]} \ {"none"} /\ Cardinality(Core(r)) <= 1
    /\ \A k \in Kinds : s.per_type[k] = [tp |-> Quotas[k], fp |-> 0, fn |-> 0]
    /\ s.overall = [tp |-> config.discrepancies, fp |-> 0, fn |-> 0]
    /\ s.misattributed = 0

LEMMA EvaluationFinds ==
    ASSUME IsTable, Len(transactions) <= MaxPosted, config \in Configs,
           BooksAgree(ledger), LabelsAgree(labels),
           plan \in [TxRows -> Kinds \cup {"none"}],
           \A k \in Kinds : Cardinality(Having(k)) = Quotas[k],
           NEW found, found = FoundIn(ledger), NEW s, s = ScoresOf(found)
    PROVE  AllAreFound(found, s)
<1>1. \A i \in TxRows : \A r \in found :
          r.tx = transactions[i].id =>
              {Label(rule) : rule \in Core(r)} = {plan[i]} \ {"none"} /\ Cardinality(Core(r)) <= 1
  BY FoundTells
<1>2. /\ \A k \in Kinds : s.per_type[k] = [tp |-> Cardinality(Having(k)), fp |-> 0, fn |-> 0]
      /\ s.overall = [tp |-> Cardinality(Wrong), fp |-> 0, fn |-> 0]
      /\ s.misattributed = 0
  BY ScoresTell
<1>3. Cardinality(Wrong) = config.discrepancies
  BY WrongCount
<1>4. QED
  BY <1>1, <1>2, <1>3 DEF AllAreFound

-----------------------------------------------------------------------------
(* From the first row to the evaluation.                                   *)

LEMMA SecondsOf == Hour \in Nat /\ Hour > 0 /\ Day \in Nat /\ Day > 0
<1>1. Hour \in Nat /\ Hour > 0
  BY DEF Hour
<1> HIDE DEF Hour
<1>2. QED
  BY <1>1 DEF Day

LEMMA KindsOfAnomaly ==
    /\ Len(Edited) = 4 /\ DOMAIN Edited = 1 .. 4 /\ DOMAIN Inserted = 1 .. 3
    /\ \A n \in 1 .. 4 : Edited[n] \in {"geo_change", "new_counterparty", "high_value", "unusual_time"}
    /\ \A n \in 1 .. 3 : Inserted[n] \in {"burst", "abnormal_velocity", "repeated_transfers"}
    /\ AnomalyKinds = {"geo_change", "new_counterparty", "high_value", "unusual_time"}
                      \cup {"burst", "abnormal_velocity", "repeated_transfers"}
<1>1. /\ Len(Edited) = 4 /\ DOMAIN Edited = 1 .. 4 /\ DOMAIN Inserted = 1 .. 3
      /\ \A n \in 1 .. 4 : Edited[n] \in {"geo_change", "new_counterparty", "high_value", "unusual_time"}
      /\ \A n \in 1 .. 3 : Inserted[n] \in {"burst", "abnormal_velocity", "repeated_transfers"}
  BY DEF Edited, Inserted
<1>2. /\ Edited[1] = "geo_change" /\ Edited[2] = "new_counterparty"
      /\ Edited[3] = "high_value" /\ Edited[4] = "unusual_time"
      /\ Inserted[1] = "burst" /\ Inserted[2] = "abnormal_velocity" /\ Inserted[3] = "repeated_transfers"
  BY DEF Edited, Inserted
<1>3. ToSet(Edited) = {"geo_change", "new_counterparty", "high_value", "unusual_time"}
  BY <1>1, <1>2 DEF ToSet
<1>4. ToSet(Inserted) = {"burst", "abnormal_velocity", "repeated_transfers"}
  BY <1>1, <1>2 DEF ToSet
<1>5. QED
  BY <1>1, <1>3, <1>4 DEF AnomalyKinds

\* Midnight of a time is a time.
LEMMA Midnight ==
    ASSUME NEW t \in Nat
    PROVE  t - (t % Day) \in Nat
<1>1. Day \in Nat /\ Day > 0
  BY SecondsOf
<1> DEFINE r == t % Day
           q == t \div Day
<1>2. t = Day * q + r /\ q \in Int /\ r \in 0 .. Day - 1
  BY <1>1
<1> HIDE DEF r, q
<1>3. q >= 0
  <2>1. SUFFICES ASSUME q <= -1 PROVE FALSE
    BY <1>2
  <2>2. Day * q <= Day * (-1)
    BY ONLY <1>1, <1>2, <2>1
  <2> DEFINE x == Day * q
  <2> HIDE DEF x
  <2>3. x <= -Day /\ x \in Int /\ t = x + r
    BY <1>1, <1>2, <2>2 DEF x
  <2>4. QED
    BY <1>1, <1>2, <2>3
<1>4. Day * q \in Nat
  BY <1>1, <1>2, <1>3
<1>5. t - r = Day * q
  <2> DEFINE x == Day * q
  <2>1. x \in Nat
    BY <1>4
  <2> HIDE DEF x
  <2>2. t = x + r
    BY <1>2 DEF x
  <2>3. t - r = x
    BY <1>1, <1>2, <2>1, <2>2
  <2>4. QED
    BY <2>3 DEF x
<1>6. QED
  BY <1>4, <1>5 DEF r

\* A row that is edited is a row.
LEMMA EditedRowType ==
    ASSUME fresh \in Int, NEW r \in RawRow, NEW kind \in ToSet(Edited), NEW draw \in Draws[kind], NEW nth \in Nat
    PROVE  EditedRow(r, kind, draw, nth) \in RawRow
<1>1. /\ kind \in {"geo_change", "new_counterparty", "high_value", "unusual_time"}
      /\ kind \in AnomalyKinds
  BY KindsOfAnomaly DEF AnomalyKinds, ToSet
<1> DEFINE s == [r EXCEPT !.kind = kind]
<1>2. s \in RawRow /\ s.ts = r.ts /\ s.amount = r.amount /\ s.ts \in Nat /\ s.amount \in Int
  BY <1>1 DEF RawRow
<1> HIDE DEF s
<1>3. CASE kind = "geo_change"
  <2>1. draw \in STRING
    BY <1>3, BaselineAssumption DEF Draws
  <2>2. EditedRow(r, kind, draw, nth) = [s EXCEPT !.country = draw]
    BY <1>3 DEF EditedRow, s
  <2>3. [s EXCEPT !.country = draw] \in RawRow
    BY ONLY <1>2, <2>1 DEF RawRow
  <2>4. QED
    BY <2>2, <2>3
<1>4. CASE kind = "new_counterparty"
  <2>1. draw \in Int
    BY <1>4 DEF Draws
  <2> DEFINE party == fresh + nth - 1
             amount == s.amount * draw
  <2>2. party \in Int /\ amount \in Int
    BY <1>2, <2>1
  <2>3. EditedRow(r, kind, draw, nth) = [s EXCEPT !.cp = party, !.amount = amount]
    BY <1>4 DEF EditedRow, s
  <2> HIDE DEF party, amount
  <2>4. [s EXCEPT !.cp = party, !.amount = amount] \in RawRow
    BY ONLY <1>2, <2>2 DEF RawRow
  <2>5. QED
    BY <2>3, <2>4
<1>5. CASE kind = "high_value"
  <2>1. draw \in Int
    BY <1>5 DEF Draws
  <2> DEFINE amount == s.amount * draw
  <2>2. amount \in Int
    BY <1>2, <2>1
  <2>3. EditedRow(r, kind, draw, nth) = [s EXCEPT !.amount = amount]
    BY <1>5 DEF EditedRow, s
  <2> HIDE DEF amount
  <2>4. [s EXCEPT !.amount = amount] \in RawRow
    BY ONLY <1>2, <2>2 DEF RawRow
  <2>5. QED
    BY <2>3, <2>4
<1>6. CASE kind = "unusual_time"
  <2>1. draw \in Nat
    <3>1. Draws[kind] = Hour .. 5 * Hour - 1 \/ Draws[kind] = {Hour, 5 * Hour - 1}
      BY <1>6 DEF Draws
    <3>2. QED
      BY <3>1, SecondsOf
  <2> DEFINE time == s.ts - (s.ts % Day) + draw
  <2>2. time \in Nat
    BY <1>2, <2>1, Midnight
  <2>3. EditedRow(r, kind, draw, nth) = [s EXCEPT !.ts = time]
    BY <1>6 DEF EditedRow, s
  <2> HIDE DEF time
  <2>4. [s EXCEPT !.ts = time] \in RawRow
    BY ONLY <1>2, <2>2 DEF RawRow
  <2>5. QED
    BY <2>3, <2>4
<1>7. QED
  BY <1>1, <1>3, <1>4, <1>5, <1>6

\* How many rows of a kind there are to be.
LEMMA AnomalyQuotasAreNumbers ==
    ASSUME config \in Configs
    PROVE  AnomalyQuotas(config) \in [AnomalyKinds -> Int]
<1> DEFINE D == config.anomalies
           floor == [k \in AnomalyKinds |-> (config.anomaly_mix[k] * D) \div 100]
<1>1. D \in Nat /\ \A k \in AnomalyKinds : config.anomaly_mix[k] \in Nat
  BY AnomalyMixAssumption
<1>2. \A k \in AnomalyKinds : (config.anomaly_mix[k] * D) \div 100 \in Int
  <2> SUFFICES ASSUME NEW k \in AnomalyKinds PROVE (config.anomaly_mix[k] * D) \div 100 \in Int
    OBVIOUS
  <2> DEFINE u == config.anomaly_mix[k] * D
  <2>1. u \in Int
    BY <1>1
  <2> HIDE DEF u
  <2>2. u \div 100 \in Int
    BY <2>1, HundredthsAreNear
  <2>3. QED
    BY <2>2 DEF u
<1>3. IsFiniteSet(AnomalyKinds)
  <2> DEFINE names == <<"geo_change", "new_counterparty", "high_value", "unusual_time",
                        "burst", "abnormal_velocity", "repeated_transfers">>
  <2>1. names \in Surjection(1 .. 7, AnomalyKinds)
    BY KindsOfAnomaly DEF Surjection
  <2>2. IsFiniteSet(1 .. 7)
    BY CardinalityUpTo
  <2> HIDE DEF names
  <2>3. QED
    BY <2>1, <2>2, FS_Surjection
<1>4. floor \in [AnomalyKinds -> Int] /\ DOMAIN floor = AnomalyKinds
  BY <1>2
<1>5. AnomalyQuotas(config) = [floor EXCEPT !["high_value"] = @ + D - SumFunction(floor)]
  BY DEF AnomalyQuotas
<1> HIDE DEF floor, D
<1>6. SumFunction(floor) \in Int
  <2>1. Numbers(floor, AnomalyKinds)
    BY <1>4 DEF Numbers
  <2>2. SumFunctionOnSet(floor, AnomalyKinds) \in Int
    BY <1>3, <2>1, SumType
  <2>3. QED
    BY <1>4, <2>2 DEF SumFunction
<1>7. "high_value" \in AnomalyKinds
  BY KindsOfAnomaly
<1>8. floor["high_value"] + D - SumFunction(floor) \in Int
  BY <1>1, <1>4, <1>6, <1>7
<1> DEFINE x == floor["high_value"] + D - SumFunction(floor)
<1>9. AnomalyQuotas(config) = [floor EXCEPT !["high_value"] = x] /\ x \in Int
  BY <1>5, <1>8
<1> HIDE DEF x
<1>10. QED
  BY <1>4, <1>9

LEMMA ShareIsNatural ==
    ASSUME NEW a \in Nat, NEW b \in Nat, b > 0
    PROVE  a \div b \in Nat
<1> DEFINE r == a % b
           q == a \div b
<1>1. a = b * q + r /\ q \in Int /\ r \in 0 .. b - 1
  OBVIOUS
<1> HIDE DEF r, q
<1>2. q >= 0
  <2>1. SUFFICES ASSUME q <= -1 PROVE FALSE
    BY <1>1
  <2>2. b * q <= b * (-1)
    BY ONLY b \in Nat, <1>1, <2>1
  <2> DEFINE x == b * q
  <2> HIDE DEF x
  <2>3. x <= -b /\ x \in Int /\ a = x + r
    BY <1>1, <2>2 DEF x
  <2>4. QED
    BY <1>1, <2>3
<1>3. QED
  BY <1>1, <1>2 DEF q

\* The rows of an episode are made.
LEMMA EpisodeType ==
    ASSUME fresh \in Int, NEW kind \in ToSet(Inserted), NEW cust \in DOMAIN Profiles,
           NEW size \in Nat, size > 0, NEW start \in Starts(kind, cust), NEW apart \in Steps(kind, size),
           NEW number \in Nat
    PROVE  Episode(kind, cust, size, start, apart, number) \in Seq(RawRow)
<1>1. kind \in {"burst", "abnormal_velocity", "repeated_transfers"} /\ kind \in AnomalyKinds
  BY KindsOfAnomaly DEF AnomalyKinds, ToSet
<1>2. Day \in Nat /\ Day > 0
  BY SecondsOf
<1>3. /\ WindowDays \in Nat /\ WindowDays >= 60
      /\ Profiles[cust].start \in Nat /\ Profiles[cust].median \in Int /\ Profiles[cust].home \in STRING
  <2>1. WindowDays \in Nat /\ WindowDays >= 60
    BY BaselineAssumption
  <2>2. /\ Profiles[cust].start \in 0 .. WindowDays - 30 /\ Profiles[cust].median \in Int
        /\ Profiles[cust].home \in STRING \ UnusualCountries
    BY BaselineAssumption
  <2>3. Profiles[cust].start \in Nat
    BY ONLY <2>1, <2>2
  <2>4. QED
    BY <2>1, <2>2, <2>3
<1>4. start \in Nat
  <2> DEFINE late == IF kind = "repeated_transfers" THEN 25 ELSE 2
             d == WindowDays - late
             e == Profiles[cust].start + 1
  <2>1. d \in Nat /\ d >= 1 /\ e \in Nat
    BY <1>3
  <2>2. start = e * Day \/ start = d * Day - 1
    BY DEF Starts
  <2> HIDE DEF d, e
  <2>3. e * Day \in Nat
    BY <1>2, <2>1
  <2>4. d * Day \in Nat /\ 1 * Day <= d * Day
    BY ONLY <1>2, <2>1
  <2>5. d * Day - 1 \in Nat
    <3> DEFINE x == d * Day
    <3>1. x \in Nat /\ Day <= x
      BY <1>2, <2>4
    <3> HIDE DEF x
    <3>2. x - 1 \in Nat
      BY <1>2, <3>1
    <3>3. QED
      BY <3>2 DEF x
  <2>6. QED
    BY <2>2, <2>3, <2>5
<1>5. apart \in Nat
  <2>1. CASE kind = "burst"
    <3>1. apart \in {0, 599 \div size}
      BY <2>1 DEF Steps
    <3>2. QED
      BY <3>1, ShareIsNatural
  <2>2. CASE kind = "abnormal_velocity"
    <3>1. apart \in {0, (Day - 1) \div size} /\ Day - 1 \in Nat
      BY <1>2, <2>2 DEF Steps
    <3>2. QED
      BY <3>1, ShareIsNatural
  <2>3. CASE kind = "repeated_transfers"
    <3>1. apart \in {Day, 3 * Day - 1}
      BY <2>3 DEF Steps
    <3>2. QED
      BY <1>2, <3>1
  <2>4. QED
    BY <1>1, <2>1, <2>2, <2>3
<1> DEFINE row(i) == [cust |-> cust, ts |-> start + i * apart, amount |-> Profiles[cust].median, out |-> TRUE,
                      cp |-> IF kind = "abnormal_velocity" THEN fresh + i - 1 ELSE fresh,
                      country |-> Profiles[cust].home, kind |-> kind, episode |-> <<kind, number>>]
<1>6. ASSUME NEW i \in 1 .. size PROVE row(i) \in RawRow
  <2> DEFINE ts == start + i * apart
             cp == IF kind = "abnormal_velocity" THEN fresh + i - 1 ELSE fresh
             med == Profiles[cust].median
             home == Profiles[cust].home
             ep == <<kind, number>>
  <2>1. i * apart \in Nat
    BY <1>5
  <2>2. ts \in Nat
    BY <1>4, <2>1
  <2>3. cp \in Int
    OBVIOUS
  <2>4. ep \in AnomalyKinds \X Nat
    BY <1>1
  <2>5. med \in Int /\ home \in STRING
    BY <1>3
  <2>6. row(i) = [cust |-> cust, ts |-> ts, amount |-> med, out |-> TRUE, cp |-> cp,
                  country |-> home, kind |-> kind, episode |-> ep]
    OBVIOUS
  <2>7. cust \in DOMAIN Profiles /\ kind \in {NoAnomaly} \cup AnomalyKinds
        /\ ep \in {NoEpisode} \cup (AnomalyKinds \X Nat)
    BY <1>1, <2>4
  <2> HIDE DEF ts, cp, med, home, ep
  <2>8. [cust |-> cust, ts |-> ts, amount |-> med, out |-> TRUE, cp |-> cp,
         country |-> home, kind |-> kind, episode |-> ep] \in RawRow
    BY ONLY <2>2, <2>3, <2>5, <2>7 DEF RawRow
  <2> HIDE DEF row
  <2>9. QED
    BY <2>6, <2>8
<1>7. Episode(kind, cust, size, start, apart, number) = [i \in 1 .. size |-> row(i)]
  BY DEF Episode
<1> HIDE DEF row
<1>8. QED
  BY <1>6, <1>7

LEMMA BottomExists ==
    ASSUME NEW S \in SUBSET Int, IsFiniteSet(S), S # {}
    PROVE  Min(S) \in S
<1> DEFINE N == {-n : n \in S}
           f == [n \in S |-> -n]
<1>1. N \in SUBSET Int /\ N # {}
  <2>1. PICK n \in S : TRUE
    OBVIOUS
  <2>2. -n \in N
    OBVIOUS
  <2>3. \A m \in S : -m \in Int
    OBVIOUS
  <2>4. QED
    BY <2>2, <2>3
<1>2. f \in Surjection(S, N)
  BY DEF Surjection
<1>3. IsFiniteSet(N)
  <2> HIDE DEF f, N
  <2>1. QED
    BY <1>2, FS_Surjection
<1>4. \E n \in N : \A m \in N : m <= n
  <2> HIDE DEF N
  <2>1. QED
    BY <1>1, <1>3, GreatestExists
<1>5. \E n \in S : \A m \in S : n <= m
  <2>1. PICK n \in S : \A m \in N : m <= -n
    BY <1>4
  <2>2. \A m \in S : -m <= -n
    BY <2>1
  <2>3. \A m \in S : n <= m
    BY <2>2
  <2>4. QED
    BY <2>3
<1>6. QED
  BY <1>5 DEF Min

LEMMA PairIsFinite ==
    ASSUME NEW a, NEW b
    PROVE  IsFiniteSet({a, b})
<1>1. IsFiniteSet({a})
  BY FS_Singleton
<1>2. IsFiniteSet({a} \cup {b})
  BY <1>1, FS_AddElement
<1>3. {a, b} = {a} \cup {b}
  OBVIOUS
<1>4. QED
  BY <1>2, <1>3

LEMMA RowTells ==
    ASSUME NEW r \in RawRow
    PROVE  /\ r.cust \in DOMAIN Profiles /\ r.ts \in Nat /\ r.ts \in Int /\ r.amount \in Int /\ r.cp \in Int
           /\ r.kind \in {NoAnomaly} \cup AnomalyKinds
BY DEF RawRow

\* Sorting keeps every row once, by their times.
LEMMA SortedOnce ==
    ASSUME NEW list \in Seq(RawRow)
    PROVE  /\ Chronological(list) \in Seq(RawRow) /\ Len(Chronological(list)) = Len(list)
           /\ \E place : Rearranges(place, Chronological(list), list, DOMAIN list)
           /\ \A p, q \in DOMAIN Chronological(list) :
                 p < q => Chronological(list)[p].ts <= Chronological(list)[q].ts
<1> DEFINE D == DOMAIN list
           key == [i \in D |-> list[i].ts]
           t == Pick(list, D, key)
<1>1. Chronological(list) = t
  BY DEF Chronological
<1>2. /\ Len(list) \in Nat /\ D = 1 .. Len(list) /\ D \in SUBSET Int
      /\ \A i \in D : list[i] \in RawRow /\ list[i].ts \in Int /\ key[i] = list[i].ts
  <2>1. Len(list) \in Nat /\ D = 1 .. Len(list) /\ \A i \in D : list[i] \in RawRow
    OBVIOUS
  <2>2. \A r \in RawRow : r.ts \in Int
    BY RowTells
  <2>3. QED
    BY <2>1, <2>2
<1>3. key \in [D -> Int] /\ D \in SUBSET DOMAIN list
  BY <1>2
<1>4. Cardinality(D) = Len(list)
  BY <1>2, CardinalityUpTo
<1> HIDE DEF D, key
<1>5. /\ Pick(list, D, key) \in Seq(RawRow)
      /\ Len(Pick(list, D, key)) = Cardinality(D) /\ Cardinality(D) \in Nat
      /\ \E place : /\ Enumerates(place, D, key)
                    /\ \A n \in 1 .. Cardinality(D) : Pick(list, D, key)[n] = list[place[n]]
  BY <1>3, PickIsOrdered
<1>6. \E place : Rearranges(place, t, list, D)
  BY <1>3, PickedOnce
<1>7. PICK place : /\ Enumerates(place, D, key)
                   /\ \A n \in 1 .. Cardinality(D) : Pick(list, D, key)[n] = list[place[n]]
  BY <1>5
<1>a. /\ t \in Seq(RawRow) /\ Len(t) = Cardinality(D) /\ Cardinality(D) \in Nat
      /\ \A n \in 1 .. Cardinality(D) : t[n] = list[place[n]]
  BY <1>5, <1>7
<1> HIDE DEF t
<1>8. ASSUME NEW p \in DOMAIN t, NEW q \in DOMAIN t, p < q PROVE t[p].ts <= t[q].ts
  <2>1. p \in 1 .. Cardinality(D) /\ q \in 1 .. Cardinality(D)
    BY <1>a
  <2>2. place[p] \in D /\ place[q] \in D
    BY <1>7, <2>1 DEF Enumerates
  <2>a. key[place[p]] < key[place[q]] \/ key[place[p]] = key[place[q]]
    BY <1>7, <1>8, <2>1 DEF Enumerates
  <2>3. t[p] = list[place[p]] /\ t[q] = list[place[q]]
    BY <1>a, <2>1
  <2>4. /\ list[place[p]].ts \in Int /\ key[place[p]] = list[place[p]].ts
        /\ list[place[q]].ts \in Int /\ key[place[q]] = list[place[q]].ts
    BY <1>2, <2>2
  <2>5. list[place[p]].ts <= list[place[q]].ts
    BY <2>a, <2>4
  <2>6. QED
    BY <2>3, <2>5
<1>9. QED
  BY <1>1, <1>4, <1>6, <1>8, <1>a DEF D

\* The table lists the list that were made.
LEMMA TableOf ==
    ASSUME NEW sorted \in Seq(RawRow), NEW table, table = [p \in DOMAIN sorted |-> WithIds(sorted[p], p)]
    PROVE  /\ table \in Seq(PublicRows)
           /\ \A i \in DOMAIN table : \E r \in RawRow : table[i] = WithIds(r, i)
<1> DEFINE n == Len(sorted)
           a == [p \in 1 .. n |-> WithIds(sorted[p], p)]
<1>1. n \in Nat /\ DOMAIN sorted = 1 .. n /\ \A p \in 1 .. n : sorted[p] \in RawRow /\ p \in Nat
  OBVIOUS
<1> HIDE DEF n
<1>2. table = a /\ DOMAIN a = 1 .. n
  BY <1>1
<1>3. \A p \in 1 .. n : a[p] = WithIds(sorted[p], p) /\ a[p] \in PublicRows
  BY <1>1 DEF PublicRows
<1>4. a \in Seq(PublicRows)
  <2>1. a = [p \in 1 .. n |-> a[p]]
    OBVIOUS
  <2>2. n \in Nat
    BY <1>1
  <2> HIDE DEF a
  <2>3. QED
    BY ONLY <1>3, <2>1, <2>2
<1>5. \A i \in DOMAIN table : \E r \in RawRow : table[i] = WithIds(r, i)
  BY <1>1, <1>2, <1>3
<1>6. QED
  BY <1>2, <1>4, <1>5

\* What holds of a data set at every step, and what is added as it goes on:
\* rows are rows and the table lists them; as many discrepancies of each kind
\* are planned as there are to be; ledger and labels bear what is planned.
RowsType ==
    /\ config \in Configs /\ raw \in Seq(RawRow) /\ fresh \in Int /\ edits \in 0 .. 4
    /\ realised \in [AnomalyKinds -> Int] /\ IsTable
Planned ==
    /\ Len(transactions) <= MaxPosted /\ plan \in [TxRows -> Kinds \cup {"none"}]
    /\ \A k \in Kinds : Cardinality(Having(k)) = Quotas[k]
BooksInv ==
    /\ step \in {"inject", "plan", "post", "reconcile", "end"} /\ RowsType
    /\ step \in {"post", "reconcile", "end"} => Planned
    /\ step \in {"reconcile", "end"} => /\ BooksAgree(ledger) /\ LabelsAgree(labels)
                                         /\ LabelsName(ledger, labels)
    /\ InjectionsAreFound

LEMMA BooksInit == LedgerInit => BooksInv
<1> SUFFICES ASSUME LedgerInit PROVE BooksInv
  OBVIOUS
<1>1. /\ step = "inject" /\ config \in Configs /\ normal \in Baselines /\ raw = normal /\ edits = 0
      /\ fresh = Pool /\ realised = [k \in AnomalyKinds |-> 0] /\ transactions = <<>>
  BY DEF LedgerInit, StartDataset
<1>2. raw \in Seq(RawRow) /\ fresh \in Int
  <2>1. \A b \in Baselines : b \in Seq(RawRow)
    BY BaselineAssumption
  <2>2. Pool \in Nat
    BY BaselineAssumption
  <2>3. QED
    BY <1>1, <2>1, <2>2
<1>3. realised \in [AnomalyKinds -> Int]
  BY <1>1
<1>4. IsTable
  BY <1>1 DEF IsTable, TxRows
<1>5. RowsType
  BY <1>1, <1>2, <1>3, <1>4 DEF RowsType
<1>6. QED
  BY <1>1, <1>5 DEF BooksInv, InjectionsAreFound

LEMMA EditingKept ==
    ASSUME BooksInv, EditRows, UNCHANGED ledgerVars
    PROVE  BooksInv'
<1> DEFINE kind == Edited[edits + 1]
<1>0. RowsType
  BY DEF BooksInv
<1>1. /\ step = "inject" /\ edits \in 0 .. 4 /\ edits < 4 /\ edits' = edits + 1
      /\ UNCHANGED <<step, config, transactions>>
  BY <1>0, KindsOfAnomaly DEF EditRows, RowsType
<1>a. \E chosen \in Picks(kind) : \E draw \in [chosen -> Draws[kind]] :
         /\ raw' = [i \in DOMAIN raw |->
                       IF i \in chosen
                       THEN EditedRow(raw[i], kind, draw[i], Cardinality({j \in chosen : j <= i}))
                       ELSE raw[i]]
         /\ fresh' = FreshAfterEdit(kind, Cardinality(chosen))
         /\ realised' = [realised EXCEPT ![kind] = Cardinality(chosen)]
  BY DEF EditRows
<1>2. kind \in ToSet(Edited) /\ kind \in AnomalyKinds
  BY <1>1, KindsOfAnomaly DEF ToSet, AnomalyKinds
<1>b. PICK chosen \in Picks(kind) : \E draw \in [chosen -> Draws[kind]] :
         /\ raw' = [i \in DOMAIN raw |->
                       IF i \in chosen
                       THEN EditedRow(raw[i], kind, draw[i], Cardinality({j \in chosen : j <= i}))
                       ELSE raw[i]]
         /\ fresh' = FreshAfterEdit(kind, Cardinality(chosen))
         /\ realised' = [realised EXCEPT ![kind] = Cardinality(chosen)]
  BY <1>a
<1>3. PICK draw \in [chosen -> Draws[kind]] :
         /\ raw' = [i \in DOMAIN raw |->
                       IF i \in chosen
                       THEN EditedRow(raw[i], kind, draw[i], Cardinality({j \in chosen : j <= i}))
                       ELSE raw[i]]
         /\ fresh' = FreshAfterEdit(kind, Cardinality(chosen))
         /\ realised' = [realised EXCEPT ![kind] = Cardinality(chosen)]
  BY <1>b
<1> HIDE DEF kind
<1>4. chosen \in SUBSET DOMAIN raw
  BY <1>3 DEF Picks, kSubset, Available
<1>5. /\ raw \in Seq(RawRow) /\ Len(raw) \in Nat /\ DOMAIN raw = 1 .. Len(raw)
      /\ \A i \in DOMAIN raw : raw[i] \in RawRow
  BY <1>0 DEF RowsType
<1>6. IsFiniteSet(chosen) /\ Cardinality(chosen) \in Nat
  BY <1>4, <1>5, CardinalityUpTo, FS_Subset, FS_CardinalityType
<1>7. \A i : Cardinality({j \in chosen : j <= i}) \in Nat
  BY <1>6, FS_Subset, FS_CardinalityType
<1>8. raw' \in Seq(RawRow)
  <2> DEFINE edited(i) == EditedRow(raw[i], kind, draw[i], Cardinality({j \in chosen : j <= i}))
             row(i) == IF i \in chosen THEN edited(i) ELSE raw[i]
             n == Len(raw)
  <2>1. \A i \in chosen : draw[i] \in Draws[kind] /\ raw[i] \in RawRow
    BY <1>4, <1>5
  <2>2. \A i \in chosen : edited(i) \in RawRow
    BY <1>0, <1>2, <1>7, <2>1, EditedRowType DEF RowsType
  <2> HIDE DEF edited
  <2>3. \A i \in DOMAIN raw : row(i) \in RawRow
    BY <1>5, <2>2
  <2>4. raw' = [i \in 1 .. n |-> row(i)] /\ n \in Nat
    BY <1>3, <1>5 DEF edited
  <2>5. \A i \in 1 .. n : row(i) \in RawRow
    BY <1>5, <2>3
  <2> HIDE DEF row, n
  <2>6. QED
    BY ONLY <2>4, <2>5
<1>9. fresh' \in Int
  <2>1. fresh \in Int
    BY <1>0 DEF RowsType
  <2>2. QED
    BY <1>3, <1>6, <2>1 DEF FreshAfterEdit
<1>10. realised' \in [AnomalyKinds -> Int]
  BY <1>0, <1>2, <1>3, <1>6 DEF RowsType
<1>11. IsTable'
  BY <1>0, <1>1 DEF RowsType, IsTable, TxRows
<1>12. edits' \in 0 .. 4
  BY <1>1
<1>13. RowsType'
  BY <1>0, <1>1, <1>8, <1>9, <1>10, <1>11, <1>12 DEF RowsType
<1>14. step' = "inject"
  BY <1>1
<1>15. QED
  BY <1>13, <1>14 DEF BooksInv, InjectionsAreFound

LEMMA InsertingKept ==
    ASSUME BooksInv, InsertEpisode, UNCHANGED ledgerVars
    PROVE  BooksInv'
<1>0. RowsType
  BY DEF BooksInv
<1> DEFINE kind == Inserted[Min(Waiting)]
<1>1. /\ step = "inject" /\ Waiting # {} /\ UNCHANGED <<step, config, edits, transactions>>
  BY DEF InsertEpisode
<1>2. Min(Waiting) \in Waiting
  <2>1. Waiting \in SUBSET Int /\ IsFiniteSet(Waiting)
    <3>1. Waiting \in SUBSET (1 .. 3)
      BY KindsOfAnomaly DEF Waiting
    <3>2. IsFiniteSet(1 .. 3)
      BY CardinalityUpTo
    <3>3. 1 .. 3 \subseteq Int
      OBVIOUS
    <3>4. IsFiniteSet(Waiting)
      BY <3>1, <3>2, FS_Subset
    <3>5. QED
      BY <3>1, <3>3, <3>4
  <2>2. QED
    BY <1>1, <2>1, BottomExists
<1>3. kind \in ToSet(Inserted) /\ kind \in AnomalyKinds /\ Lacking(kind) > 0
  BY <1>2 DEF Waiting, ToSet, AnomalyKinds
<1>4. PICK size \in {Min({Lacking(kind), n}) : n \in Sizes[kind]}, cust \in DOMAIN Profiles :
      \E start \in Starts(kind, cust), apart \in Steps(kind, size) :
         /\ raw' = raw \o Episode(kind, cust, size, start, apart, Cardinality(Episodes(kind)))
         /\ fresh' = fresh + size
         /\ realised' = [realised EXCEPT ![kind] = @ + size]
  BY DEF InsertEpisode
<1>5. PICK start \in Starts(kind, cust), apart \in Steps(kind, size) :
         /\ raw' = raw \o Episode(kind, cust, size, start, apart, Cardinality(Episodes(kind)))
         /\ fresh' = fresh + size
         /\ realised' = [realised EXCEPT ![kind] = @ + size]
  BY <1>4
<1> HIDE DEF kind
<1>6. size \in Nat /\ size > 0
  <2>1. Lacking(kind) \in Int
    <3>1. AnomalyQuotas(config)[kind] \in Int /\ realised[kind] \in Int
      BY <1>0, <1>3, AnomalyQuotasAreNumbers DEF RowsType
    <3>2. QED
      BY <3>1 DEF Lacking
  <2>2. PICK n \in Sizes[kind] : size = Min({Lacking(kind), n})
    BY <1>4
  <2>3. n \in Nat /\ n > 0
    <3>1. kind \in {"burst", "abnormal_velocity", "repeated_transfers"}
      BY <1>3, KindsOfAnomaly DEF ToSet
    <3>2. /\ Sizes["burst"] = 5 .. 12 /\ Sizes["abnormal_velocity"] = 15 .. 30
          /\ Sizes["repeated_transfers"] = 4 .. 8
      BY DEF Sizes
    <3>3. QED
      BY <2>2, <3>1, <3>2
  <2>4. size \in {Lacking(kind), n}
    <3>1. {Lacking(kind), n} \in SUBSET Int /\ {Lacking(kind), n} # {}
      BY <2>1, <2>3
    <3>2. IsFiniteSet({Lacking(kind), n})
      BY PairIsFinite
    <3>3. QED
      BY <2>2, <3>1, <3>2, BottomExists
  <2>5. QED
    BY <1>3, <2>1, <2>3, <2>4
<1>7. Cardinality(Episodes(kind)) \in Nat
  <2> DEFINE I == {i \in DOMAIN raw : raw[i].kind = kind}
             f == [i \in I |-> raw[i].episode]
  <2>1. DOMAIN raw = 1 .. Len(raw) /\ Len(raw) \in Nat
    BY <1>0 DEF RowsType
  <2>2. IsFiniteSet(I)
    BY <2>1, CardinalityUpTo, FS_Subset
  <2>3. f \in Surjection(I, Episodes(kind))
    BY DEF Surjection, Episodes
  <2> HIDE DEF I, f
  <2>4. QED
    BY <2>2, <2>3, FS_Surjection, FS_CardinalityType
<1>8. raw' \in Seq(RawRow)
  <2> DEFINE e == Episode(kind, cust, size, start, apart, Cardinality(Episodes(kind)))
  <2>1. e \in Seq(RawRow)
    BY <1>0, <1>3, <1>6, <1>7, EpisodeType DEF RowsType
  <2>2. raw' = raw \o e
    BY <1>5
  <2> HIDE DEF e
  <2>3. raw \in Seq(RawRow)
    BY <1>0 DEF RowsType
  <2>4. QED
    BY ONLY <2>1, <2>2, <2>3
<1>9. fresh' \in Int /\ realised' \in [AnomalyKinds -> Int]
  <2>1. fresh \in Int /\ realised \in [AnomalyKinds -> Int]
    BY <1>0 DEF RowsType
  <2>2. QED
    BY <1>3, <1>5, <1>6, <2>1
<1>10. IsTable'
  BY <1>0, <1>1 DEF RowsType, IsTable, TxRows
<1>11. RowsType'
  BY <1>0, <1>1, <1>8, <1>9, <1>10 DEF RowsType
<1>12. step' = "inject"
  BY <1>1
<1>13. QED
  BY <1>11, <1>12 DEF BooksInv, InjectionsAreFound

LEMMA TableKept ==
    ASSUME BooksInv, Materialize, UNCHANGED ledgerVars
    PROVE  BooksInv'
<1> DEFINE sorted == Chronological(raw)
           table == [p \in DOMAIN sorted |-> WithIds(sorted[p], p)]
<1>1. step' = "plan" /\ UNCHANGED <<config, raw, edits, fresh, realised>> /\ transactions' = table
  BY DEF Materialize
<1>2. sorted \in Seq(RawRow)
  BY SortedOnce DEF BooksInv, RowsType
<1> HIDE DEF sorted
<1>3. /\ table \in Seq(PublicRows)
      /\ \A i \in DOMAIN table : \E r \in RawRow : table[i] = WithIds(r, i)
  BY <1>2, TableOf
<1> HIDE DEF table
<1>4. IsTable'
  BY <1>1, <1>3 DEF IsTable, TxRows
<1>5. RowsType'
  BY <1>1, <1>4 DEF BooksInv, RowsType
<1>6. QED
  BY <1>1, <1>5 DEF BooksInv, InjectionsAreFound

LEMMA PlanKept ==
    ASSUME BooksInv, Plan
    PROVE  BooksInv'
<1>1. /\ step' = "post" /\ UNCHANGED rawVars /\ Len(transactions) <= MaxPosted
      /\ plan' \in [TxRows -> Kinds \cup {"none"}]
      /\ \A k \in Kinds : Cardinality({i \in TxRows : plan'[i] = k}) = Quotas[k]
  BY DEF Plan
<1>2. RowsType'
  BY <1>1 DEF BooksInv, RowsType, rawVars, IsTable, TxRows
<1>3. Planned'
  <2>1. transactions' = transactions /\ config' = config
    BY <1>1 DEF rawVars
  <2>2. TxRows' = TxRows /\ Quotas' = Quotas
    BY <2>1 DEF TxRows, Quotas
  <2>3. QED
    BY <1>1, <2>1, <2>2 DEF Planned, Having
<1>4. QED
  BY <1>1, <1>2, <1>3 DEF BooksInv, InjectionsAreFound

\* Neither the postings nor the evaluation changes what they are made for.
LEMMA PlannedKept ==
    ASSUME UNCHANGED rawVars, plan' = plan
    PROVE  /\ RowsType => RowsType'
           /\ Planned => Planned'
<1>1. /\ transactions' = transactions /\ config' = config /\ raw' = raw /\ fresh' = fresh
      /\ edits' = edits /\ realised' = realised
  BY DEF rawVars
<1>2. TxRows' = TxRows /\ Quotas' = Quotas /\ (IsTable <=> IsTable')
  BY <1>1 DEF TxRows, Quotas, IsTable
<1>3. RowsType => RowsType'
  BY <1>1, <1>2 DEF RowsType
<1>4. Planned => Planned'
  BY <1>1, <1>2 DEF Planned, Having
<1>5. QED
  BY <1>3, <1>4

LEMMA PostKept ==
    ASSUME BooksInv, Post
    PROVE  BooksInv'
<1>1. /\ step = "post" /\ step' = "reconcile" /\ UNCHANGED rawVars /\ plan' = plan
      /\ \E made \in [TxRows -> UNION {Drawn(i) : i \in TxRows}],
            gap \in [Having("duplicate_posting") -> SecondsLater] :
            /\ \A i \in TxRows : made[i] \in Drawn(i)
            /\ LET all == PostedInOrder(made, gap)
               IN  /\ ledger' = [j \in DOMAIN all |-> Record(all[j], j)]
                   /\ labels' =
                        {[tx |-> all[j].tx, ledger |-> j, kind |-> plan[all[j].row]] :
                            j \in {j \in DOMAIN all : Labelled(all[j])}}
                        \cup {[tx |-> transactions[i].id, ledger |-> 0, kind |-> plan[i]] :
                                 i \in Having("missing_ledger_entry")}
  BY DEF Post
<1>2. RowsType /\ Planned
  BY <1>1 DEF BooksInv
<1>3. IsTable /\ Len(transactions) <= MaxPosted /\ plan \in [TxRows -> Kinds \cup {"none"}]
  BY <1>2 DEF RowsType, Planned
<1>4. PICK made \in [TxRows -> UNION {Drawn(i) : i \in TxRows}],
           gap \in [Having("duplicate_posting") -> SecondsLater] :
            /\ \A i \in TxRows : made[i] \in Drawn(i)
            /\ LET all == PostedInOrder(made, gap)
               IN  /\ ledger' = [j \in DOMAIN all |-> Record(all[j], j)]
                   /\ labels' =
                        {[tx |-> all[j].tx, ledger |-> j, kind |-> plan[all[j].row]] :
                            j \in {j \in DOMAIN all : Labelled(all[j])}}
                        \cup {[tx |-> transactions[i].id, ledger |-> 0, kind |-> plan[i]] :
                                 i \in Having("missing_ledger_entry")}
  BY <1>1
<1>5. AreDrawn(made, gap)
  BY <1>3, <1>4, RowsAreDrawn
<1> DEFINE all == PostedInOrder(made, gap)
<1>6. Booked(all)
  BY <1>3, <1>5, AllIsBooked
<1>7. /\ ledger' = [j \in DOMAIN all |-> Record(all[j], j)]
      /\ labels' =
           {[tx |-> all[j].tx, ledger |-> j, kind |-> plan[all[j].row]] :
               j \in {j \in DOMAIN all : Labelled(all[j])}}
           \cup {[tx |-> transactions[i].id, ledger |-> 0, kind |-> plan[i]] :
                    i \in Having("missing_ledger_entry")}
  BY <1>4
<1> HIDE DEF all
<1>8. BooksAgree(ledger')
  BY <1>3, <1>6, <1>7, BooksOfBooked
<1>9. LabelsAgree(labels')
  BY <1>6, <1>7, LabelsOfBooked
<1>b. LabelsName(ledger', labels')
  BY <1>3, <1>6, <1>7, LabelsOfRecords
<1>10. /\ RowsType' /\ Planned' /\ BooksAgree(ledger)' /\ LabelsAgree(labels)'
       /\ LabelsName(ledger, labels)'
  <2>1. RowsType' /\ Planned'
    BY <1>1, <1>2, PlannedKept
  <2>2. transactions' = transactions
    BY <1>1 DEF rawVars
  <2>3. BooksAgree(ledger)'
    BY <1>1, <1>8, <2>2 DEF BooksAgree, Asked, TxRows
  <2>4. LabelsAgree(labels)'
    BY <1>1, <1>9, <2>2 DEF LabelsAgree, TxRows
  <2>5. LabelsName(ledger, labels)'
    <3>1. plan' = plan /\ TxRows' = TxRows /\ \A i : Asked(i)' = Asked(i)
      BY <1>1, <2>2 DEF TxRows, Asked
    <3>2. PICK books, told : books = ledger' /\ told = labels'
      OBVIOUS
    <3>3. LabelsName(books, told)
      BY <1>b, <3>2
    <3>4. \A l, i : Names(l, i, books) => Names(l, i, books)'
      BY <2>2, <3>1 DEF Names
    <3>5. LabelsName(books, told)'
      BY <2>2, <3>1, <3>3, <3>4 DEF LabelsName
    <3>6. QED
      BY <3>2, <3>5
  <2>6. QED
    BY <2>1, <2>3, <2>4, <2>5
<1>11. QED
  BY <1>1, <1>10 DEF BooksInv, InjectionsAreFound

LEMMA EvaluationKept ==
    ASSUME BooksInv, Evaluate
    PROVE  BooksInv'
<1>1. /\ step = "reconcile" /\ step' = "end" /\ UNCHANGED rawVars
      /\ plan' = plan /\ ledger' = ledger /\ labels' = labels
      /\ results' = FoundIn(ledger) /\ scores' = ScoresOf(results')
  BY DEF Evaluate, FoundIn
<1>2. RowsType /\ Planned /\ BooksAgree(ledger) /\ LabelsAgree(labels) /\ LabelsName(ledger, labels)
  BY <1>1 DEF BooksInv
<1>3. transactions' = transactions /\ config' = config /\ TxRows' = TxRows
  BY <1>1 DEF rawVars, TxRows
<1>4. RowsType' /\ Planned'
  BY <1>1, <1>2, PlannedKept
<1>5. BooksAgree(ledger)'
  BY <1>1, <1>2, <1>3 DEF BooksAgree, Asked, TxRows
<1>6. LabelsAgree(labels)'
  BY <1>1, <1>2, <1>3 DEF LabelsAgree, TxRows
<1>b. LabelsName(ledger, labels)'
  BY <1>1, <1>2, <1>3 DEF LabelsName, Names, Asked, TxRows
<1>7. AllAreFound(results', scores')
  <2>1. /\ IsTable /\ Len(transactions) <= MaxPosted /\ config \in Configs
        /\ plan \in [TxRows -> Kinds \cup {"none"}]
        /\ \A k \in Kinds : Cardinality(Having(k)) = Quotas[k]
    BY <1>2 DEF RowsType, Planned
  <2>2. QED
    BY <1>1, <1>2, <2>1, EvaluationFinds
<1>8. InjectionsAreFound'
  <2>1. Quotas' = Quotas
    BY <1>3 DEF Quotas
  <2>2. QED
    BY <1>1, <1>3, <1>7, <2>1 DEF AllAreFound, InjectionsAreFound
<1>9. QED
  BY <1>1, <1>4, <1>5, <1>6, <1>b, <1>8 DEF BooksInv

LEMMA BooksStep == BooksInv /\ [LedgerNext]_dataVars => BooksInv'
<1> SUFFICES ASSUME BooksInv, [LedgerNext]_dataVars PROVE BooksInv'
  OBVIOUS
<1>1. CASE EditRows /\ UNCHANGED ledgerVars
  BY <1>1, EditingKept
<1>2. CASE InsertEpisode /\ UNCHANGED ledgerVars
  BY <1>2, InsertingKept
<1>3. CASE Materialize /\ UNCHANGED ledgerVars
  BY <1>3, TableKept
<1>4. CASE Plan
  BY <1>4, PlanKept
<1>5. CASE Post
  BY <1>5, PostKept
<1>6. CASE Evaluate
  BY <1>6, EvaluationKept
<1>7. CASE UNCHANGED dataVars
  <2>1. /\ UNCHANGED rawVars /\ step' = step /\ plan' = plan /\ ledger' = ledger
        /\ labels' = labels /\ results' = results /\ scores' = scores
    BY <1>7 DEF dataVars, ledgerVars
  <2>2. transactions' = transactions /\ config' = config
    BY <2>1 DEF rawVars
  <2>3. /\ RowsType => RowsType'
        /\ Planned => Planned'
    BY <2>1, PlannedKept
  <2>4. BooksAgree(ledger) => BooksAgree(ledger)'
    BY <2>1, <2>2 DEF BooksAgree, Asked, TxRows
  <2>5. LabelsAgree(labels) => LabelsAgree(labels)'
    BY <2>1, <2>2 DEF LabelsAgree, TxRows
  <2>b. LabelsName(ledger, labels) => LabelsName(ledger, labels)'
    BY <2>1, <2>2 DEF LabelsName, Names, Asked, TxRows
  <2>6. InjectionsAreFound => InjectionsAreFound'
    <3>1. Quotas' = Quotas /\ TxRows' = TxRows
      BY <2>2 DEF Quotas, TxRows
    <3>2. QED
      BY <2>1, <2>2, <3>1 DEF InjectionsAreFound
  <2>7. QED
    BY <2>1, <2>3, <2>4, <2>5, <2>b, <2>6 DEF BooksInv
<1>8. QED
  BY <1>1, <1>2, <1>3, <1>4, <1>5, <1>6, <1>7 DEF LedgerNext, Generate

\* The generator and the engine agree: whatever the rows, the configuration
\* and the draws, every discrepancy that was injected into a ledger of any
\* length is found by the rule made for it, nothing else is found but what
\* the status of a settlement says, and the scores count no error
\* (ledger.py:43-102, rules.py:29-237, run_reconciliation_eval.py:57-102).
THEOREM InjectionsAreAlwaysFound == LedgerSpec => []InjectionsAreFound
<1>1. BooksInv => InjectionsAreFound
  BY DEF BooksInv
<1>2. QED
  BY BooksInit, BooksStep, <1>1, PTL DEF LedgerSpec

-----------------------------------------------------------------------------
(* What the labels of the transactions say.                                *)

LEMMA LabelsDiffer ==
    /\ NoAnomaly \notin AnomalyKinds
    /\ \A k, m : <<k, m>> # NoEpisode
<1>1. \A k, m : <<k, m>> # NoEpisode
  BY DEF NoEpisode
<1>2. NoAnomaly \notin {"geo_change", "new_counterparty", "high_value", "unusual_time"}
                       \cup {"burst", "abnormal_velocity", "repeated_transfers"}
  BY Zenon DEF NoAnomaly
<1> HIDE DEF NoAnomaly
<1>3. QED
  BY <1>1, <1>2, KindsOfAnomaly

EditKinds   == {"geo_change", "new_counterparty", "high_value", "unusual_time"}
InsertKinds == {"burst", "abnormal_velocity", "repeated_transfers"}
NewKinds    == {"new_counterparty"} \cup InsertKinds

AreRows(list) ==
    /\ Len(list) \in Nat /\ DOMAIN list = 1 .. Len(list)
    /\ \A i \in DOMAIN list : /\ list[i].cp \in Int /\ list[i].ts \in Nat
                              /\ list[i].kind \in {NoAnomaly} \cup AnomalyKinds
OfKind(list, k) == {i \in DOMAIN list : list[i].kind = k}
EpisodesOf(list, k) == {list[i].episode : i \in OfKind(list, k)}
Numbered(k, c) == {<<k, m>> : m \in 0 .. c - 1}

\* The rows as they are while anomalies are injected.  The first ones are
\* those that were drawn, and who has no label is as it was.
DrawnFirst(list, drawn, counts) ==
    /\ Len(list) = Len(drawn) + counts["burst"] + counts["abnormal_velocity"] + counts["repeated_transfers"]
    /\ \A i \in DOMAIN list : /\ i <= Len(drawn) <=> list[i].kind \in {NoAnomaly} \cup EditKinds
                              /\ list[i].kind = NoAnomaly => list[i] = drawn[i]

\* The counts are those of the labels.
CountsAre(list, counts) == \A k \in AnomalyKinds : Cardinality(OfKind(list, k)) = counts[k]

\* Times are such as the validation of the tables accepts: a day past the last
\* midnight of the window, of which the rows need less than a minute.
LastTime == (WindowDays + 1) * Day - 1
WithinWindow(list) == \A i \in DOMAIN list : list[i].ts <= LastTime

\* Parties that were given away are not drawn and not given away again.
PartiesApart(list, free) ==
    /\ Pool <= free
    /\ \A i \in DOMAIN list :
          IF list[i].kind \in NewKinds THEN Pool <= list[i].cp /\ list[i].cp < free ELSE list[i].cp < Pool
    /\ \A i, j \in DOMAIN list :
          list[i].kind \in NewKinds /\ list[i].cp = list[j].cp =>
              i = j \/ (list[i].episode # NoEpisode /\ list[i].episode = list[j].episode)

\* The episodes of a kind are numbered, and each is one customer's.
EpisodesApart(list) ==
    /\ \A i \in DOMAIN list : list[i].kind \notin InsertKinds => list[i].episode = NoEpisode
    /\ \A k \in InsertKinds : \E c \in Nat : EpisodesOf(list, k) = Numbered(k, c)
    /\ \A i, j \in DOMAIN list :
          list[i].kind \in InsertKinds /\ list[i].episode = list[j].episode => list[i].cust = list[j].cust

WithinQuotas(counts, quotas, done) ==
    /\ \A n \in 1 .. 4 : IF n <= done THEN counts[Edited[n]] <= quotas[Edited[n]] ELSE counts[Edited[n]] = 0
    /\ \A k \in InsertKinds : counts[k] <= quotas[k]

RawInv ==
    /\ normal \in Baselines /\ Len(normal) = config.n - InsertedRows(config)
    /\ AreRows(raw) /\ DrawnFirst(raw, normal, realised) /\ CountsAre(raw, realised)
    /\ WithinWindow(raw) /\ PartiesApart(raw, fresh) /\ EpisodesApart(raw)
    /\ WithinQuotas(realised, AnomalyQuotas(config), edits)

LEMMA KindsApart ==
    /\ AnomalyKinds = EditKinds \cup InsertKinds /\ EditKinds \cap InsertKinds = {}
    /\ EditKinds = ToSet(Edited) /\ InsertKinds = ToSet(Inserted)
    /\ NoAnomaly \notin EditKinds /\ NoAnomaly \notin InsertKinds /\ NoAnomaly \notin NewKinds
    /\ NewKinds \cap EditKinds = {"new_counterparty"} /\ "new_counterparty" \notin InsertKinds
<1>1. AnomalyKinds = EditKinds \cup InsertKinds /\ EditKinds \cap InsertKinds = {}
  BY KindsOfAnomaly DEF EditKinds, InsertKinds
<1>2. EditKinds = ToSet(Edited)
  <2>1. DOMAIN Edited = 1 .. 4 /\ \A n \in 1 .. 4 : Edited[n] \in EditKinds
    BY KindsOfAnomaly DEF EditKinds
  <2>2. \A k \in EditKinds : \E n \in 1 .. 4 : Edited[n] = k
    BY DEF EditKinds, Edited
  <2>3. QED
    BY <2>1, <2>2 DEF ToSet
<1>3. InsertKinds = ToSet(Inserted)
  <2>1. DOMAIN Inserted = 1 .. 3 /\ \A n \in 1 .. 3 : Inserted[n] \in InsertKinds
    BY KindsOfAnomaly DEF InsertKinds
  <2>2. \A k \in InsertKinds : \E n \in 1 .. 3 : Inserted[n] = k
    BY DEF InsertKinds, Inserted
  <2>3. QED
    BY <2>1, <2>2 DEF ToSet
<1>4. NoAnomaly \notin AnomalyKinds
  BY LabelsDiffer
<1>5. NoAnomaly # "new_counterparty"
  BY <1>1, <1>4 DEF EditKinds
<1>6. QED
  BY <1>1, <1>2, <1>3, <1>4, <1>5 DEF EditKinds, InsertKinds, NewKinds

\* What an edit leaves of the rows.
Edits(new, list, chosen, kind, free) ==
    /\ kind \in EditKinds /\ chosen \subseteq DOMAIN list
    /\ Len(new) = Len(list) /\ DOMAIN new = DOMAIN list
    /\ \A i \in DOMAIN list \ chosen : new[i] = list[i]
    /\ \A i \in chosen :
          /\ list[i].kind = NoAnomaly /\ new[i].kind = kind
          /\ new[i].episode = list[i].episode /\ new[i].cust = list[i].cust
          /\ list[i].ts <= LastTime => new[i].ts <= LastTime
          /\ IF kind = "new_counterparty"
                THEN free <= new[i].cp /\ new[i].cp < free + Cardinality(chosen)
                ELSE new[i].cp = list[i].cp
    /\ kind = "new_counterparty" => \A i, j \in chosen : new[i].cp = new[j].cp => i = j

LEMMA EditsKeepFirst ==
    ASSUME NEW list, NEW new, NEW chosen, NEW kind, NEW free, Edits(new, list, chosen, kind, free),
           NEW drawn, NEW counts, NEW counts2, DrawnFirst(list, drawn, counts),
           \A k \in InsertKinds : counts2[k] = counts[k]
    PROVE  DrawnFirst(new, drawn, counts2)
<1>1. Len(new) = Len(drawn) + counts2["burst"] + counts2["abnormal_velocity"] + counts2["repeated_transfers"]
  BY DEF Edits, DrawnFirst, InsertKinds
<1>2. ASSUME NEW i \in DOMAIN new
      PROVE  /\ i <= Len(drawn) <=> new[i].kind \in {NoAnomaly} \cup EditKinds
             /\ new[i].kind = NoAnomaly => new[i] = drawn[i]
  <2>1. /\ i \in DOMAIN list
        /\ i <= Len(drawn) <=> list[i].kind \in {NoAnomaly} \cup EditKinds
        /\ list[i].kind = NoAnomaly => list[i] = drawn[i]
    BY DEF Edits, DrawnFirst
  <2>2. CASE i \in chosen
    <3>1. list[i].kind = NoAnomaly /\ new[i].kind = kind /\ kind \in EditKinds
      BY <2>2 DEF Edits
    <3>2. QED
      BY <2>1, <3>1, KindsApart
  <2>3. CASE i \notin chosen
    <3>1. new[i] = list[i]
      BY <2>1, <2>3 DEF Edits
    <3>2. QED
      BY <2>1, <3>1
  <2>4. QED
    BY <2>2, <2>3
<1>3. QED
  BY <1>1, <1>2 DEF DrawnFirst

LEMMA EditsCount ==
    ASSUME NEW list, AreRows(list), NEW new, NEW chosen, NEW kind, NEW free, Edits(new, list, chosen, kind, free),
           NEW counts, CountsAre(list, counts), counts[kind] = 0,
           NEW counts2, counts2[kind] = Cardinality(chosen),
           \A k \in AnomalyKinds : k # kind => counts2[k] = counts[k]
    PROVE  CountsAre(new, counts2)
<1> SUFFICES ASSUME NEW k \in AnomalyKinds PROVE Cardinality(OfKind(new, k)) = counts2[k]
  BY DEF CountsAre
<1>1. kind \in AnomalyKinds /\ NoAnomaly \notin AnomalyKinds /\ DOMAIN new = DOMAIN list
  BY KindsApart, LabelsDiffer DEF Edits
<1>2. CASE k = kind
  <2>1. OfKind(list, kind) = {}
    <3>1. DOMAIN list = 1 .. Len(list) /\ Len(list) \in Nat
      BY DEF AreRows
    <3>2. IsFiniteSet(OfKind(list, kind))
      BY <3>1, CardinalityUpTo, FS_Subset DEF OfKind
    <3>3. Cardinality(OfKind(list, kind)) = 0
      BY <1>1 DEF CountsAre
    <3>4. QED
      BY <3>2, <3>3, FS_EmptySet
  <2>2. \A i \in DOMAIN list : list[i].kind # kind
    BY <2>1 DEF OfKind
  <2>3. \A i \in DOMAIN list : new[i].kind = kind <=> i \in chosen
    BY <2>2 DEF Edits
  <2>4. OfKind(new, k) = chosen
    BY <1>1, <1>2, <2>3 DEF OfKind, Edits
  <2>5. QED
    BY <1>2, <2>4
<1>3. CASE k # kind
  <2>1. \A i \in DOMAIN list : new[i].kind = k <=> list[i].kind = k
    BY <1>1, <1>3 DEF Edits
  <2>2. OfKind(new, k) = OfKind(list, k)
    BY <1>1, <2>1 DEF OfKind
  <2>3. QED
    BY <1>3, <2>2 DEF CountsAre
<1>4. QED
  BY <1>2, <1>3

LEMMA LastTimeIs ==
    /\ LastTime \in Int /\ WindowDays * Day \in Int
    /\ WindowDays * Day <= LastTime /\ WindowDays * Day + 59 <= LastTime
<1>1. Day \in Nat /\ Day > 59 /\ WindowDays \in Nat
  <2>1. Hour \in Nat /\ Hour > 59
    BY DEF Hour
  <2> HIDE DEF Hour
  <2>2. Day \in Nat /\ Day > 59
    BY <2>1 DEF Day
  <2>3. QED
    BY <2>2, BaselineAssumption
<1> HIDE DEF Day
<1>2. (WindowDays + 1) * Day = WindowDays * Day + Day
  BY <1>1
<1> DEFINE end == WindowDays * Day
<1>3. end \in Int /\ LastTime = end + Day - 1
  BY <1>1, <1>2 DEF LastTime
<1> HIDE DEF end
<1>4. LastTime \in Int /\ end <= LastTime /\ end + 59 <= LastTime
  BY <1>1, <1>3
<1>5. QED
  BY <1>3, <1>4 DEF end

LEMMA EditsStayWithin ==
    ASSUME NEW list, NEW new, NEW chosen, NEW kind, NEW free, Edits(new, list, chosen, kind, free),
           WithinWindow(list)
    PROVE  WithinWindow(new)
<1> SUFFICES ASSUME NEW i \in DOMAIN new PROVE new[i].ts <= LastTime
  BY DEF WithinWindow
<1>1. i \in DOMAIN list /\ list[i].ts <= LastTime
  BY DEF Edits, WithinWindow
<1> DEFINE end == LastTime
<1>2. i \in chosen => new[i].ts <= end
  BY <1>1 DEF Edits
<1>3. i \notin chosen => new[i] = list[i]
  BY <1>1 DEF Edits
<1> HIDE DEF end
<1>4. list[i].ts <= end
  BY <1>1 DEF end
<1>5. QED
  BY <1>2, <1>3, <1>4 DEF end

LEMMA EditsKeepParties ==
    ASSUME NEW list, AreRows(list), NEW new, NEW chosen, NEW kind, NEW free \in Int,
           Edits(new, list, chosen, kind, free), AreRows(new), IsFiniteSet(chosen), PartiesApart(list, free),
           NEW free2, free2 = IF kind = "new_counterparty" THEN free + Cardinality(chosen) ELSE free
    PROVE  PartiesApart(new, free2)
<1>1. /\ Cardinality(chosen) \in Nat /\ Pool \in Int /\ Pool <= free
      /\ kind \in EditKinds /\ DOMAIN new = DOMAIN list
  BY FS_CardinalityType, BaselineAssumption DEF PartiesApart, Edits
<1>2. free2 \in Int /\ free <= free2
  BY <1>1
<1>3. \A i \in DOMAIN list : list[i].cp \in Int /\ new[i].cp \in Int
  BY <1>1 DEF AreRows
<1>4. kind \in NewKinds <=> kind = "new_counterparty"
  BY <1>1, KindsApart DEF NewKinds
<1> DEFINE fresh2(r) == Pool <= r.cp /\ r.cp < free2
           fits(r) == IF r.kind \in NewKinds THEN fresh2(r) ELSE r.cp < Pool
<1>5. ASSUME NEW i \in DOMAIN list PROVE fits(new[i])
  <2>1. IF list[i].kind \in NewKinds THEN Pool <= list[i].cp /\ list[i].cp < free ELSE list[i].cp < Pool
    BY DEF PartiesApart
  <2>2. CASE i \notin chosen
    <3>1. new[i] = list[i]
      BY <2>2 DEF Edits
    <3>2. QED
      BY <1>2, <1>3, <2>1, <3>1
  <2>3. CASE i \in chosen
    <3>1. /\ list[i].kind = NoAnomaly /\ new[i].kind = kind
          /\ IF kind = "new_counterparty"
                THEN free <= new[i].cp /\ new[i].cp < free + Cardinality(chosen)
                ELSE new[i].cp = list[i].cp
      BY <2>3 DEF Edits
    <3>2. list[i].cp < Pool
      BY <2>1, <3>1, KindsApart
    <3>3. CASE kind = "new_counterparty"
      BY <1>1, <1>3, <1>4, <3>1, <3>3
    <3>4. CASE kind # "new_counterparty"
      BY <1>4, <3>1, <3>2, <3>4
    <3>5. QED
      BY <3>3, <3>4
  <2>4. QED
    BY <2>2, <2>3
<1>6. ASSUME NEW i \in DOMAIN list, NEW j \in DOMAIN list, new[i].kind \in NewKinds, new[i].cp = new[j].cp
      PROVE  i = j \/ (new[i].episode # NoEpisode /\ new[i].episode = new[j].episode)
  <2> DEFINE given(l) == l \in chosen /\ kind = "new_counterparty"
  <2>1. ASSUME NEW l \in DOMAIN list
        PROVE  IF given(l) THEN free <= new[l].cp
               ELSE /\ new[l].cp = list[l].cp /\ new[l].cp < free /\ new[l].episode = list[l].episode
                    /\ new[l].kind \in NewKinds <=> list[l].kind \in NewKinds
    <3>1. IF list[l].kind \in NewKinds THEN Pool <= list[l].cp /\ list[l].cp < free ELSE list[l].cp < Pool
      BY DEF PartiesApart
    <3>2. list[l].cp < free
      BY <1>1, <1>3, <3>1
    <3>3. CASE l \in chosen
      <4>1. /\ list[l].kind = NoAnomaly /\ new[l].kind = kind /\ new[l].episode = list[l].episode
            /\ IF kind = "new_counterparty" THEN free <= new[l].cp ELSE new[l].cp = list[l].cp
        BY <3>3 DEF Edits
      <4>2. QED
        BY <1>4, <3>2, <3>3, <4>1, KindsApart
    <3>4. CASE l \notin chosen
      <4>1. new[l] = list[l]
        BY <3>4 DEF Edits
      <4>2. QED
        BY <3>2, <3>4, <4>1
    <3>5. QED
      BY <3>3, <3>4
  <2>2. CASE given(i)
    <3>1. free <= new[j].cp /\ new[j].cp \in Int
      BY <1>3, <1>6, <2>1, <2>2
    <3>2. given(j)
      BY <2>1, <3>1
    <3>3. QED
      BY <1>6, <2>2, <3>2 DEF Edits
  <2>3. CASE ~given(i)
    <3>1. new[i].cp < free /\ new[i].cp \in Int
      BY <1>3, <2>1, <2>3
    <3>2. ~given(j)
      BY <1>6, <2>1, <3>1
    <3> HIDE DEF given
    <3>3. /\ list[i].kind \in NewKinds /\ list[i].cp = list[j].cp
          /\ new[i].episode = list[i].episode /\ new[j].episode = list[j].episode
      BY <1>6, <2>1, <2>3, <3>2
    <3>4. i = j \/ (list[i].episode # NoEpisode /\ list[i].episode = list[j].episode)
      BY <3>3 DEF PartiesApart
    <3>5. QED
      BY <3>3, <3>4
  <2>4. QED
    BY <2>2, <2>3
<1>7. Pool <= free2
  BY <1>1, <1>2
<1>8. QED
  BY <1>1, <1>5, <1>6, <1>7 DEF PartiesApart

LEMMA EditsKeepEpisodes ==
    ASSUME NEW list, NEW new, NEW chosen, NEW kind, NEW free, Edits(new, list, chosen, kind, free),
           EpisodesApart(list)
    PROVE  EpisodesApart(new)
<1>1. kind \notin InsertKinds /\ NoAnomaly \notin InsertKinds /\ DOMAIN new = DOMAIN list
  BY KindsApart DEF Edits
<1>2. ASSUME NEW i \in DOMAIN list
      PROVE  /\ new[i].episode = list[i].episode /\ new[i].cust = list[i].cust
             /\ new[i].kind \in InsertKinds <=> list[i].kind \in InsertKinds
             /\ new[i].kind \in InsertKinds => new[i].kind = list[i].kind
             /\ list[i].kind \in InsertKinds => new[i].kind = list[i].kind
  <2>1. CASE i \in chosen
    <3>1. /\ list[i].kind = NoAnomaly /\ new[i].kind = kind
          /\ new[i].episode = list[i].episode /\ new[i].cust = list[i].cust
      BY <2>1 DEF Edits
    <3>2. QED
      BY <1>1, <3>1
  <2>2. CASE i \notin chosen
    <3>1. new[i] = list[i]
      BY <2>2 DEF Edits
    <3>2. QED
      BY <3>1
  <2>3. QED
    BY <2>1, <2>2
<1>3. \A k \in InsertKinds : OfKind(new, k) = OfKind(list, k)
  BY <1>1, <1>2 DEF OfKind
<1>4. \A k \in InsertKinds : EpisodesOf(new, k) = EpisodesOf(list, k)
  <2> SUFFICES ASSUME NEW k \in InsertKinds PROVE EpisodesOf(new, k) = EpisodesOf(list, k)
    OBVIOUS
  <2>1. OfKind(new, k) = OfKind(list, k) /\ \A i \in OfKind(list, k) : new[i].episode = list[i].episode
    BY <1>2, <1>3 DEF OfKind
  <2>2. QED
    BY <2>1 DEF EpisodesOf
<1>5. \A i \in DOMAIN new : new[i].kind \notin InsertKinds => new[i].episode = NoEpisode
  BY <1>1, <1>2 DEF EpisodesApart
<1>6. \A k \in InsertKinds : \E c \in Nat : EpisodesOf(new, k) = Numbered(k, c)
  BY <1>4 DEF EpisodesApart
<1>7. \A i, j \in DOMAIN new :
         new[i].kind \in InsertKinds /\ new[i].episode = new[j].episode => new[i].cust = new[j].cust
  <2> SUFFICES ASSUME NEW i \in DOMAIN list, NEW j \in DOMAIN list,
                      new[i].kind \in InsertKinds, new[i].episode = new[j].episode
               PROVE  new[i].cust = new[j].cust
    BY <1>1
  <2>1. list[i].kind \in InsertKinds /\ list[i].episode = list[j].episode
    BY <1>2
  <2>2. list[i].cust = list[j].cust
    BY <2>1 DEF EpisodesApart
  <2>3. QED
    BY <1>2, <2>2
<1>8. QED
  BY <1>5, <1>6, <1>7 DEF EpisodesApart

\* What an inserted episode adds to the rows.
Inserts(new, list, kind, size, number, cust, free) ==
    /\ kind \in InsertKinds /\ size \in Nat /\ size > 0
    /\ Len(new) = Len(list) + size /\ DOMAIN new = 1 .. Len(list) + size
    /\ \A i \in DOMAIN list : new[i] = list[i]
    /\ \A i \in DOMAIN new \ DOMAIN list :
          /\ new[i].kind = kind /\ new[i].episode = <<kind, number>> /\ new[i].cust = cust
          /\ new[i].ts <= LastTime
          /\ free <= new[i].cp /\ new[i].cp < free + size

LEMMA InsertsKeepFirst ==
    ASSUME NEW list, AreRows(list), NEW new, NEW kind, NEW size, NEW number, NEW cust, NEW free,
           Inserts(new, list, kind, size, number, cust, free),
           NEW drawn, Len(drawn) \in Nat, NEW counts, DrawnFirst(list, drawn, counts),
           \A k \in InsertKinds : counts[k] \in Nat,
           NEW counts2, counts2[kind] = counts[kind] + size, \A k \in AnomalyKinds : k # kind => counts2[k] = counts[k]
    PROVE  DrawnFirst(new, drawn, counts2)
<1>1. Len(list) = Len(drawn) + counts["burst"] + counts["abnormal_velocity"] + counts["repeated_transfers"]
  BY DEF DrawnFirst
<1>2. /\ kind \in InsertKinds /\ size \in Nat /\ Len(new) = Len(list) + size
      /\ InsertKinds \subseteq AnomalyKinds
  BY KindsApart DEF Inserts
<1>3. Len(new) = Len(drawn) + counts2["burst"] + counts2["abnormal_velocity"] + counts2["repeated_transfers"]
  <2> DEFINE l == Len(drawn)
             n == Len(list)
             a == counts["burst"]
             b == counts["abnormal_velocity"]
             c == counts["repeated_transfers"]
             a2 == counts2["burst"]
             b2 == counts2["abnormal_velocity"]
             c2 == counts2["repeated_transfers"]
  <2>1. l \in Nat /\ a \in Nat /\ b \in Nat /\ c \in Nat /\ size \in Nat /\ n = l + a + b + c
    BY <1>1, <1>2 DEF InsertKinds
  <2>2. \/ a2 = a + size /\ b2 = b /\ c2 = c
        \/ a2 = a /\ b2 = b + size /\ c2 = c
        \/ a2 = a /\ b2 = b /\ c2 = c + size
    <3>1. "burst" \in AnomalyKinds /\ "abnormal_velocity" \in AnomalyKinds /\ "repeated_transfers" \in AnomalyKinds
      BY <1>2 DEF InsertKinds
    <3>2. CASE kind = "burst"
      BY <3>1, <3>2
    <3>3. CASE kind = "abnormal_velocity"
      BY <3>1, <3>3
    <3>4. CASE kind = "repeated_transfers"
      BY <3>1, <3>4
    <3>5. QED
      BY <1>2, <3>2, <3>3, <3>4 DEF InsertKinds
  <2>3. Len(new) = n + size
    BY <1>2
  <2> HIDE DEF l, n, a, b, c, a2, b2, c2
  <2>4. n + size = l + a2 + b2 + c2
    BY ONLY <2>1, <2>2
  <2>5. QED
    BY <2>3, <2>4 DEF l, a2, b2, c2
<1>4. Len(drawn) <= Len(list) /\ Len(list) \in Nat
  <2>1. counts["burst"] \in Nat /\ counts["abnormal_velocity"] \in Nat /\ counts["repeated_transfers"] \in Nat
    BY DEF InsertKinds
  <2>2. QED
    BY <1>1, <2>1
<1>5. ASSUME NEW i \in DOMAIN new
      PROVE  /\ i <= Len(drawn) <=> new[i].kind \in {NoAnomaly} \cup EditKinds
             /\ new[i].kind = NoAnomaly => new[i] = drawn[i]
  <2>1. CASE i \in DOMAIN list
    <3>1. new[i] = list[i]
      BY <2>1 DEF Inserts
    <3>2. QED
      BY <2>1, <3>1 DEF DrawnFirst
  <2>2. CASE i \notin DOMAIN list
    <3>1. new[i].kind = kind /\ i \in 1 .. Len(list) + size
      BY <2>2 DEF Inserts
    <3>2. i \notin 1 .. Len(list)
      BY <2>2 DEF AreRows
    <3>3. ~(i <= Len(drawn))
      BY <1>2, <1>4, <3>1, <3>2
    <3>4. QED
      BY <1>2, <3>1, <3>3, KindsApart
  <2>3. QED
    BY <2>1, <2>2
<1>6. QED
  BY <1>3, <1>5 DEF DrawnFirst

LEMMA InsertsCount ==
    ASSUME NEW list, AreRows(list), NEW new, NEW kind, NEW size, NEW number, NEW cust, NEW free,
           Inserts(new, list, kind, size, number, cust, free), NEW counts, CountsAre(list, counts),
           NEW counts2, counts2[kind] = counts[kind] + size, \A k \in AnomalyKinds : k # kind => counts2[k] = counts[k]
    PROVE  CountsAre(new, counts2)
<1> SUFFICES ASSUME NEW k \in AnomalyKinds PROVE Cardinality(OfKind(new, k)) = counts2[k]
  BY DEF CountsAre
<1> DEFINE n == Len(list)
           added == n + 1 .. n + size
<1>1. n \in Nat /\ DOMAIN list = 1 .. n /\ size \in Nat /\ size > 0 /\ DOMAIN new = 1 .. n + size
  BY DEF AreRows, Inserts
<1> HIDE DEF n
<1>2. added = DOMAIN new \ DOMAIN list /\ DOMAIN list \subseteq DOMAIN new
  BY <1>1
<1>3. /\ \A i \in DOMAIN list : new[i] = list[i]
      /\ \A i \in added : new[i].kind = kind
  BY <1>2 DEF Inserts
<1>4. IsFiniteSet(added) /\ Cardinality(added) = size
  <2> DEFINE a == n + 1
             b == n + size
  <2>1. a \in Int /\ b \in Int /\ b - a + 1 = size /\ ~(a > b)
    BY <1>1
  <2>2. added = a .. b
    OBVIOUS
  <2> HIDE DEF a, b, added
  <2>3. IsFiniteSet(a .. b) /\ Cardinality(a .. b) = IF a > b THEN 0 ELSE b - a + 1
    BY <2>1, FS_Interval
  <2>4. QED
    BY <2>1, <2>2, <2>3
<1>5. IsFiniteSet(OfKind(list, k)) /\ OfKind(list, k) \subseteq DOMAIN list
  BY <1>1, CardinalityUpTo, FS_Subset DEF OfKind
<1> HIDE DEF added
<1>6. CASE k = kind
  <2>1. OfKind(new, k) = OfKind(list, k) \cup added
    BY <1>2, <1>3, <1>6 DEF OfKind
  <2>2. OfKind(list, k) \cap added = {}
    BY <1>2, <1>5
  <2>3. Cardinality(OfKind(new, k)) = Cardinality(OfKind(list, k)) + size
    BY <1>4, <1>5, <2>1, <2>2, CardinalityAdds
  <2>4. Cardinality(OfKind(list, k)) = counts[k] /\ Cardinality(OfKind(list, k)) \in Nat
    BY <1>5, FS_CardinalityType DEF CountsAre
  <2>5. counts2[k] = counts[k] + size
    BY <1>6
  <2> DEFINE x == Cardinality(OfKind(list, k))
  <2> HIDE DEF x
  <2>6. Cardinality(OfKind(new, k)) = x + size /\ x = counts[k]
    BY <2>3, <2>4 DEF x
  <2>7. QED
    BY <2>5, <2>6
<1>7. CASE k # kind
  <2>1. OfKind(new, k) = OfKind(list, k)
    BY <1>2, <1>3, <1>7 DEF OfKind
  <2>2. QED
    BY <1>7, <2>1 DEF CountsAre
<1>8. QED
  BY <1>6, <1>7

LEMMA InsertsStayWithin ==
    ASSUME NEW list, NEW new, NEW kind, NEW size, NEW number, NEW cust, NEW free,
           Inserts(new, list, kind, size, number, cust, free), WithinWindow(list)
    PROVE  WithinWindow(new)
<1> SUFFICES ASSUME NEW i \in DOMAIN new PROVE new[i].ts <= LastTime
  BY DEF WithinWindow
<1> DEFINE end == LastTime
<1>1. CASE i \in DOMAIN list
  <2>1. list[i].ts <= end /\ new[i] = list[i]
    BY <1>1 DEF WithinWindow, Inserts
  <2> HIDE DEF end
  <2>2. new[i].ts <= end
    BY <2>1
  <2>3. QED
    BY <2>2 DEF end
<1>2. CASE i \notin DOMAIN list
  BY <1>2 DEF Inserts
<1>3. QED
  BY <1>1, <1>2

LEMMA InsertsKeepParties ==
    ASSUME NEW list, AreRows(list), NEW new, AreRows(new), NEW kind, NEW size, NEW number, NEW cust, NEW free \in Int,
           Inserts(new, list, kind, size, number, cust, free), PartiesApart(list, free)
    PROVE  PartiesApart(new, free + size)
<1>1. size \in Nat /\ size > 0 /\ Pool \in Int /\ Pool <= free /\ kind \in InsertKinds /\ kind \in NewKinds
  BY BaselineAssumption DEF Inserts, PartiesApart, NewKinds
<1>2. \A i \in DOMAIN new : new[i].cp \in Int
  BY DEF AreRows
<1>3. ASSUME NEW i \in DOMAIN new
      PROVE  /\ i \in DOMAIN list => new[i] = list[i] /\ new[i].cp < free
             /\ i \notin DOMAIN list =>
                   /\ new[i].kind \in NewKinds /\ new[i].episode = <<kind, number>>
                   /\ free <= new[i].cp /\ new[i].cp < free + size
  <2>1. CASE i \in DOMAIN list
    <3>1. IF list[i].kind \in NewKinds THEN Pool <= list[i].cp /\ list[i].cp < free ELSE list[i].cp < Pool
      BY <2>1 DEF PartiesApart
    <3>2. new[i] = list[i] /\ list[i].cp \in Int
      BY <2>1 DEF Inserts, AreRows
    <3>3. QED
      BY <1>1, <2>1, <3>1, <3>2
  <2>2. CASE i \notin DOMAIN list
    BY <1>1, <2>2 DEF Inserts
  <2>3. QED
    BY <2>1, <2>2
<1>4. Pool <= free + size
  BY <1>1
<1>5. ASSUME NEW i \in DOMAIN new
      PROVE  IF new[i].kind \in NewKinds THEN Pool <= new[i].cp /\ new[i].cp < free + size ELSE new[i].cp < Pool
  <2>1. CASE i \in DOMAIN list
    <3>1. IF list[i].kind \in NewKinds THEN Pool <= list[i].cp /\ list[i].cp < free ELSE list[i].cp < Pool
      BY <2>1 DEF PartiesApart
    <3>2. QED
      BY <1>1, <1>2, <1>3, <2>1, <3>1
  <2>2. CASE i \notin DOMAIN list
    BY <1>1, <1>2, <1>3, <2>2
  <2>3. QED
    BY <2>1, <2>2
<1>6. ASSUME NEW i \in DOMAIN new, NEW j \in DOMAIN new, new[i].kind \in NewKinds, new[i].cp = new[j].cp
      PROVE  i = j \/ (new[i].episode # NoEpisode /\ new[i].episode = new[j].episode)
  <2>1. new[i].cp \in Int /\ new[j].cp \in Int
    BY <1>2
  <2>2. i \in DOMAIN list <=> j \in DOMAIN list
    BY <1>3, <1>6, <2>1
  <2>3. CASE i \in DOMAIN list
    <3>1. new[i] = list[i] /\ new[j] = list[j]
      BY <1>3, <2>2, <2>3
    <3>2. list[i].kind \in NewKinds /\ list[i].cp = list[j].cp
      BY <1>6, <3>1
    <3>3. QED
      BY <2>2, <2>3, <3>1, <3>2 DEF PartiesApart
  <2>4. CASE i \notin DOMAIN list
    BY <1>3, <2>2, <2>4, LabelsDiffer
  <2>5. QED
    BY <2>3, <2>4
<1>7. QED
  BY <1>4, <1>5, <1>6 DEF PartiesApart

LEMMA NumberedCount ==
    ASSUME NEW k, NEW c \in Nat
    PROVE  Cardinality(Numbered(k, c)) = c /\ <<k, c>> \notin Numbered(k, c)
           /\ Numbered(k, c + 1) = Numbered(k, c) \cup {<<k, c>>}
<1> DEFINE f == [m \in 0 .. c - 1 |-> <<k, m>>]
<1>1. f \in Bijection(0 .. c - 1, Numbered(k, c))
  BY DEF Bijection, Injection, Surjection, Numbered, IsInjective
<1>2. IsFiniteSet(0 .. c - 1) /\ Cardinality(0 .. c - 1) = c
  <2>1. IsFiniteSet(0 .. c - 1) /\ Cardinality(0 .. c - 1) = IF 0 > c - 1 THEN 0 ELSE c - 1 - 0 + 1
    BY FS_Interval
  <2>2. QED
    BY <2>1
<1> HIDE DEF f
<1>3. ExistsBijection(0 .. c - 1, Numbered(k, c))
  BY <1>1 DEF ExistsBijection
<1>4. Cardinality(Numbered(k, c)) = c
  BY <1>2, <1>3, FS_Bijection
<1>5. <<k, c>> \notin Numbered(k, c)
  BY DEF Numbered
<1>6. 0 .. (c + 1) - 1 = (0 .. c - 1) \cup {c}
  OBVIOUS
<1>7. Numbered(k, c + 1) = Numbered(k, c) \cup {<<k, c>>}
  BY <1>6 DEF Numbered
<1>8. QED
  BY <1>4, <1>5, <1>7

LEMMA InsertsKeepEpisodes ==
    ASSUME NEW list, AreRows(list), NEW new, AreRows(new), NEW kind, NEW size, NEW number, NEW cust, NEW free,
           Inserts(new, list, kind, size, number, cust, free), EpisodesApart(list),
           number = Cardinality(EpisodesOf(list, kind))
    PROVE  EpisodesApart(new)
<1>1. PICK c \in Nat : EpisodesOf(list, kind) = Numbered(kind, c)
  BY DEF EpisodesApart, Inserts
<1>2. number = c /\ <<kind, number>> \notin EpisodesOf(list, kind)
  <2>1. Cardinality(Numbered(kind, c)) = c
    BY NumberedCount
  <2>2. <<kind, c>> \notin Numbered(kind, c)
    BY NumberedCount
  <2>3. number = c
    BY <1>1, <2>1
  <2>4. QED
    BY <1>1, <2>2, <2>3
<1>3. kind \in InsertKinds /\ kind \in AnomalyKinds /\ DOMAIN list \subseteq DOMAIN new /\ DOMAIN new \ DOMAIN list # {}
  <2>1. kind \in InsertKinds /\ size \in Nat /\ size > 0 /\ DOMAIN new = 1 .. Len(list) + size
    BY DEF Inserts
  <2>2. Len(list) \in Nat /\ DOMAIN list = 1 .. Len(list)
    BY DEF AreRows
  <2>3. Len(list) + 1 \in DOMAIN new /\ Len(list) + 1 \notin DOMAIN list /\ DOMAIN list \subseteq DOMAIN new
    BY <2>1, <2>2
  <2>4. QED
    BY <2>1, <2>3, KindsApart
<1>4. /\ \A i \in DOMAIN list : new[i] = list[i]
      /\ \A i \in DOMAIN new \ DOMAIN list :
            new[i].kind = kind /\ new[i].episode = <<kind, number>> /\ new[i].cust = cust
  BY DEF Inserts
<1>5. ASSUME NEW i \in DOMAIN new, new[i].kind \notin InsertKinds PROVE new[i].episode = NoEpisode
  <2>1. i \in DOMAIN list
    BY <1>3, <1>4, <1>5
  <2>2. new[i] = list[i]
    BY <1>4, <2>1
  <2>3. QED
    BY <1>5, <2>1, <2>2 DEF EpisodesApart
<1>6. ASSUME NEW k \in InsertKinds PROVE \E d \in Nat : EpisodesOf(new, k) = Numbered(k, d)
  <2>1. CASE k = kind
    <3>1. OfKind(new, k) = OfKind(list, k) \cup (DOMAIN new \ DOMAIN list)
      BY <1>3, <1>4, <2>1 DEF OfKind
    <3>2. /\ \A i \in OfKind(list, k) : new[i].episode = list[i].episode
          /\ \A i \in DOMAIN new \ DOMAIN list : new[i].episode = <<kind, number>>
      BY <1>4 DEF OfKind
    <3>3. EpisodesOf(new, k) = EpisodesOf(list, k) \cup {<<kind, number>>}
      <4> DEFINE was == OfKind(list, k)
                 added == DOMAIN new \ DOMAIN list
                 ep == <<kind, number>>
      <4>1. {new[i].episode : i \in was} = {list[i].episode : i \in was}
        BY <3>2
      <4>2. {new[i].episode : i \in added} = {ep}
        <5> HIDE DEF ep
        <5>1. \A i \in added : new[i].episode = ep
          BY <3>2 DEF ep
        <5>2. added # {}
          BY <1>3
        <5>3. QED
          BY <5>1, <5>2
      <4>3. EpisodesOf(new, k) = {new[i].episode : i \in was} \cup {new[i].episode : i \in added}
        <5> HIDE DEF was, added
        <5>1. OfKind(new, k) = was \cup added
          BY <3>1 DEF was, added
        <5>2. QED
          BY <5>1 DEF EpisodesOf
      <4>4. QED
        BY <4>1, <4>2, <4>3 DEF EpisodesOf
    <3>4. EpisodesOf(new, k) = Numbered(k, c + 1)
      BY <1>1, <1>2, <2>1, <3>3, NumberedCount
    <3>5. QED
      BY <3>4
  <2>2. CASE k # kind
    <3>1. OfKind(new, k) = OfKind(list, k)
      BY <1>3, <1>4, <2>2 DEF OfKind
    <3>2. \A i \in OfKind(list, k) : new[i].episode = list[i].episode
      BY <1>4 DEF OfKind
    <3>3. EpisodesOf(new, k) = EpisodesOf(list, k)
      BY <3>1, <3>2 DEF EpisodesOf
    <3>4. QED
      BY <3>3 DEF EpisodesApart
  <2>3. QED
    BY <2>1, <2>2
<1>7. ASSUME NEW i \in DOMAIN list PROVE list[i].episode # <<kind, number>>
  <2>1. CASE list[i].kind = kind
    <3>1. list[i].episode \in EpisodesOf(list, kind)
      BY <2>1 DEF EpisodesOf, OfKind
    <3>2. QED
      BY <1>2, <3>1
  <2>2. CASE list[i].kind \in InsertKinds /\ list[i].kind # kind
    <3>1. list[i].episode \in EpisodesOf(list, list[i].kind)
      BY DEF EpisodesOf, OfKind
    <3>2. PICK d \in Nat : EpisodesOf(list, list[i].kind) = Numbered(list[i].kind, d)
      BY <2>2 DEF EpisodesApart
    <3>3. PICK m : list[i].episode = <<list[i].kind, m>>
      BY <3>1, <3>2 DEF Numbered
    <3>4. QED
      BY <2>2, <3>3
  <2>3. CASE list[i].kind \notin InsertKinds
    BY <2>3, LabelsDiffer DEF EpisodesApart
  <2>4. QED
    BY <2>1, <2>2, <2>3
<1>8. ASSUME NEW i \in DOMAIN new, NEW j \in DOMAIN new, new[i].kind \in InsertKinds, new[i].episode = new[j].episode
      PROVE  new[i].cust = new[j].cust
  <2>1. CASE i \in DOMAIN list /\ j \in DOMAIN list
    <3>1. list[i].kind \in InsertKinds /\ list[i].episode = list[j].episode
      BY <1>4, <1>8, <2>1
    <3>2. list[i].cust = list[j].cust
      BY <2>1, <3>1 DEF EpisodesApart
    <3>3. QED
      BY <1>4, <2>1, <3>2
  <2>2. CASE i \notin DOMAIN list /\ j \notin DOMAIN list
    BY <1>4, <2>2
  <2>3. CASE i \in DOMAIN list /\ j \notin DOMAIN list
    BY <1>4, <1>7, <1>8, <2>3
  <2>4. CASE i \notin DOMAIN list /\ j \in DOMAIN list
    BY <1>4, <1>7, <1>8, <2>4
  <2>5. QED
    BY <2>1, <2>2, <2>3, <2>4
<1>9. QED
  BY <1>5, <1>6, <1>8 DEF EpisodesApart

LEMMA QuotaIsNatural ==
    ASSUME config \in Configs, NEW k \in AnomalyKinds, k # "high_value"
    PROVE  AnomalyQuotas(config)[k] \in Nat
<1> DEFINE u == config.anomaly_mix[k] * config.anomalies
           floor == [m \in AnomalyKinds |-> (config.anomaly_mix[m] * config.anomalies) \div 100]
<1>1. u \in Nat
  BY AnomalyMixAssumption
<1>2. u \div 100 \in Nat
  <2> HIDE DEF u
  <2>1. QED
    BY <1>1, ShareIsNatural
<1>3. floor[k] = u \div 100
  OBVIOUS
<1>4. AnomalyQuotas(config) = [floor EXCEPT !["high_value"] = @ + config.anomalies - SumFunction(floor)]
  BY DEF AnomalyQuotas
<1>5. DOMAIN floor = AnomalyKinds
  OBVIOUS
<1> HIDE DEF floor, u
<1>6. AnomalyQuotas(config)[k] = floor[k]
  BY <1>4, <1>5
<1>7. QED
  BY <1>2, <1>3, <1>6

LEMMA RawInit ==
    ASSUME LedgerInit
    PROVE  RawInv
<1>1. /\ config \in Configs /\ normal \in Baselines /\ Len(normal) = config.n - InsertedRows(config)
      /\ raw = normal /\ edits = 0 /\ fresh = Pool
      /\ realised = [k \in AnomalyKinds |-> 0]
  BY DEF LedgerInit, StartDataset
<1>2. /\ Pool \in Nat /\ normal \in Seq(RawRow)
      /\ \A i \in DOMAIN normal : /\ normal[i].cp \in 0 .. Pool - 1
                                  /\ normal[i].ts \in Profiles[normal[i].cust].start * Day .. WindowDays * Day + 59
                                  /\ normal[i].kind = NoAnomaly /\ normal[i].episode = NoEpisode
  BY <1>1, BaselineAssumption
<1>3. Len(normal) \in Nat /\ DOMAIN normal = 1 .. Len(normal) /\ \A i \in DOMAIN normal : normal[i] \in RawRow
  BY <1>2
<1>4. AreRows(normal)
  <2>1. \A i \in DOMAIN normal : /\ normal[i].cp \in Int /\ normal[i].ts \in Nat
                                 /\ normal[i].kind \in {NoAnomaly} \cup AnomalyKinds
    BY <1>3, RowTells
  <2>2. QED
    BY <1>3, <2>1 DEF AreRows
<1>5. \A i \in DOMAIN normal : /\ normal[i].kind \notin EditKinds /\ normal[i].kind \notin InsertKinds
                               /\ normal[i].kind \notin NewKinds /\ normal[i].kind \notin AnomalyKinds
  BY <1>2, KindsApart
<1>6. \A k \in AnomalyKinds : realised[k] = 0
  BY <1>1
<1>7. /\ "burst" \in AnomalyKinds /\ "abnormal_velocity" \in AnomalyKinds /\ "repeated_transfers" \in AnomalyKinds
      /\ InsertKinds \subseteq AnomalyKinds /\ EditKinds \subseteq AnomalyKinds
  BY KindsApart DEF InsertKinds
<1>8. DrawnFirst(normal, normal, realised)
  <2>1. Len(normal) = Len(normal) + realised["burst"] + realised["abnormal_velocity"] + realised["repeated_transfers"]
    BY <1>3, <1>6, <1>7
  <2>2. \A i \in DOMAIN normal : i <= Len(normal) /\ normal[i].kind \in {NoAnomaly} \cup EditKinds
    BY <1>2, <1>3
  <2>3. QED
    BY <2>1, <2>2 DEF DrawnFirst
<1>9. CountsAre(normal, realised)
  <2>1. \A k \in AnomalyKinds : OfKind(normal, k) = {}
    BY <1>5 DEF OfKind
  <2>2. QED
    BY <1>6, <2>1, FS_EmptySet DEF CountsAre
<1>10. WithinWindow(normal)
  <2> DEFINE end == WindowDays * Day + 59
  <2>1. \A i \in DOMAIN normal : normal[i].ts \in Profiles[normal[i].cust].start * Day .. end
    BY <1>2
  <2>2. end <= LastTime /\ end \in Int /\ LastTime \in Int
    BY LastTimeIs
  <2> HIDE DEF end
  <2>3. \A i \in DOMAIN normal : normal[i].ts <= end /\ normal[i].ts \in Int
    BY <1>4, <2>1 DEF AreRows
  <2>4. QED
    BY <2>2, <2>3 DEF WithinWindow
<1>11. PartiesApart(normal, Pool)
  BY <1>2, <1>5 DEF PartiesApart
<1>12. EpisodesApart(normal)
  <2>1. ASSUME NEW k \in InsertKinds PROVE \E c \in Nat : EpisodesOf(normal, k) = Numbered(k, c)
    <3>1. OfKind(normal, k) = {}
      BY <1>5 DEF OfKind
    <3>2. EpisodesOf(normal, k) = {}
      BY <3>1 DEF EpisodesOf
    <3>3. Numbered(k, 0) = {}
      BY DEF Numbered
    <3>4. QED
      BY <3>2, <3>3
  <2>2. QED
    BY <1>2, <1>5, <2>1 DEF EpisodesApart
<1>13. WithinQuotas(realised, AnomalyQuotas(config), 0)
  <2>1. \A k \in InsertKinds : k # "high_value" /\ k \in AnomalyKinds
    BY <1>7 DEF InsertKinds
  <2>2. \A k \in InsertKinds : AnomalyQuotas(config)[k] \in Nat
    BY <1>1, <2>1, QuotaIsNatural
  <2>3. \A k \in InsertKinds : realised[k] <= AnomalyQuotas(config)[k]
    BY <1>6, <2>1, <2>2
  <2>4. \A n \in 1 .. 4 : Edited[n] \in AnomalyKinds
    BY <1>7, KindsOfAnomaly DEF EditKinds
  <2>5. \A n \in 1 .. 4 : realised[Edited[n]] = 0 /\ ~(n <= 0)
    BY <1>6, <2>4
  <2>6. QED
    BY <2>3, <2>5 DEF WithinQuotas
<1>14. QED
  BY <1>1, <1>4, <1>8, <1>9, <1>10, <1>11, <1>12, <1>13 DEF RawInv

\* Who is up to a member of a set counts from one, each another number.
LEMMA Ranked ==
    ASSUME NEW S \in SUBSET Int, IsFiniteSet(S)
    PROVE  /\ \A i \in S : Cardinality({j \in S : j <= i}) \in 1 .. Cardinality(S)
           /\ \A i, k \in S : Cardinality({j \in S : j <= i}) = Cardinality({j \in S : j <= k}) => i = k
<1> DEFINE upto(i) == {j \in S : j <= i}
<1>1. ASSUME NEW i \in S
      PROVE  /\ IsFiniteSet(upto(i)) /\ Cardinality(upto(i)) \in 1 .. Cardinality(S)
             /\ Cardinality(upto(i)) \in Nat
  <2>1. upto(i) \subseteq S /\ {i} \subseteq upto(i)
    OBVIOUS
  <2> HIDE DEF upto
  <2>2. IsFiniteSet(upto(i)) /\ Cardinality(upto(i)) <= Cardinality(S) /\ Cardinality(S) \in Nat
    BY <2>1, FS_Subset, FS_CardinalityType
  <2>3. Cardinality({i}) <= Cardinality(upto(i))
    BY <2>1, <2>2, FS_Subset
  <2>4. Cardinality({i}) = 1
    BY FS_Singleton
  <2>5. Cardinality(upto(i)) \in Nat
    BY <2>2, FS_CardinalityType
  <2>6. QED
    BY <2>2, <2>3, <2>4, <2>5
<1>2. ASSUME NEW i \in S, NEW k \in S, i < k PROVE Cardinality(upto(i)) # Cardinality(upto(k))
  <2>1. upto(i) \subseteq upto(k) /\ k \in upto(k) /\ k \notin upto(i)
    <3>1. i \in Int /\ k \in Int /\ ~(k <= i) /\ k <= k
      BY <1>2
    <3>2. \A j \in S : j <= i => j <= k
      BY <1>2, <3>1
    <3>3. QED
      BY <3>1, <3>2
  <2>2. IsFiniteSet(upto(k)) /\ IsFiniteSet(upto(i)) /\ Cardinality(upto(k)) \in Nat /\ Cardinality(upto(i)) \in Nat
    BY <1>1
  <2> HIDE DEF upto
  <2>3. Cardinality(upto(i) \cup {k}) = Cardinality(upto(i)) + 1
    BY <2>1, <2>2, FS_AddElement
  <2>4. Cardinality(upto(i) \cup {k}) <= Cardinality(upto(k))
    <3>1. upto(i) \cup {k} \subseteq upto(k)
      BY <2>1
    <3>2. QED
      BY <2>2, <3>1, FS_Subset
  <2>5. QED
    BY <2>2, <2>3, <2>4
<1>3. ASSUME NEW i \in S, NEW k \in S, Cardinality(upto(i)) = Cardinality(upto(k)) PROVE i = k
  <2>1. i < k \/ k < i \/ i = k
    OBVIOUS
  <2> HIDE DEF upto
  <2>2. QED
    BY <1>2, <1>3, <2>1
<1>4. QED
  BY <1>1, <1>3

\* Another hour of the same day is within the same window.
LEMMA SameDay ==
    ASSUME NEW w \in Nat, NEW t \in Nat, t <= w * Day - 1, NEW h \in Nat, h < Day
    PROVE  t - (t % Day) + h <= w * Day - 1
<1>1. Day \in Nat /\ Day > 0
  BY SecondsOf
<1> DEFINE r == t % Day
           q == t \div Day
           x == Day * q
           end == w * Day
<1>2. t = x + r /\ q \in Int /\ r \in 0 .. Day - 1
  BY <1>1
<1>3. x \in Int /\ end \in Int
  BY <1>1, <1>2
<1>4. q + 1 <= w => (q + 1) * Day <= end
  <2> HIDE DEF r, q
  <2>1. QED
    BY <1>1, <1>2
<1>5. (q + 1) * Day = x + Day
  <2> HIDE DEF r, q
  <2>1. QED
    BY <1>1, <1>2
<1>6. w <= q => end <= x
  <2> HIDE DEF r, q
  <2>1. QED
    BY <1>1, <1>2
<1>7. t <= end - 1
  OBVIOUS
<1> HIDE DEF x, end, q, r
<1>8. q + 1 <= w
  BY <1>2, <1>3, <1>6, <1>7, <1>1
<1>9. x + Day <= end
  BY <1>4, <1>5, <1>8
<1>10. t - r + h <= end - 1
  BY <1>1, <1>2, <1>3, <1>9
<1>11. QED
  BY <1>10 DEF r, end

\* What an edit changes of a row, and what it leaves.
LEMMA EditedRowTells ==
    ASSUME fresh \in Int, NEW r \in RawRow, NEW kind \in EditKinds, NEW draw \in Draws[kind], NEW nth \in Nat
    PROVE  LET s == EditedRow(r, kind, draw, nth)
           IN  /\ s.kind = kind /\ s.episode = r.episode /\ s.cust = r.cust
               /\ r.ts <= LastTime => s.ts <= LastTime
               /\ s.cp = IF kind = "new_counterparty" THEN fresh + nth - 1 ELSE r.cp
<1> DEFINE s == [r EXCEPT !.kind = kind]
           new == EditedRow(r, kind, draw, nth)
           end == LastTime
<1>1. /\ s.kind = kind /\ s.episode = r.episode /\ s.cust = r.cust /\ s.ts = r.ts /\ s.cp = r.cp
      /\ DOMAIN s = DOMAIN r /\ {"ts", "cp", "amount", "country"} \subseteq DOMAIN r
  BY DEF RawRow
<1>2. CASE kind = "geo_change"
  <2>1. new = [s EXCEPT !.country = draw]
    BY <1>2 DEF EditedRow
  <2> HIDE DEF s, new, end
  <2>2. new.kind = s.kind /\ new.episode = s.episode /\ new.cust = s.cust /\ new.ts = s.ts /\ new.cp = s.cp
    BY <2>1
  <2>3. QED
    BY <1>1, <1>2, <2>2 DEF new, end
<1>3. CASE kind = "high_value"
  <2> DEFINE amount == s.amount * draw
  <2>1. new = [s EXCEPT !.amount = amount]
    BY <1>3 DEF EditedRow
  <2> HIDE DEF s, new, end, amount
  <2>2. new.kind = s.kind /\ new.episode = s.episode /\ new.cust = s.cust /\ new.ts = s.ts /\ new.cp = s.cp
    BY <2>1
  <2>3. QED
    BY <1>1, <1>3, <2>2 DEF new, end
<1>4. CASE kind = "new_counterparty"
  <2> DEFINE amount == s.amount * draw
             party == fresh + nth - 1
  <2>1. new = [s EXCEPT !.cp = party, !.amount = amount]
    BY <1>4 DEF EditedRow
  <2> HIDE DEF s, new, end, amount, party
  <2>2. new.kind = s.kind /\ new.episode = s.episode /\ new.cust = s.cust /\ new.ts = s.ts /\ new.cp = party
    BY <1>1, <2>1
  <2>3. QED
    BY <1>1, <1>4, <2>2 DEF new, end, party
<1>5. CASE kind = "unusual_time"
  <2> DEFINE time == s.ts - (s.ts % Day) + draw
  <2>1. new = [s EXCEPT !.ts = time]
    BY <1>5 DEF EditedRow
  <2>2. r.ts \in Nat
    BY RowTells
  <2>3. draw \in Nat /\ draw < Day
    <3>1. draw \in {Hour, 5 * Hour - 1}
      BY <1>5 DEF Draws
    <3>2. Hour \in Nat /\ Hour > 0
      BY SecondsOf
    <3>3. Day = 24 * Hour
      BY DEF Day
    <3>4. QED
      BY ONLY <3>1, <3>2, <3>3
  <2>4. r.ts <= end => time <= end
    <3> SUFFICES ASSUME r.ts <= end PROVE time <= end
      OBVIOUS
    <3>1. WindowDays \in Nat
      BY BaselineAssumption
    <3> DEFINE t == r.ts
    <3>a. t <= (WindowDays + 1) * Day - 1 /\ t \in Nat
      BY <2>2 DEF LastTime
    <3>b. time = t - (t % Day) + draw
      BY <1>1
    <3> HIDE DEF s, time, t
    <3>2. t - (t % Day) + draw <= (WindowDays + 1) * Day - 1
      BY <2>3, <3>1, <3>a, SameDay
    <3>3. QED
      BY <3>2, <3>b DEF LastTime
  <2> HIDE DEF s, new, end, time
  <2>5. new.kind = s.kind /\ new.episode = s.episode /\ new.cust = s.cust /\ new.ts = time /\ new.cp = s.cp
    BY <1>1, <2>1
  <2>6. QED
    BY <1>1, <1>5, <2>4, <2>5 DEF new, end
<1>6. QED
  BY <1>2, <1>3, <1>4, <1>5 DEF EditKinds

\* An edit keeps what holds of the rows.
LEMMA RowsEdited ==
    ASSUME RowsType, RawInv, EditRows
    PROVE  RawInv'
<1> DEFINE kind == Edited[edits + 1]
           nth(S, i) == Cardinality({j \in S : j <= i})
<1>1. /\ edits \in 0 .. 4 /\ edits < 4 /\ edits' = edits + 1
      /\ config' = config /\ normal' = normal
      /\ fresh \in Int /\ config \in Configs /\ realised \in [AnomalyKinds -> Int]
  BY KindsOfAnomaly DEF EditRows, RowsType
<1>2. \E chosen \in Picks(kind) : \E draw \in [chosen -> Draws[kind]] :
         /\ raw' = [i \in DOMAIN raw |->
                       IF i \in chosen
                       THEN EditedRow(raw[i], kind, draw[i], Cardinality({j \in chosen : j <= i}))
                       ELSE raw[i]]
         /\ fresh' = FreshAfterEdit(kind, Cardinality(chosen))
         /\ realised' = [realised EXCEPT ![kind] = Cardinality(chosen)]
  BY DEF EditRows
<1>3. PICK chosen \in Picks(kind) : \E draw \in [chosen -> Draws[kind]] :
         /\ raw' = [i \in DOMAIN raw |->
                       IF i \in chosen
                       THEN EditedRow(raw[i], kind, draw[i], Cardinality({j \in chosen : j <= i}))
                       ELSE raw[i]]
         /\ fresh' = FreshAfterEdit(kind, Cardinality(chosen))
         /\ realised' = [realised EXCEPT ![kind] = Cardinality(chosen)]
  BY <1>2
<1>4. PICK draw \in [chosen -> Draws[kind]] :
         /\ raw' = [i \in DOMAIN raw |->
                       IF i \in chosen
                       THEN EditedRow(raw[i], kind, draw[i], Cardinality({j \in chosen : j <= i}))
                       ELSE raw[i]]
         /\ fresh' = FreshAfterEdit(kind, Cardinality(chosen))
         /\ realised' = [realised EXCEPT ![kind] = Cardinality(chosen)]
  BY <1>3
<1>5. kind \in EditKinds /\ kind \in AnomalyKinds
  BY <1>1, KindsOfAnomaly, KindsApart DEF EditKinds
<1> HIDE DEF kind
<1>6. /\ raw \in Seq(RawRow) /\ Len(raw) \in Nat /\ DOMAIN raw = 1 .. Len(raw)
      /\ \A i \in DOMAIN raw : raw[i] \in RawRow
  BY DEF RowsType
<1>7. /\ chosen \in SUBSET Available(kind)
      /\ Cardinality(chosen) = Min({AnomalyQuotas(config)[kind], Cardinality(Available(kind))})
  BY <1>3 DEF Picks, kSubset
<1>8. chosen \in SUBSET DOMAIN raw /\ \A i \in chosen : raw[i].kind = NoAnomaly
  BY <1>7 DEF Available
<1>9. IsFiniteSet(chosen) /\ Cardinality(chosen) \in Nat /\ chosen \in SUBSET Int
  BY <1>6, <1>8, CardinalityUpTo, FS_Subset, FS_CardinalityType
<1>10. Cardinality(chosen) <= AnomalyQuotas(config)[kind]
  <2> DEFINE q == AnomalyQuotas(config)[kind]
             a == Cardinality(Available(kind))
  <2>1. q \in Int
    BY <1>1, <1>5, AnomalyQuotasAreNumbers
  <2>2. a \in Nat
    <3>1. IsFiniteSet(Available(kind))
      BY <1>6, CardinalityUpTo, FS_Subset DEF Available
    <3>2. QED
      BY <3>1, FS_CardinalityType
  <2> HIDE DEF q, a
  <2>4. \E n \in {q, a} : \A m \in {q, a} : n <= m
    <3>1. q <= a \/ a <= q
      BY <2>1, <2>2
    <3>2. QED
      BY <2>1, <2>2, <3>1
  <2>5. \A m \in {q, a} : Min({q, a}) <= m
    BY <2>4 DEF Min
  <2>6. QED
    BY <1>7, <2>5 DEF q, a
<1>11. \A i \in chosen : /\ nth(chosen, i) \in 1 .. Cardinality(chosen)
                         /\ \A k \in chosen : nth(chosen, i) = nth(chosen, k) => i = k
  BY <1>9, Ranked
<1> HIDE DEF nth
<1>12. /\ DOMAIN raw' = DOMAIN raw
       /\ \A i \in DOMAIN raw \ chosen : raw'[i] = raw[i]
       /\ \A i \in chosen : raw'[i] = EditedRow(raw[i], kind, draw[i], nth(chosen, i))
  BY <1>4, <1>8 DEF nth
<1>13. Len(raw') = Len(raw)
  BY <1>4, <1>6
<1>14. ASSUME NEW i \in chosen
       PROVE  /\ raw'[i].kind = kind /\ raw'[i].episode = raw[i].episode /\ raw'[i].cust = raw[i].cust
              /\ raw[i].ts <= LastTime => raw'[i].ts <= LastTime
              /\ raw'[i].cp = IF kind = "new_counterparty" THEN fresh + nth(chosen, i) - 1 ELSE raw[i].cp
  <2>1. raw[i] \in RawRow /\ draw[i] \in Draws[kind] /\ nth(chosen, i) \in Nat
    BY <1>4, <1>6, <1>8, <1>9, <1>11
  <2>2. LET s == EditedRow(raw[i], kind, draw[i], nth(chosen, i))
        IN  /\ s.kind = kind /\ s.episode = raw[i].episode /\ s.cust = raw[i].cust
            /\ raw[i].ts <= LastTime => s.ts <= LastTime
            /\ s.cp = IF kind = "new_counterparty" THEN fresh + nth(chosen, i) - 1 ELSE raw[i].cp
    BY <1>1, <1>5, <2>1, EditedRowTells
  <2>3. raw'[i] = EditedRow(raw[i], kind, draw[i], nth(chosen, i))
    BY <1>12
  <2>4. QED
    BY <2>2, <2>3
<1>15. Edits(raw', raw, chosen, kind, fresh)
  <2>1. ASSUME NEW i \in chosen, kind = "new_counterparty"
        PROVE  fresh <= raw'[i].cp /\ raw'[i].cp < fresh + Cardinality(chosen)
    <3>1. raw'[i].cp = fresh + nth(chosen, i) - 1 /\ nth(chosen, i) \in 1 .. Cardinality(chosen)
      BY <1>11, <1>14, <2>1
    <3>2. QED
      BY <1>1, <1>9, <3>1
  <2>2. ASSUME kind = "new_counterparty", NEW i \in chosen, NEW j \in chosen, raw'[i].cp = raw'[j].cp
        PROVE  i = j
    <3>1. /\ raw'[i].cp = fresh + nth(chosen, i) - 1 /\ nth(chosen, i) \in 1 .. Cardinality(chosen)
          /\ raw'[j].cp = fresh + nth(chosen, j) - 1 /\ nth(chosen, j) \in 1 .. Cardinality(chosen)
      BY <1>11, <1>14, <2>2
    <3> DEFINE m == nth(chosen, i)
               n == nth(chosen, j)
               a == raw'[i].cp
               b == raw'[j].cp
               top == Cardinality(chosen)
    <3>2. a = fresh + m - 1 /\ b = fresh + n - 1 /\ m \in 1 .. top /\ n \in 1 .. top /\ a = b /\ top \in Nat
      BY <1>9, <2>2, <3>1
    <3> HIDE DEF m, n, a, b, top
    <3>3. fresh \in Int
      BY <1>1
    <3>4. m \in Int /\ n \in Int /\ fresh + m - 1 = fresh + n - 1
      BY ONLY <3>2
    <3>5. m = n
      BY ONLY <3>3, <3>4
    <3>6. QED
      BY <1>11, <3>5 DEF m, n
  <2>3. \A i \in chosen : /\ IF kind = "new_counterparty"
                                THEN fresh <= raw'[i].cp /\ raw'[i].cp < fresh + Cardinality(chosen)
                                ELSE raw'[i].cp = raw[i].cp
                          /\ raw[i].kind = NoAnomaly /\ raw'[i].kind = kind
                          /\ raw'[i].episode = raw[i].episode /\ raw'[i].cust = raw[i].cust
                          /\ raw[i].ts <= LastTime => raw'[i].ts <= LastTime
    BY <1>8, <1>14, <2>1
  <2>4. QED
    BY <1>5, <1>8, <1>12, <1>13, <2>2, <2>3 DEF Edits
<1>16. /\ normal \in Baselines /\ Len(normal) = config.n - InsertedRows(config)
       /\ AreRows(raw) /\ DrawnFirst(raw, normal, realised) /\ CountsAre(raw, realised)
       /\ WithinWindow(raw) /\ PartiesApart(raw, fresh) /\ EpisodesApart(raw)
       /\ WithinQuotas(realised, AnomalyQuotas(config), edits)
  BY DEF RawInv
<1> DEFINE counts2 == realised'
<1>17. /\ counts2[kind] = Cardinality(chosen)
       /\ \A k \in AnomalyKinds : k # kind => counts2[k] = realised[k]
       /\ \A k \in InsertKinds : counts2[k] = realised[k]
  <2>1. \A k \in InsertKinds : k # kind /\ k \in AnomalyKinds
    BY <1>5, KindsApart
  <2>2. QED
    BY <1>1, <1>4, <1>5, <2>1
<1>18. /\ \A m \in 1 .. 4 : Edited[m] = kind <=> m = edits + 1
       /\ \A m \in 1 .. 4 : Edited[m] \in EditKinds /\ Edited[m] \in AnomalyKinds
  <2>1. /\ Edited[1] = "geo_change" /\ Edited[2] = "new_counterparty"
        /\ Edited[3] = "high_value" /\ Edited[4] = "unusual_time"
    BY DEF Edited
  <2>2. \A m, n \in 1 .. 4 : Edited[m] = Edited[n] <=> m = n
    BY <2>1
  <2>3. QED
    BY <1>1, <2>2, KindsOfAnomaly, KindsApart DEF kind, EditKinds
<1>19. realised[kind] = 0
  BY <1>1, <1>16, <1>18 DEF WithinQuotas
<1>20. WithinQuotas(counts2, AnomalyQuotas(config), edits + 1)
  <2>1. ASSUME NEW m \in 1 .. 4
        PROVE  IF m <= edits + 1 THEN counts2[Edited[m]] <= AnomalyQuotas(config)[Edited[m]]
                                 ELSE counts2[Edited[m]] = 0
    <3>1. CASE m = edits + 1
      BY <1>1, <1>10, <1>17, <1>18, <3>1
    <3>2. CASE m # edits + 1
      <4>1. counts2[Edited[m]] = realised[Edited[m]]
        BY <1>17, <1>18, <3>2
      <4>2. m <= edits + 1 <=> m <= edits
        BY <1>1, <3>2
      <4>3. IF m <= edits THEN realised[Edited[m]] <= AnomalyQuotas(config)[Edited[m]]
                          ELSE realised[Edited[m]] = 0
        BY <1>16 DEF WithinQuotas
      <4>4. QED
        BY <4>1, <4>2, <4>3
    <3>3. QED
      BY <3>1, <3>2
  <2>2. \A k \in InsertKinds : counts2[k] <= AnomalyQuotas(config)[k]
    BY <1>16, <1>17 DEF WithinQuotas
  <2>3. QED
    BY <2>1, <2>2 DEF WithinQuotas
<1>21. AreRows(raw')
  <2>1. ASSUME NEW i \in DOMAIN raw
        PROVE  /\ raw'[i].cp \in Int /\ raw'[i].ts \in Nat
               /\ raw'[i].kind \in {NoAnomaly} \cup AnomalyKinds
    <3>1. raw'[i] \in RawRow
      <4>1. CASE i \in chosen
        <5>1. raw[i] \in RawRow /\ draw[i] \in Draws[kind] /\ nth(chosen, i) \in Nat /\ kind \in ToSet(Edited)
          BY <1>4, <1>5, <1>6, <1>9, <1>11, <4>1, KindsApart
        <5>2. EditedRow(raw[i], kind, draw[i], nth(chosen, i)) \in RawRow
          BY <1>1, <5>1, EditedRowType
        <5>3. QED
          BY <1>12, <4>1, <5>2
      <4>2. CASE i \notin chosen
        BY <1>6, <1>12, <4>2
      <4>3. QED
        BY <4>1, <4>2
    <3>2. QED
      BY <3>1, RowTells
  <2>2. QED
    BY <1>6, <1>12, <1>13, <2>1 DEF AreRows
<1>22. fresh' = IF kind = "new_counterparty" THEN fresh + Cardinality(chosen) ELSE fresh
  BY <1>4 DEF FreshAfterEdit
<1> HIDE DEF counts2
<1>23. DrawnFirst(raw', normal, counts2)
  BY <1>15, <1>16, <1>17, EditsKeepFirst
<1>24. CountsAre(raw', counts2)
  BY <1>15, <1>16, <1>17, <1>19, EditsCount
<1>25. WithinWindow(raw')
  BY <1>15, <1>16, EditsStayWithin
<1>26. PartiesApart(raw', fresh')
  BY <1>1, <1>9, <1>15, <1>16, <1>21, <1>22, EditsKeepParties
<1>27. EpisodesApart(raw')
  BY <1>15, <1>16, EditsKeepEpisodes
<1>28. InsertedRows(config') = InsertedRows(config) /\ AnomalyQuotas(config') = AnomalyQuotas(config)
  BY <1>1
<1>29. QED
  BY <1>1, <1>16, <1>20, <1>21, <1>23, <1>24, <1>25, <1>26, <1>27, <1>28 DEF RawInv, counts2

LEMMA LesserOf ==
    ASSUME NEW a \in Int, NEW b \in Int
    PROVE  Min({a, b}) \in {a, b} /\ Min({a, b}) <= a /\ Min({a, b}) <= b
<1>1. \E n \in {a, b} : \A m \in {a, b} : n <= m
  <2>1. a <= b \/ b <= a
    OBVIOUS
  <2>2. QED
    BY <2>1
<1>2. Min({a, b}) \in {a, b} /\ \A m \in {a, b} : Min({a, b}) <= m
  BY <1>1 DEF Min
<1>3. QED
  BY <1>2

\* So many shares are no more than the whole.
LEMMA SharesFit ==
    ASSUME NEW a \in Nat, NEW b \in Nat, NEW i \in 1 .. b
    PROVE  i * (a \div b) <= a
<1> DEFINE q == a \div b
           r == a % b
           x == b * q
           y == i * q
<1>1. b > 0 /\ a = x + r /\ r \in 0 .. b - 1 /\ q \in Int
  OBVIOUS
<1>2. q \in Nat
  BY <1>1, ShareIsNatural
<1>3. y <= x /\ x \in Nat /\ y \in Nat
  <2> HIDE DEF q, r
  <2>1. QED
    BY <1>2
<1> HIDE DEF x, y, r
<1>4. y <= a
  BY <1>1, <1>3
<1>5. QED
  BY <1>4 DEF y

LEMMA SpanOf ==
    ASSUME NEW kind \in InsertKinds, NEW size \in Nat, kind = "repeated_transfers" => size <= 8,
           NEW apart \in Steps(kind, size), NEW i \in 1 .. size
    PROVE  i * apart \in Nat /\ i * apart <= (IF kind = "repeated_transfers" THEN 24 * Day ELSE Day) - 1
<1>1. Day \in Nat /\ Day >= 600
  <2>1. Hour \in Nat /\ Hour >= 25
    BY DEF Hour
  <2> HIDE DEF Hour
  <2>2. QED
    BY <2>1 DEF Day
<1>2. CASE kind = "burst"
  <2>1. apart \in {0, 599 \div size}
    BY <1>2 DEF Steps
  <2>2. apart \in Nat
    BY <2>1, ShareIsNatural
  <2>3. i * apart <= 599
    <3>1. CASE apart = 0
      BY <3>1
    <3>2. CASE apart = 599 \div size
      BY <3>2, SharesFit
    <3>3. QED
      BY <2>1, <3>1, <3>2
  <2>4. i * apart \in Nat
    BY <2>2
  <2> DEFINE x == i * apart
  <2> HIDE DEF x
  <2>5. x <= Day - 1
    BY <1>1, <2>3, <2>4 DEF x
  <2>6. QED
    BY <1>2, <2>4, <2>5 DEF x
<1>3. CASE kind = "abnormal_velocity"
  <2>1. apart \in {0, (Day - 1) \div size} /\ Day - 1 \in Nat
    BY <1>1, <1>3 DEF Steps
  <2>2. apart \in Nat
    BY <2>1, ShareIsNatural
  <2>3. i * apart <= Day - 1
    <3>1. CASE apart = 0
      <4>1. i * apart = 0
        BY <3>1
      <4>2. QED
        BY <1>1, <4>1
    <3>2. CASE apart = (Day - 1) \div size
      BY <2>1, <3>2, SharesFit
    <3>3. QED
      BY <2>1, <3>1, <3>2
  <2>4. i * apart \in Nat
    BY <2>2
  <2>5. QED
    BY <1>3, <2>3, <2>4
<1>4. CASE kind = "repeated_transfers"
  <2>1. apart \in {Day, 3 * Day - 1} /\ i <= 8
    BY <1>4 DEF Steps
  <2>2. apart \in Nat /\ apart <= 3 * Day - 1
    BY <1>1, <2>1
  <2>3. i * apart <= 8 * apart /\ i * apart \in Nat
    BY <2>1, <2>2
  <2> DEFINE x == i * apart
  <2> HIDE DEF x
  <2>4. x <= 24 * Day - 1
    BY <1>1, <2>2, <2>3 DEF x
  <2>5. QED
    BY <1>4, <2>3, <2>4 DEF x
<1>5. QED
  BY <1>2, <1>3, <1>4 DEF InsertKinds

\* An episode ends before the window does.
LEMMA EpisodeEnds ==
    ASSUME NEW kind \in InsertKinds, NEW cust \in DOMAIN Profiles, NEW size \in Nat,
           kind = "repeated_transfers" => size <= 8,
           NEW start \in Starts(kind, cust), NEW apart \in Steps(kind, size), NEW i \in 1 .. size
    PROVE  start + i * apart <= LastTime
<1>1. Day \in Nat /\ Day > 0 /\ WindowDays \in Nat /\ WindowDays >= 60
  BY SecondsOf, BaselineAssumption
<1> DEFINE end == WindowDays * Day
           x == i * apart
           s == Profiles[cust].start
           e == (s + 1) * Day
           late == IF kind = "repeated_transfers" THEN 25 ELSE 2
           f == (WindowDays - late) * Day
           span == IF kind = "repeated_transfers" THEN 24 ELSE 1
<1>2. x \in Nat /\ x <= span * Day - 1
  <2>1. i * apart \in Nat /\ i * apart <= (IF kind = "repeated_transfers" THEN 24 * Day ELSE Day) - 1
    BY SpanOf
  <2>2. QED
    BY <1>1, <2>1
<1>3. s \in Int /\ s + 1 <= WindowDays - 29
  <2>1. s \in 0 .. WindowDays - 30
    BY BaselineAssumption
  <2> HIDE DEF s
  <2>2. QED
    BY <1>1, <2>1
<1>4. e <= end - 29 * Day /\ e \in Int
  <2> HIDE DEF s
  <2>1. (s + 1) * Day <= (WindowDays - 29) * Day
    BY <1>1, <1>3
  <2>2. (WindowDays - 29) * Day = WindowDays * Day - 29 * Day
    BY <1>1
  <2>3. QED
    BY <1>1, <1>3, <2>1, <2>2
<1>5. f = end - late * Day /\ end \in Nat
  BY <1>1
<1>6. start = e \/ start = f - 1
  BY DEF Starts
<1> HIDE DEF end, x, e, f
<1>7. start + x <= end - 1 /\ start + x \in Int
  BY <1>1, <1>2, <1>4, <1>5, <1>6
<1>8. end <= LastTime /\ LastTime \in Int
  BY LastTimeIs DEF end
<1>9. start + x <= LastTime
  BY <1>5, <1>7, <1>8
<1>10. QED
  BY <1>9 DEF x

\* The rows of an episode tell who they are of.
LEMMA EpisodeTells ==
    ASSUME fresh \in Int, NEW kind \in InsertKinds, NEW cust \in DOMAIN Profiles, NEW size \in Nat, size > 0,
           kind = "repeated_transfers" => size <= 8,
           NEW start \in Starts(kind, cust), NEW apart \in Steps(kind, size), NEW number
    PROVE  LET e == Episode(kind, cust, size, start, apart, number)
           IN  /\ Len(e) = size /\ DOMAIN e = 1 .. size
               /\ \A i \in 1 .. size :
                     /\ e[i].kind = kind /\ e[i].episode = <<kind, number>> /\ e[i].cust = cust
                     /\ e[i].ts <= LastTime
                     /\ fresh <= e[i].cp /\ e[i].cp < fresh + size
<1> DEFINE row(i) == [cust |-> cust, ts |-> start + i * apart, amount |-> Profiles[cust].median, out |-> TRUE,
                      cp |-> IF kind = "abnormal_velocity" THEN fresh + i - 1 ELSE fresh,
                      country |-> Profiles[cust].home, kind |-> kind, episode |-> <<kind, number>>]
           e == Episode(kind, cust, size, start, apart, number)
<1>1. e = [i \in 1 .. size |-> row(i)]
  BY DEF Episode
<1>2. \A i \in 1 .. size :
         /\ row(i).kind = kind /\ row(i).episode = <<kind, number>> /\ row(i).cust = cust
         /\ row(i).ts = start + i * apart
         /\ row(i).cp = IF kind = "abnormal_velocity" THEN fresh + i - 1 ELSE fresh
  OBVIOUS
<1> HIDE DEF row, e
<1>3. Len(e) = size /\ DOMAIN e = 1 .. size /\ \A i \in 1 .. size : e[i] = row(i)
  BY <1>1
<1>4. ASSUME NEW i \in 1 .. size
      PROVE  /\ e[i].ts <= LastTime
             /\ fresh <= e[i].cp /\ e[i].cp < fresh + size
  <2>1. start + i * apart <= LastTime
    BY EpisodeEnds
  <2>2. e[i].ts = start + i * apart
    BY <1>2, <1>3
  <2>3. e[i].cp = IF kind = "abnormal_velocity" THEN fresh + i - 1 ELSE fresh
    BY <1>2, <1>3
  <2>4. e[i].ts <= LastTime
    BY <2>1, <2>2
  <2>5. QED
    BY <2>3, <2>4
<1>5. \A i \in 1 .. size : e[i].kind = kind /\ e[i].episode = <<kind, number>> /\ e[i].cust = cust
  BY <1>2, <1>3
<1>6. QED
  BY <1>3, <1>4, <1>5 DEF e

\* An episode that is inserted keeps what holds of the rows.
LEMMA RowsInserted ==
    ASSUME RowsType, RawInv, InsertEpisode, AreRows(raw')
    PROVE  RawInv'
<1> DEFINE kind == Inserted[Min(Waiting)]
<1>1. /\ Waiting # {} /\ edits' = edits /\ config' = config /\ normal' = normal
      /\ fresh \in Int /\ config \in Configs /\ realised \in [AnomalyKinds -> Int]
  BY DEF InsertEpisode, RowsType
<1>2. Min(Waiting) \in Waiting
  <2>1. Waiting \in SUBSET Int /\ IsFiniteSet(Waiting)
    <3>1. Waiting \in SUBSET (1 .. 3)
      BY KindsOfAnomaly DEF Waiting
    <3>2. IsFiniteSet(1 .. 3)
      BY CardinalityUpTo
    <3>3. 1 .. 3 \subseteq Int
      OBVIOUS
    <3>4. IsFiniteSet(Waiting)
      BY <3>1, <3>2, FS_Subset
    <3>5. QED
      BY <3>1, <3>3, <3>4
  <2>2. QED
    BY <1>1, <2>1, BottomExists
<1>3. kind \in InsertKinds /\ kind \in AnomalyKinds /\ Lacking(kind) > 0
  <2>1. kind \in ToSet(Inserted) /\ Lacking(kind) > 0
    BY <1>2 DEF Waiting, ToSet
  <2> HIDE DEF kind
  <2>2. QED
    BY <2>1, KindsApart
<1>4. PICK size \in {Min({Lacking(kind), n}) : n \in Sizes[kind]}, cust \in DOMAIN Profiles :
      \E start \in Starts(kind, cust), apart \in Steps(kind, size) :
         /\ raw' = raw \o Episode(kind, cust, size, start, apart, Cardinality(Episodes(kind)))
         /\ fresh' = fresh + size
         /\ realised' = [realised EXCEPT ![kind] = @ + size]
  BY DEF InsertEpisode
<1>5. PICK start \in Starts(kind, cust), apart \in Steps(kind, size) :
         /\ raw' = raw \o Episode(kind, cust, size, start, apart, Cardinality(Episodes(kind)))
         /\ fresh' = fresh + size
         /\ realised' = [realised EXCEPT ![kind] = @ + size]
  BY <1>4
<1> HIDE DEF kind
<1>6. Lacking(kind) \in Int /\ Lacking(kind) = AnomalyQuotas(config)[kind] - realised[kind]
      /\ AnomalyQuotas(config)[kind] \in Int /\ realised[kind] \in Int
  <2>1. AnomalyQuotas(config)[kind] \in Int /\ realised[kind] \in Int
    BY <1>1, <1>3, AnomalyQuotasAreNumbers
  <2>2. QED
    BY <2>1 DEF Lacking
<1>7. size \in Nat /\ size > 0 /\ size <= Lacking(kind) /\ (kind = "repeated_transfers" => size <= 8)
  <2>1. PICK n \in Sizes[kind] : size = Min({Lacking(kind), n})
    BY <1>4
  <2>2. n \in Nat /\ n > 0 /\ (kind = "repeated_transfers" => n <= 8)
    <3>1. /\ Sizes["burst"] = 5 .. 12 /\ Sizes["abnormal_velocity"] = 15 .. 30
          /\ Sizes["repeated_transfers"] = 4 .. 8
      BY DEF Sizes
    <3>2. QED
      BY <1>3, <2>1, <3>1 DEF InsertKinds
  <2> DEFINE l == Lacking(kind)
  <2>3. l \in Int /\ l > 0 /\ size = Min({l, n})
    BY <1>3, <1>6, <2>1
  <2> HIDE DEF l
  <2>4. size \in {l, n} /\ size <= l /\ size <= n
    BY <2>2, <2>3, LesserOf
  <2>5. size <= l /\ size \in Nat /\ size > 0 /\ (kind = "repeated_transfers" => size <= 8)
    BY <2>2, <2>3, <2>4
  <2>6. QED
    BY <2>5 DEF l
<1> DEFINE number == Cardinality(Episodes(kind))
           e == Episode(kind, cust, size, start, apart, number)
<1>8. /\ Len(e) = size /\ DOMAIN e = 1 .. size
      /\ \A i \in 1 .. size :
            /\ e[i].kind = kind /\ e[i].episode = <<kind, number>> /\ e[i].cust = cust
            /\ e[i].ts <= LastTime
            /\ fresh <= e[i].cp /\ e[i].cp < fresh + size
  <2> HIDE DEF number
  <2>1. QED
    BY <1>1, <1>3, <1>7, EpisodeTells
<1>9. raw' = raw \o e
  BY <1>5
<1>10. e \in Seq(RawRow)
  <2>1. number \in Nat
    <3> DEFINE I == OfKind(raw, kind)
               f == [i \in I |-> raw[i].episode]
    <3>1. DOMAIN raw = 1 .. Len(raw) /\ Len(raw) \in Nat
      BY DEF RowsType
    <3>2. IsFiniteSet(I)
      BY <3>1, CardinalityUpTo, FS_Subset DEF OfKind
    <3>3. f \in Surjection(I, Episodes(kind))
      BY DEF Surjection, Episodes, OfKind
    <3> HIDE DEF I, f
    <3>4. QED
      BY <3>2, <3>3, FS_Surjection, FS_CardinalityType
  <2>2. kind \in ToSet(Inserted)
    BY <1>3, KindsApart
  <2> HIDE DEF number
  <2>3. QED
    BY <1>1, <1>7, <2>1, <2>2, EpisodeType
<1>11. number = Cardinality(EpisodesOf(raw, kind))
  BY DEF Episodes, EpisodesOf, OfKind
<1> HIDE DEF e, number
<1>12. /\ raw \in Seq(RawRow) /\ Len(raw) \in Nat /\ DOMAIN raw = 1 .. Len(raw)
       /\ Len(raw') = Len(raw) + size /\ DOMAIN raw' = 1 .. Len(raw) + size
       /\ \A i \in DOMAIN raw : raw'[i] = raw[i]
       /\ \A i \in DOMAIN raw' \ DOMAIN raw : i - Len(raw) \in 1 .. size /\ raw'[i] = e[i - Len(raw)]
  <2> DEFINE n == Len(raw)
             new == raw'
  <2>1. raw \in Seq(RawRow) /\ n \in Nat /\ DOMAIN raw = 1 .. n
    BY DEF RowsType
  <2>a. e \in Seq(RawRow) /\ Len(e) = size
    BY <1>8, <1>10
  <2>b. Len(raw \o e) = Len(raw) + Len(e) /\ DOMAIN (raw \o e) = 1 .. Len(raw \o e)
    BY ONLY <2>1, <2>a
  <2>2. Len(raw \o e) = n + size /\ DOMAIN (raw \o e) = 1 .. n + size
    BY <2>a, <2>b
  <2>3. \A i \in 1 .. n + size : (raw \o e)[i] = IF i <= n THEN raw[i] ELSE e[i - n]
    BY <1>8, <1>10, <2>1
  <2>4. new = raw \o e
    BY <1>9
  <2> HIDE DEF n, new
  <2>5. \A i \in DOMAIN raw : new[i] = raw[i]
    BY <1>7, <2>1, <2>3, <2>4
  <2>6. \A i \in DOMAIN new \ DOMAIN raw : i - n \in 1 .. size /\ new[i] = e[i - n]
    BY <1>7, <2>1, <2>2, <2>3, <2>4
  <2>7. QED
    BY <2>1, <2>2, <2>4, <2>5, <2>6 DEF n, new
<1>13. Inserts(raw', raw, kind, size, number, cust, fresh)
  <2>1. ASSUME NEW i \in DOMAIN raw' \ DOMAIN raw
        PROVE  /\ raw'[i].kind = kind /\ raw'[i].episode = <<kind, number>> /\ raw'[i].cust = cust
               /\ raw'[i].ts <= LastTime
               /\ fresh <= raw'[i].cp /\ raw'[i].cp < fresh + size
    <3> DEFINE j == i - Len(raw)
    <3>1. j \in 1 .. size /\ raw'[i] = e[j]
      BY <1>12
    <3> HIDE DEF j
    <3>2. QED
      BY <1>8, <3>1
  <2>2. QED
    BY <1>3, <1>7, <1>12, <2>1 DEF Inserts
<1>14. /\ normal \in Baselines /\ Len(normal) = config.n - InsertedRows(config)
       /\ AreRows(raw) /\ DrawnFirst(raw, normal, realised) /\ CountsAre(raw, realised)
       /\ WithinWindow(raw) /\ PartiesApart(raw, fresh) /\ EpisodesApart(raw)
       /\ WithinQuotas(realised, AnomalyQuotas(config), edits)
  BY DEF RawInv
<1> DEFINE counts2 == realised'
<1>15. /\ counts2[kind] = realised[kind] + size
       /\ \A k \in AnomalyKinds : k # kind => counts2[k] = realised[k]
  BY <1>1, <1>3, <1>5
<1>16. fresh' = fresh + size
  BY <1>5
<1> HIDE DEF counts2
<1>17. \A k \in InsertKinds : realised[k] \in Nat
  <2>1. \A k \in InsertKinds : Cardinality(OfKind(raw, k)) = realised[k]
    BY <1>14, KindsApart DEF CountsAre
  <2>2. \A k \in InsertKinds : IsFiniteSet(OfKind(raw, k))
    BY <1>12, CardinalityUpTo, FS_Subset DEF OfKind
  <2>3. QED
    BY <2>1, <2>2, FS_CardinalityType
<1>18. Len(normal) \in Nat
  BY <1>14, BaselineAssumption
<1>19. WithinQuotas(counts2, AnomalyQuotas(config), edits)
  <2>1. ASSUME NEW m \in 1 .. 4
        PROVE  counts2[Edited[m]] = realised[Edited[m]]
    <3>1. Edited[m] \in EditKinds /\ Edited[m] \in AnomalyKinds /\ Edited[m] # kind
      BY <1>3, KindsOfAnomaly, KindsApart DEF EditKinds
    <3>2. QED
      BY <1>15, <3>1
  <2>2. ASSUME NEW k \in InsertKinds PROVE counts2[k] <= AnomalyQuotas(config)[k]
    <3>1. CASE k = kind
      BY <1>6, <1>7, <1>15, <3>1
    <3>2. CASE k # kind
      <4>1. k \in AnomalyKinds
        BY KindsApart
      <4>2. counts2[k] = realised[k]
        BY <1>15, <3>2, <4>1
      <4>3. QED
        BY <1>14, <4>2 DEF WithinQuotas
    <3>3. QED
      BY <3>1, <3>2
  <2>3. QED
    BY <1>14, <2>1, <2>2 DEF WithinQuotas
<1>20. DrawnFirst(raw', normal, counts2)
  BY <1>13, <1>14, <1>15, <1>17, <1>18, InsertsKeepFirst
<1>21. CountsAre(raw', counts2)
  BY <1>13, <1>14, <1>15, InsertsCount
<1>22. WithinWindow(raw')
  BY <1>13, <1>14, InsertsStayWithin
<1>23. PartiesApart(raw', fresh')
  BY <1>1, <1>13, <1>14, <1>16, InsertsKeepParties
<1>24. EpisodesApart(raw')
  BY <1>11, <1>13, <1>14, InsertsKeepEpisodes
<1>25. InsertedRows(config') = InsertedRows(config) /\ AnomalyQuotas(config') = AnomalyQuotas(config)
  BY <1>1
<1>26. QED
  BY <1>1, <1>14, <1>19, <1>20, <1>21, <1>22, <1>23, <1>24, <1>25 DEF RawInv, counts2

RowsOf(list, K) == {i \in DOMAIN list : list[i].kind \in K}

\* As many rows are of some kinds when they are in another order.
LEMMA PlacedCount ==
    ASSUME NEW s, NEW list, NEW place, Rearranges(place, s, list, DOMAIN list), IsFiniteSet(DOMAIN list), NEW K
    PROVE  Cardinality(RowsOf(s, K)) = Cardinality(RowsOf(list, K))
<1> DEFINE A == RowsOf(s, K)
           B == RowsOf(list, K)
           f == [p \in A |-> place[p]]
<1>1. \A p \in A : place[p] \in B
  BY DEF Rearranges, RowsOf
<1>2. \A p, q \in A : place[p] = place[q] => p = q
  BY DEF Rearranges, RowsOf
<1>3. \A i \in B : \E p \in A : place[p] = i
  BY DEF Rearranges, RowsOf
<1>4. IsFiniteSet(B)
  BY FS_Subset DEF RowsOf
<1> HIDE DEF A, B
<1>5. f \in Injection(A, B) /\ f \in Surjection(A, B)
  BY <1>1, <1>2, <1>3 DEF Injection, Surjection, IsInjective
<1> HIDE DEF f
<1>6. Cardinality(A) = Cardinality(B)
  BY <1>4, <1>5, FS_Injection
<1>7. QED
  BY <1>6 DEF A, B

LEMMA InsertedAddUp ==
    ASSUME NEW q, \A k \in InsertKinds : q[k] \in Int
    PROVE  SumFunctionOnSet(q, ToSet(Inserted)) = q["burst"] + q["abnormal_velocity"] + q["repeated_transfers"]
<1> DEFINE A == {"burst", "abnormal_velocity", "repeated_transfers"}
           B == {"abnormal_velocity", "repeated_transfers"}
           C == {"repeated_transfers"}
<1>1. ToSet(Inserted) = A
  BY KindsApart DEF InsertKinds
<1>2. IsFiniteSet(C) /\ IsFiniteSet(B) /\ IsFiniteSet(A)
  <2>1. IsFiniteSet(C)
    BY FS_Singleton
  <2>2. IsFiniteSet(C \cup {"abnormal_velocity"})
    BY <2>1, FS_AddElement
  <2>3. B = C \cup {"abnormal_velocity"} /\ A = B \cup {"burst"}
    OBVIOUS
  <2>4. IsFiniteSet(B)
    BY <2>2, <2>3
  <2>5. IsFiniteSet(B \cup {"burst"})
    BY <2>4, FS_AddElement
  <2>6. QED
    BY <2>1, <2>3, <2>4, <2>5
<1>3. Numbers(q, A) /\ Numbers(q, B) /\ Numbers(q, C)
  BY DEF Numbers, InsertKinds
<1>4. A \ {"burst"} = B /\ B \ {"abnormal_velocity"} = C /\ C \ {"repeated_transfers"} = {}
  OBVIOUS
<1>5. "burst" \in A /\ "abnormal_velocity" \in B /\ "repeated_transfers" \in C
  OBVIOUS
<1> HIDE DEF A, B, C
<1>6. SumFunctionOnSet(q, A) = q["burst"] + SumFunctionOnSet(q, B)
  BY <1>2, <1>3, <1>4, <1>5, SumTakesOut
<1>7. SumFunctionOnSet(q, B) = q["abnormal_velocity"] + SumFunctionOnSet(q, C)
  BY <1>2, <1>3, <1>4, <1>5, SumTakesOut
<1>8. SumFunctionOnSet(q, C) = q["repeated_transfers"] + 0
  BY <1>2, <1>3, <1>4, <1>5, SumTakesOut, SumOfNone
<1>9. q["burst"] \in Int /\ q["abnormal_velocity"] \in Int /\ q["repeated_transfers"] \in Int
  BY DEF InsertKinds
<1>10. QED
  BY <1>1, <1>6, <1>7, <1>8, <1>9

\* The table and its labels list the rows that were made, when all are made.
IsMaterialized ==
    /\ edits = 4 /\ Waiting = {}
    /\ transactions = [p \in DOMAIN Chronological(raw) |-> WithIds(Chronological(raw)[p], p)]
    /\ transaction_labels = [p \in DOMAIN Chronological(raw) |-> LabelOf(Chronological(raw)[p], p)]

\* What comes of the injection: as many rows as there are to be.
LEMMA CountsReached ==
    ASSUME RowsType, RawInv, edits = 4, Waiting = {}
    PROVE  /\ Len(raw) = config.n /\ Len(raw) \in Nat /\ Len(normal) \in Nat
           /\ \A k \in AnomalyKinds : realised[k] <= AnomalyQuotas(config)[k]
           /\ \A k \in InsertKinds : realised[k] = AnomalyQuotas(config)[k]
<1>1. /\ config \in Configs /\ realised \in [AnomalyKinds -> Int] /\ raw \in Seq(RawRow)
      /\ AnomalyQuotas(config) \in [AnomalyKinds -> Int]
  BY AnomalyQuotasAreNumbers DEF RowsType
<1>2. /\ WithinQuotas(realised, AnomalyQuotas(config), edits) /\ DrawnFirst(raw, normal, realised)
      /\ Len(normal) = config.n - InsertedRows(config) /\ normal \in Baselines
  BY DEF RawInv
<1>3. ASSUME NEW k \in InsertKinds PROVE realised[k] = AnomalyQuotas(config)[k] /\ realised[k] \in Int
  <2>1. PICK m \in DOMAIN Inserted : Inserted[m] = k
    BY KindsApart DEF ToSet
  <2>2. ~(Lacking(k) > 0)
    BY <2>1 DEF Waiting
  <2>3. realised[k] <= AnomalyQuotas(config)[k]
    BY <1>2 DEF WithinQuotas
  <2>4. realised[k] \in Int /\ AnomalyQuotas(config)[k] \in Int
    BY <1>1, KindsApart
  <2>5. QED
    BY <2>2, <2>3, <2>4 DEF Lacking
<1>4. ASSUME NEW k \in AnomalyKinds PROVE realised[k] <= AnomalyQuotas(config)[k]
  <2>1. CASE k \in InsertKinds
    BY <1>2, <2>1 DEF WithinQuotas
  <2>2. CASE k \in EditKinds
    <3>1. PICK m \in 1 .. 4 : Edited[m] = k
      BY <2>2, KindsApart, KindsOfAnomaly DEF ToSet
    <3>2. m <= edits
      OBVIOUS
    <3>3. QED
      BY <1>2, <3>1, <3>2 DEF WithinQuotas
  <2>3. QED
    BY <2>1, <2>2, KindsApart
<1>5. Len(normal) \in Nat /\ Len(raw) \in Nat
  BY <1>1, <1>2, BaselineAssumption
<1>6. InsertedRows(config) = realised["burst"] + realised["abnormal_velocity"] + realised["repeated_transfers"]
  <2> DEFINE q == AnomalyQuotas(config)
  <2>1. \A k \in InsertKinds : q[k] \in Int /\ q[k] = realised[k]
    BY <1>3
  <2>2. InsertedRows(config) = SumFunctionOnSet(q, ToSet(Inserted))
    BY DEF InsertedRows
  <2> HIDE DEF q
  <2>3. InsertedRows(config) = q["burst"] + q["abnormal_velocity"] + q["repeated_transfers"]
    BY <2>1, <2>2, InsertedAddUp
  <2>4. q["burst"] = realised["burst"] /\ q["abnormal_velocity"] = realised["abnormal_velocity"]
        /\ q["repeated_transfers"] = realised["repeated_transfers"]
    BY <2>1 DEF InsertKinds
  <2>5. QED
    BY ONLY <2>3, <2>4
<1>7. config.n \in Nat
  BY <1>1, IdsAssumption
<1>8. Len(raw) = Len(normal) + realised["burst"] + realised["abnormal_velocity"] + realised["repeated_transfers"]
  BY <1>2 DEF DrawnFirst
<1>9. Len(raw) = config.n
  <2> DEFINE a == realised["burst"]
             b == realised["abnormal_velocity"]
             c == realised["repeated_transfers"]
             l == Len(normal)
             i == InsertedRows(config)
             n == config.n
  <2>1. a \in Int /\ b \in Int /\ c \in Int
    BY <1>3 DEF InsertKinds
  <2>2. l = n - i /\ i = a + b + c /\ n \in Nat /\ Len(raw) = l + a + b + c
    BY <1>2, <1>6, <1>7, <1>8
  <2> HIDE DEF a, b, c, l, i, n
  <2>3. Len(raw) = n
    BY ONLY <2>1, <2>2
  <2>4. QED
    BY <2>3 DEF n
<1>10. QED
  BY <1>3, <1>4, <1>5, <1>9

\* A row of the table and its label tell what the row was.
Lists(s, place) ==
    /\ Len(s) = Len(raw) /\ DOMAIN s = 1 .. Len(raw) /\ Rearranges(place, s, raw, DOMAIN raw)
    /\ \A p, q \in DOMAIN s : p < q => s[p].ts <= s[q].ts
    /\ Len(transactions) = Len(s) /\ DOMAIN transactions = DOMAIN s /\ DOMAIN transaction_labels = DOMAIN s
    /\ \A p \in DOMAIN s :
          /\ s[p] \in RawRow
          /\ transactions[p].id = TxId(p) /\ transactions[p].cust = s[p].cust
          /\ transactions[p].time = s[p].ts /\ transactions[p].party = s[p].cp
          /\ Plainly(p) = Public(s[p])
          /\ transaction_labels[p].id = TxId(p) /\ transaction_labels[p].kind = s[p].kind
          /\ transaction_labels[p].episode = s[p].episode

LEMMA RowIsPublic ==
    ASSUME NEW r, NEW p
    PROVE  LET g == Public(r)
               t == WithIds(r, p)
               l == LabelOf(r, p)
           IN  /\ g.cust = r.cust /\ g.time = r.ts /\ g.party = r.cp
               /\ t.id = TxId(p) /\ t.cust = r.cust /\ t.time = r.ts /\ t.party = r.cp
               /\ [cust |-> t.cust, time |-> t.time, amount |-> t.amount,
                   currency |-> t.currency, party |-> t.party, country |-> t.country] = g
               /\ l.id = TxId(p) /\ l.kind = r.kind /\ l.episode = r.episode
<1> DEFINE g == Public(r)
           t == WithIds(r, p)
           amount == 10 * Max({100, r.amount})
           currency == Profiles[r.cust].currency
<1>1. g = [cust |-> r.cust, time |-> r.ts, amount |-> amount, currency |-> currency,
           party |-> r.cp, country |-> r.country]
  BY DEF Public
<1>2. t = [id |-> TxId(p), reference |-> TxId(p), cust |-> g.cust, time |-> g.time, amount |-> g.amount,
           currency |-> g.currency, party |-> g.party, country |-> g.country]
  BY DEF WithIds
<1>3. LET l == LabelOf(r, p) IN l.id = TxId(p) /\ l.kind = r.kind /\ l.episode = r.episode
  BY DEF LabelOf
<1> HIDE DEF g, t, amount, currency
<1>4. g.cust = r.cust /\ g.time = r.ts /\ g.party = r.cp
  BY <1>1
<1>5. /\ t.id = TxId(p) /\ t.cust = g.cust /\ t.time = g.time /\ t.amount = g.amount
      /\ t.currency = g.currency /\ t.party = g.party /\ t.country = g.country
  BY <1>2
<1>6. [cust |-> g.cust, time |-> g.time, amount |-> g.amount,
       currency |-> g.currency, party |-> g.party, country |-> g.country] = g
  BY <1>1
<1>7. [cust |-> t.cust, time |-> t.time, amount |-> t.amount,
       currency |-> t.currency, party |-> t.party, country |-> t.country] = g
  BY <1>5, <1>6
<1>8. QED
  BY <1>3, <1>4, <1>5, <1>7 DEF g, t

LEMMA TableLists ==
    ASSUME RowsType, IsMaterialized
    PROVE  \E s, place : Lists(s, place)
<1> DEFINE s == Chronological(raw)
<1>1. /\ raw \in Seq(RawRow)
      /\ transactions = [p \in DOMAIN s |-> WithIds(s[p], p)]
      /\ transaction_labels = [p \in DOMAIN s |-> LabelOf(s[p], p)]
  BY DEF RowsType, IsMaterialized
<1>2. /\ s \in Seq(RawRow) /\ Len(s) = Len(raw)
      /\ \E place : Rearranges(place, s, raw, DOMAIN raw)
      /\ \A p, q \in DOMAIN s : p < q => s[p].ts <= s[q].ts
  BY <1>1, SortedOnce
<1> HIDE DEF s
<1>3. PICK place : Rearranges(place, s, raw, DOMAIN raw)
  BY <1>2
<1>4. DOMAIN s = 1 .. Len(raw) /\ Len(raw) \in Nat /\ \A p \in DOMAIN s : s[p] \in RawRow
  BY <1>1, <1>2
<1>5. /\ Len(transactions) = Len(s) /\ DOMAIN transactions = DOMAIN s /\ DOMAIN transaction_labels = DOMAIN s
      /\ \A p \in DOMAIN s : transactions[p] = WithIds(s[p], p) /\ transaction_labels[p] = LabelOf(s[p], p)
  BY <1>1, <1>2, <1>4
<1>6. ASSUME NEW p \in DOMAIN s
      PROVE  /\ transactions[p].id = TxId(p) /\ transactions[p].cust = s[p].cust
             /\ transactions[p].time = s[p].ts /\ transactions[p].party = s[p].cp
             /\ Plainly(p) = Public(s[p])
             /\ transaction_labels[p].id = TxId(p) /\ transaction_labels[p].kind = s[p].kind
             /\ transaction_labels[p].episode = s[p].episode
  <2> DEFINE r == s[p]
             g == Public(r)
             t == WithIds(r, p)
             l == LabelOf(r, p)
  <2>1. transactions[p] = t /\ transaction_labels[p] = l
    BY <1>5
  <2>2. /\ t.id = TxId(p) /\ t.cust = r.cust /\ t.time = r.ts /\ t.party = r.cp
        /\ [cust |-> t.cust, time |-> t.time, amount |-> t.amount,
            currency |-> t.currency, party |-> t.party, country |-> t.country] = g
        /\ l.id = TxId(p) /\ l.kind = r.kind /\ l.episode = r.episode
    BY RowIsPublic
  <2> HIDE DEF r, g, t, l
  <2>3. Plainly(p) = g
    BY <2>1, <2>2 DEF Plainly
  <2>4. QED
    BY <2>1, <2>2, <2>3 DEF r, g
<1>7. Lists(s, place)
  BY <1>2, <1>3, <1>4, <1>5, <1>6 DEF Lists
<1>8. QED
  BY <1>7

LEMMA TableIsValid ==
    ASSUME RowsType, RawInv, IsMaterialized
    PROVE  TransactionErrors = {}
<1>1. PICK s, place : Lists(s, place)
  BY TableLists
<1>2. Len(raw) = config.n /\ Len(raw) \in Nat /\ config \in Configs
  BY CountsReached DEF IsMaterialized, RowsType
<1>3. WithinWindow(raw)
  BY DEF RawInv
<1> DEFINE t == transactions
           D == DOMAIN transactions
<1>4. /\ D = 1 .. config.n /\ Len(t) = config.n /\ D = DOMAIN s /\ D = DOMAIN transaction_labels
      /\ config.n \in Nat
  BY <1>1, <1>2 DEF Lists
<1>5. \A p \in D : /\ t[p].id = TxId(p) /\ t[p].cust = s[p].cust /\ t[p].time = s[p].ts
                   /\ transaction_labels[p].id = TxId(p) /\ transaction_labels[p].kind = s[p].kind
                   /\ s[p] \in RawRow /\ place[p] \in DOMAIN raw /\ s[p] = raw[place[p]]
  BY <1>1, <1>4 DEF Lists, Rearranges
<1>6. \A p, q \in D : t[p].id = t[q].id => p = q
  BY <1>2, <1>4, <1>5, IdsAssumption
<1>7. \A p \in D : t[p].cust \in DOMAIN Profiles
  BY <1>5, RowTells
<1>8. ASSUME NEW p \in D PROVE t[p].time \in 0 .. (WindowDays + 1) * Day - 1
  <2>1. s[p].ts \in Nat /\ s[p].ts <= LastTime
    BY <1>3, <1>5, RowTells DEF WithinWindow
  <2>2. t[p].time \in 0 .. LastTime
    BY <1>5, <2>1, LastTimeIs
  <2>3. QED
    BY <2>2 DEF LastTime
<1>9. ASSUME NEW p \in 1 .. Len(t) - 1 PROVE ~(t[p].time > t[p + 1].time)
  <2>1. p \in D /\ p + 1 \in D /\ p < p + 1
    BY <1>4
  <2>2. s[p].ts <= s[p + 1].ts /\ s[p].ts \in Int /\ s[p + 1].ts \in Int
    BY <1>1, <1>4, <1>5, <2>1, RowTells DEF Lists
  <2>3. t[p].time = s[p].ts /\ t[p + 1].time = s[p + 1].ts
    BY <1>5, <2>1
  <2>4. QED
    BY <2>2, <2>3
<1>10. {l.id : l \in ToSet(transaction_labels)} = {x.id : x \in ToSet(t)}
  <2>1. /\ ToSet(transaction_labels) = {transaction_labels[p] : p \in D}
        /\ ToSet(t) = {t[p] : p \in D}
    BY <1>4 DEF ToSet
  <2>2. \A p \in D : transaction_labels[p].id = t[p].id
    BY <1>5
  <2> HIDE DEF t, D
  <2>3. QED
    BY <2>1, <2>2
<1>11. \A l \in ToSet(transaction_labels) : l.kind \in AnomalyKinds \cup {NoAnomaly}
  <2>1. ToSet(transaction_labels) = {transaction_labels[p] : p \in D}
    BY <1>4 DEF ToSet
  <2>2. \A p \in D : transaction_labels[p].kind \in AnomalyKinds \cup {NoAnomaly}
    BY <1>5, RowTells
  <2> HIDE DEF D
  <2>3. QED
    BY <2>1, <2>2
<1> HIDE DEF t, D
<1>12. ASSUME NEW e \in {"not unique", "count", "customers", "window", "not sorted", "labels", "kinds"},
              CASE e = "not unique" -> \E p, q \in D : p # q /\ t[p].id = t[q].id
                [] e = "count"      -> Len(t) # config.n
                [] e = "customers"  -> \E p \in D : t[p].cust \notin DOMAIN Profiles
                [] e = "window"     -> \E p \in D : t[p].time \notin 0 .. (WindowDays + 1) * Day - 1
                [] e = "not sorted" -> \E p \in 1 .. Len(t) - 1 : t[p].time > t[p + 1].time
                [] e = "labels"     -> {l.id : l \in ToSet(transaction_labels)} # {x.id : x \in ToSet(t)}
                [] e = "kinds"      -> \E l \in ToSet(transaction_labels) : l.kind \notin AnomalyKinds \cup {NoAnomaly}
       PROVE  FALSE
  <2>1. CASE e = "not unique"
    BY <1>6, <1>12, <2>1
  <2>2. CASE e = "count"
    BY <1>4, <1>12, <2>2
  <2>3. CASE e = "customers"
    BY <1>7, <1>12, <2>3
  <2>4. CASE e = "window"
    BY <1>8, <1>12, <2>4
  <2>5. CASE e = "not sorted"
    BY <1>9, <1>12, <2>5
  <2>6. CASE e = "labels"
    BY <1>10, <1>12, <2>6
  <2>7. CASE e = "kinds"
    BY <1>11, <1>12, <2>7
  <2>8. QED
    BY <1>12, <2>1, <2>2, <2>3, <2>4, <2>5, <2>6, <2>7
<1>13. QED
  BY <1>12 DEF TransactionErrors, t, D

LEMMA LabelsAreCounted ==
    ASSUME RowsType, RawInv, IsMaterialized
    PROVE  LabelsCount
<1>1. PICK s, place : Lists(s, place)
  BY TableLists
<1>2. /\ Len(raw) = config.n /\ Len(raw) \in Nat /\ Len(normal) \in Nat
      /\ \A k \in AnomalyKinds : realised[k] <= AnomalyQuotas(config)[k]
      /\ \A k \in InsertKinds : realised[k] = AnomalyQuotas(config)[k]
  BY CountsReached DEF IsMaterialized
<1>3. /\ DrawnFirst(raw, normal, realised) /\ CountsAre(raw, realised) /\ AreRows(raw)
      /\ normal \in Baselines
  BY DEF RawInv
<1>4. IsFiniteSet(DOMAIN raw) /\ DOMAIN raw = 1 .. Len(raw)
  BY <1>2, <1>3, CardinalityUpTo DEF AreRows
<1>5. /\ Rearranges(place, s, raw, DOMAIN raw)
      /\ DOMAIN transactions = DOMAIN s /\ DOMAIN transaction_labels = DOMAIN s
      /\ \A p \in DOMAIN s : transaction_labels[p].kind = s[p].kind /\ Plainly(p) = Public(s[p])
  BY <1>1 DEF Lists
<1>6. ASSUME NEW K
      PROVE  Labelled_as(K) = RowsOf(s, K) /\ Cardinality(Labelled_as(K)) = Cardinality(RowsOf(raw, K))
  <2>1. Labelled_as(K) = RowsOf(s, K)
    BY <1>5 DEF Labelled_as, RowsOf
  <2>2. Cardinality(RowsOf(s, K)) = Cardinality(RowsOf(raw, K))
    BY <1>4, <1>5, PlacedCount
  <2>3. QED
    BY <2>1, <2>2
<1>7. ASSUME NEW k \in AnomalyKinds PROVE Cardinality(Labelled_as({k})) = realised[k]
  <2>1. RowsOf(raw, {k}) = OfKind(raw, k)
    BY DEF OfKind, RowsOf
  <2>2. Cardinality(OfKind(raw, k)) = realised[k]
    BY <1>3 DEF CountsAre
  <2>3. QED
    BY <1>6, <2>1, <2>2
<1>8. Cardinality(Labelled_as({NoAnomaly} \cup ToSet(Edited))) = Len(normal)
  <2> DEFINE K == {NoAnomaly} \cup EditKinds
             I == RowsOf(raw, K)
             n == Len(normal)
  <2>1. ToSet(Edited) = EditKinds
    BY KindsApart
  <2>2. \A i \in DOMAIN raw : i <= n <=> raw[i].kind \in K
    BY <1>3 DEF DrawnFirst
  <2>3. n <= Len(raw)
    <3>1. \A k \in InsertKinds : realised[k] \in Nat
      <4>1. \A k \in InsertKinds : Cardinality(OfKind(raw, k)) = realised[k]
        BY <1>3, KindsApart DEF CountsAre
      <4>2. \A k \in InsertKinds : IsFiniteSet(OfKind(raw, k))
        BY <1>4, FS_Subset DEF OfKind
      <4>3. QED
        BY <4>1, <4>2, FS_CardinalityType
    <3> DEFINE a == realised["burst"]
               b == realised["abnormal_velocity"]
               c == realised["repeated_transfers"]
    <3>2. a \in Nat /\ b \in Nat /\ c \in Nat
      BY <3>1 DEF InsertKinds
    <3>3. Len(raw) = n + a + b + c
      BY <1>3 DEF DrawnFirst
    <3> HIDE DEF n, a, b, c
    <3>4. n \in Nat
      BY <1>2 DEF n
    <3>5. QED
      BY ONLY <3>2, <3>3, <3>4
  <2> HIDE DEF K, n
  <2>4. I = 1 .. n
    <3>1. n \in Nat /\ Len(raw) \in Nat
      BY <1>2 DEF n
    <3>2. QED
      BY <1>4, <2>2, <2>3, <3>1 DEF RowsOf
  <2>5. Cardinality(1 .. n) = n
    BY <1>2, CardinalityUpTo DEF n
  <2>6. Cardinality(Labelled_as(K)) = Cardinality(I)
    BY <1>6
  <2>7. QED
    BY <2>1, <2>4, <2>5, <2>6 DEF K, n
<1> DEFINE drawn == [i \in DOMAIN normal |-> Public(normal[i])]
           same(p) == {q \in Labelled_as({NoAnomaly}) : Plainly(q) = Plainly(p)}
<1>9. ASSUME NEW p \in Labelled_as({NoAnomaly}) PROVE Cardinality(same(p)) <= Copies(Plainly(p), drawn)
  <2> DEFINE g == Plainly(p)
             A == same(p)
             B == {i \in DOMAIN drawn : drawn[i] = g}
             f == [q \in A |-> place[q]]
  <2>1. DOMAIN normal = 1 .. Len(normal) /\ DOMAIN drawn = 1 .. Len(normal)
    BY <1>3, BaselineAssumption
  <2>2. IsFiniteSet(B)
    BY <1>2, <2>1, CardinalityUpTo, FS_Subset
  <2>3. ASSUME NEW q \in A PROVE place[q] \in B
    <3>1. q \in DOMAIN s /\ s[q].kind = NoAnomaly /\ Plainly(q) = g
      <4>1. q \in Labelled_as({NoAnomaly}) /\ Plainly(q) = g
        OBVIOUS
      <4>2. Labelled_as({NoAnomaly}) = RowsOf(s, {NoAnomaly})
        BY <1>6
      <4>3. QED
        BY <4>1, <4>2 DEF RowsOf
    <3>2. place[q] \in DOMAIN raw /\ s[q] = raw[place[q]]
      BY <1>5, <3>1 DEF Rearranges
    <3>3. place[q] <= Len(normal) /\ raw[place[q]] = normal[place[q]]
      BY <1>3, <3>1, <3>2 DEF DrawnFirst
    <3>4. place[q] \in DOMAIN normal
      BY <1>2, <1>4, <2>1, <3>2, <3>3
    <3>5. Public(normal[place[q]]) = g
      BY <1>5, <3>1, <3>2, <3>3
    <3> HIDE DEF g
    <3>6. QED
      BY <3>4, <3>5
  <2>4. \A q, r \in A : place[q] = place[r] => q = r
    <3>1. \A q \in A : q \in DOMAIN s
      <4>1. Labelled_as({NoAnomaly}) = RowsOf(s, {NoAnomaly})
        BY <1>6
      <4>2. QED
        BY <4>1 DEF RowsOf
    <3>2. QED
      BY <1>5, <3>1 DEF Rearranges
  <2>5. Copies(Plainly(p), drawn) = Cardinality(B)
    BY DEF Copies
  <2> HIDE DEF A, B
  <2>6. f \in Injection(A, B)
    BY <2>3, <2>4 DEF Injection, IsInjective
  <2> HIDE DEF f
  <2>7. Cardinality(A) <= Cardinality(B)
    BY <2>2, <2>6, FS_Injection
  <2>8. QED
    BY <2>5, <2>7 DEF A
<1>10. \A k \in AnomalyKinds : Cardinality(Labelled_as({k})) = realised[k] /\ realised[k] <= AnomalyQuotas(config)[k]
  BY <1>2, <1>7
<1>11. \A k \in ToSet(Inserted) : realised[k] = AnomalyQuotas(config)[k]
  BY <1>2, KindsApart
<1>12. \A p \in Labelled_as({NoAnomaly}) : Cardinality(same(p)) <= Copies(Plainly(p), drawn)
  BY <1>9
<1>13. QED
  BY <1>8, <1>10, <1>11, <1>12, Zenon DEF LabelsCount

\* The number of an episode tells its kind.
LEMMA EpisodesTellKinds ==
    ASSUME NEW list, EpisodesApart(list), NEW i \in DOMAIN list
    PROVE  /\ list[i].kind \in InsertKinds => \E m : list[i].episode = <<list[i].kind, m>>
           /\ list[i].episode = NoEpisode <=> list[i].kind \notin InsertKinds
<1>1. CASE list[i].kind \in InsertKinds
  <2> DEFINE k == list[i].kind
  <2>1. list[i].episode \in EpisodesOf(list, k)
    BY DEF EpisodesOf, OfKind
  <2>2. PICK c \in Nat : EpisodesOf(list, k) = Numbered(k, c)
    BY <1>1 DEF EpisodesApart
  <2>3. PICK m : list[i].episode = <<k, m>>
    BY <2>1, <2>2 DEF Numbered
  <2>4. list[i].episode # NoEpisode
    BY <2>3, LabelsDiffer
  <2>5. QED
    BY <1>1, <2>3, <2>4
<1>2. CASE list[i].kind \notin InsertKinds
  BY <1>2 DEF EpisodesApart
<1>3. QED
  BY <1>1, <1>2

LEMMA NewPartiesAreNew ==
    ASSUME RowsType, RawInv, IsMaterialized
    PROVE  NewIsNew
<1>1. PICK s, place : Lists(s, place)
  BY TableLists
<1>2. PartiesApart(raw, fresh) /\ EpisodesApart(raw)
  BY DEF RawInv
<1>3. ToSet(Inserted) = InsertKinds /\ {"new_counterparty"} \cup ToSet(Inserted) = NewKinds
  BY KindsApart DEF NewKinds
<1>4. DOMAIN transactions = DOMAIN s
  BY <1>1 DEF Lists
<1>5. ASSUME NEW p \in DOMAIN s
      PROVE  /\ place[p] \in DOMAIN raw /\ s[p] = raw[place[p]]
             /\ transactions[p].party = s[p].cp /\ transactions[p].cust = s[p].cust
             /\ transaction_labels[p].kind = s[p].kind /\ transaction_labels[p].episode = s[p].episode
             /\ s[p].kind \in InsertKinds => \E m : s[p].episode = <<s[p].kind, m>>
             /\ s[p].episode = NoEpisode <=> s[p].kind \notin InsertKinds
  <2>1. /\ place[p] \in DOMAIN raw /\ s[p] = raw[place[p]]
        /\ transactions[p].party = s[p].cp /\ transactions[p].cust = s[p].cust
        /\ transaction_labels[p].kind = s[p].kind /\ transaction_labels[p].episode = s[p].episode
    BY <1>1 DEF Lists, Rearranges
  <2>2. /\ raw[place[p]].kind \in InsertKinds => \E m : raw[place[p]].episode = <<raw[place[p]].kind, m>>
        /\ raw[place[p]].episode = NoEpisode <=> raw[place[p]].kind \notin InsertKinds
    BY <1>2, <2>1, EpisodesTellKinds
  <2>3. QED
    BY <2>1, <2>2
<1>6. ASSUME NEW p \in DOMAIN s, NEW q \in DOMAIN s, s[p].kind \in NewKinds, s[p].cp = s[q].cp
      PROVE  p = q \/ (s[p].episode # NoEpisode /\ s[p].episode = s[q].episode)
  <2>1. place[p] \in DOMAIN raw /\ place[q] \in DOMAIN raw /\ s[p] = raw[place[p]] /\ s[q] = raw[place[q]]
    BY <1>5
  <2>2. \/ place[p] = place[q]
        \/ raw[place[p]].episode # NoEpisode /\ raw[place[p]].episode = raw[place[q]].episode
    BY <1>2, <1>6, <2>1 DEF PartiesApart
  <2>3. place[p] = place[q] => p = q
    BY <1>1 DEF Lists, Rearranges
  <2>4. QED
    BY <2>1, <2>2, <2>3
<1>7. ASSUME NEW p \in DOMAIN s, NEW q \in DOMAIN s, s[p].episode # NoEpisode, s[p].episode = s[q].episode
      PROVE  s[p].kind = s[q].kind /\ s[p].cust = s[q].cust
  <2>1. s[p].kind \in InsertKinds /\ s[q].kind \in InsertKinds
    BY <1>5, <1>7
  <2>2. PICK m : s[p].episode = <<s[p].kind, m>>
    BY <1>5, <2>1
  <2>3. PICK n : s[q].episode = <<s[q].kind, n>>
    BY <1>5, <2>1
  <2>4. <<s[p].kind, m>> = <<s[q].kind, n>>
    BY <1>7, <2>2, <2>3
  <2>5. s[p].kind = s[q].kind
    BY <2>4
  <2>6. place[p] \in DOMAIN raw /\ place[q] \in DOMAIN raw /\ s[p] = raw[place[p]] /\ s[q] = raw[place[q]]
    BY <1>5
  <2>7. raw[place[p]].cust = raw[place[q]].cust
    BY <1>2, <1>7, <2>1, <2>6 DEF EpisodesApart
  <2>8. QED
    BY <2>5, <2>6, <2>7
<1>8. ASSUME NEW p \in Labelled_as({"new_counterparty"} \cup ToSet(Inserted)), NEW q \in DOMAIN transactions
      PROVE  LET l == transaction_labels[p]
                 m == transaction_labels[q]
             IN  /\ transactions[p].party = transactions[q].party =>
                       p = q \/ (l.episode # NoEpisode /\ l.episode = m.episode)
                 /\ l.episode # NoEpisode /\ l.episode = m.episode =>
                       l.kind = m.kind /\ transactions[p].cust = transactions[q].cust
                 /\ (l.episode = NoEpisode) = (l.kind \notin ToSet(Inserted))
  <2>1. p \in DOMAIN s /\ q \in DOMAIN s /\ s[p].kind \in NewKinds
    BY <1>3, <1>4, <1>5, <1>8 DEF Labelled_as
  <2>2. transactions[p].party = transactions[q].party =>
           p = q \/ (s[p].episode # NoEpisode /\ s[p].episode = s[q].episode)
    BY <1>5, <1>6, <2>1
  <2>3. s[p].episode # NoEpisode /\ s[p].episode = s[q].episode =>
           s[p].kind = s[q].kind /\ transactions[p].cust = transactions[q].cust
    BY <1>5, <1>7, <2>1
  <2>4. s[p].episode = NoEpisode <=> s[p].kind \notin ToSet(Inserted)
    BY <1>3, <1>5, <2>1
  <2>5. /\ transaction_labels[p].kind = s[p].kind /\ transaction_labels[p].episode = s[p].episode
        /\ transaction_labels[q].kind = s[q].kind /\ transaction_labels[q].episode = s[q].episode
    BY <1>5, <2>1
  <2>6. QED
    BY <2>2, <2>3, <2>4, <2>5
<1>9. QED
  BY <1>8, Zenon DEF NewIsNew

-----------------------------------------------------------------------------
(* What the labels of the ledger say.                                      *)

LEMMA SecondOfTwo ==
    ASSUME NEW S, NEW c \in Seq(S), Len(c) = 2
    PROVE  c # <<>> /\ Tail(c)[1] = c[2]
<1>1. DOMAIN c = 1 .. 2
  OBVIOUS
<1>2. c # <<>>
  <2>1. 1 \in DOMAIN c
    BY <1>1
  <2>2. DOMAIN <<>> = {}
    OBVIOUS
  <2>3. QED
    BY <2>1, <2>2, Zenon
<1>3. Tail(c)[1] = c[1 + 1]
  BY <1>2
<1>4. QED
  BY <1>2, <1>3

\* Of two postings the later one is the extra one.
LEMMA SecondIsExtra ==
    ASSUME NEW tx, NEW records, Ledger(records), NEW j, NEW k, j # k, Of(tx, records) = {j, k},
           Earlier(records[j], records[k])
    PROVE  Match(tx, records).extras[1] = records[k]
<1> DEFINE I == Of(tx, records)
           key == [i \in I |-> Cardinality(Ahead(tx, records, i))]
           c == Candidates(tx, records)
<1>1. /\ records \in Seq(LedgerRecord) /\ I \in SUBSET DOMAIN records
      /\ \A m, n \in DOMAIN records : records[m].id = records[n].id => m = n
  BY DEF Ledger, Of
<1>2. IsFiniteSet(I) /\ Cardinality(I) \in Nat /\ c \in Seq(LedgerRecord) /\ Len(c) = Cardinality(I)
  BY FirstCandidate
<1>3. PICK i \in I : c[1] = records[i] /\ \A m \in I : ~Earlier(records[m], records[i])
  BY FirstCandidate
<1>4. key \in [I -> Int]
  <2>1. \A n \in I : Ahead(tx, records, n) \in SUBSET I
    BY DEF Ahead
  <2>2. \A n \in I : Cardinality(Ahead(tx, records, n)) \in Int
    <3> SUFFICES ASSUME NEW n \in I PROVE Cardinality(Ahead(tx, records, n)) \in Int
      OBVIOUS
    <3>1. IsFiniteSet(Ahead(tx, records, n))
      BY <1>2, <2>1, FS_Subset
    <3>2. QED
      BY <3>1, FS_CardinalityType
  <2>3. QED
    BY <2>2
<1>5. c = Pick(records, I, key)
  BY DEF Candidates
<1>6. Match(tx, records).extras = IF c = <<>> THEN <<>> ELSE Tail(c)
  BY DEF Match
<1>7. j \in I /\ k \in I /\ I = {j, k}
  OBVIOUS
<1>8. Cardinality(I) = 2
  <2>1. IsFiniteSet({j}) /\ Cardinality({j}) = 1
    BY FS_Singleton
  <2>2. Cardinality({j} \cup {k}) = Cardinality({j}) + 1
    BY <2>1, FS_AddElement
  <2>3. {j} \cup {k} = I
    BY <1>7
  <2>4. QED
    BY <2>1, <2>2, <2>3
<1>9. i = j
  BY <1>3, <1>7
<1> HIDE DEF I, key, c
<1>10. PICK place : Rearranges(place, c, records, I)
  BY <1>1, <1>4, <1>5, PickedOnce
<1>11. DOMAIN c = 1 .. 2 /\ 1 \in DOMAIN c /\ 2 \in DOMAIN c
  BY <1>2, <1>8
<1>12. /\ place[1] \in I /\ c[1] = records[place[1]] /\ place[2] \in I /\ c[2] = records[place[2]]
       /\ place[1] # place[2]
  BY <1>10, <1>11 DEF Rearranges
<1>13. place[1] = j
  BY <1>1, <1>3, <1>7, <1>9, <1>12
<1>14. c[2] = records[k]
  BY <1>7, <1>12, <1>13
<1>15. c # <<>> /\ Tail(c)[1] = c[2]
  BY ONLY <1>2, <1>8, SecondOfTwo
<1>16. QED
  BY <1>6, <1>14, <1>15

\* The only posting is the primary one.
LEMMA OnlyIsPrimary ==
    ASSUME NEW tx, NEW records, Ledger(records), NEW k, Of(tx, records) = {k}
    PROVE  Match(tx, records).primary = records[k]
<1> DEFINE c == Candidates(tx, records)
<1>1. Of(tx, records) # {}
  OBVIOUS
<1>2. PICK i \in Of(tx, records) : c[1] = records[i]
  BY <1>1, FirstCandidate
<1>3. c \in Seq(LedgerRecord) /\ Len(c) = Cardinality(Of(tx, records))
  BY FirstCandidate
<1>4. Cardinality(Of(tx, records)) = 1
  BY FS_Singleton
<1>5. c # <<>>
  BY <1>3, <1>4
<1>6. QED
  BY <1>2, <1>5 DEF Match

LEMMA LabelsCounted ==
    ASSUME IsTable, Len(transactions) <= MaxPosted, LabelsAgree(labels), LabelsName(ledger, labels)
    PROVE  Cardinality(labels) = Cardinality(Wrong)
<1> DEFINE f == [l \in labels |-> l.tx]
           T == IdsOf(Wrong)
<1>1. \A l \in labels : f[l] \in T
  BY DEF LabelsAgree, IdsOf, Wrong
<1>2. \A t \in T : \E l \in labels : f[l] = t
  BY DEF LabelsAgree, IdsOf, Wrong
<1>3. \A l, m \in labels : f[l] = f[m] => l = m
  BY DEF LabelsName
<1>4. f \in Injection(labels, T) /\ f \in Surjection(labels, T)
  BY <1>1, <1>2, <1>3 DEF Injection, IsInjective, Surjection
<1>5. Wrong \in SUBSET TxRows /\ IsFiniteSet(TxRows)
  BY TableTells DEF Wrong
<1>6. Cardinality(T) = Cardinality(Wrong)
  BY <1>5, IdsCount
<1>7. IsFiniteSet(T)
  <2> DEFINE g == [i \in Wrong |-> transactions[i].id]
  <2>1. IsFiniteSet(Wrong)
    BY <1>5, FS_Subset
  <2>2. g \in Surjection(Wrong, T)
    BY DEF Surjection, IdsOf
  <2> HIDE DEF g, T
  <2>3. QED
    BY <2>1, <2>2, FS_Surjection
<1> HIDE DEF f, T
<1>8. Cardinality(labels) = Cardinality(T)
  BY <1>4, <1>7, FS_Injection
<1>9. QED
  BY <1>6, <1>8

LEMMA LedgerIsValid ==
    ASSUME plan \in [TxRows -> Kinds \cup {"none"}], LabelsName(ledger, labels)
    PROVE  LedgerErrors = {}
<1>1. \A i, j \in DOMAIN ledger : ledger[i].id = ledger[j].id => i = j
  BY DEF LabelsName
<1>2. \A i \in DOMAIN ledger : ledger[i].tx \in {transactions[n].id : n \in TxRows}
  BY DEF LabelsName
<1>3. \A l \in labels : \E i \in TxRows : l.tx = transactions[i].id /\ l.kind = plan[i] /\ plan[i] # "none"
  BY DEF LabelsName, Names
<1>4. \A l \in labels : l.tx \in {transactions[n].id : n \in TxRows} /\ l.kind \in Kinds
  BY <1>3
<1> SUFFICES ASSUME NEW e \in LedgerErrors PROVE FALSE
  OBVIOUS
<1>5. /\ e \in {"not unique", "ledger", "labels", "kinds"}
      /\ e = "not unique" => \E i, j \in DOMAIN ledger : i # j /\ ledger[i].id = ledger[j].id
      /\ e = "ledger" => \E i \in DOMAIN ledger : ledger[i].tx \notin {transactions[n].id : n \in TxRows}
      /\ e = "labels" => \E l \in labels : l.tx \notin {transactions[n].id : n \in TxRows}
      /\ e = "kinds" => \E l \in labels : l.kind \notin Kinds
  BY DEF LedgerErrors
<1>6. QED
  BY <1>1, <1>2, <1>4, <1>5

\* A label says which record is wrong.
LEMMA LabelTellsRecord ==
    ASSUME BooksAgree(ledger), LabelsName(ledger, labels), NEW l \in labels
    PROVE  \E i \in TxRows :
              LET m == Match(Asked(i), ledger)
              IN  /\ l.tx = transactions[i].id /\ l.kind = plan[i]
                  /\ l.ledger = CASE plan[i] = "missing_ledger_entry" -> 0
                                  [] plan[i] = "duplicate_posting"    -> m.extras[1].id
                                  [] OTHER                            -> m.primary.id
<1>1. PICK i \in TxRows : Names(l, i, ledger)
  BY DEF LabelsName
<1> DEFINE tx == Asked(i)
           m == Match(tx, ledger)
<1>2. Ledger(ledger) /\ \A j \in DOMAIN ledger : ledger[j].id = j
  BY DEF BooksAgree, LabelsName
<1>3. l.tx = transactions[i].id /\ l.kind = plan[i]
  BY <1>1 DEF Names
<1>4. CASE plan[i] = "missing_ledger_entry"
  <2>1. l.ledger = 0
    BY <1>1, <1>4 DEF Names
  <2>2. QED
    BY <1>3, <1>4, <2>1
<1>5. CASE plan[i] = "duplicate_posting"
  <2>1. PICK j \in DOMAIN ledger : /\ j # l.ledger /\ Of(tx, ledger) = {j, l.ledger}
                                   /\ Earlier(ledger[j], ledger[l.ledger])
    BY <1>1, <1>5 DEF Names
  <2>2. l.ledger \in Of(tx, ledger) /\ Of(tx, ledger) \subseteq DOMAIN ledger
    BY <2>1 DEF Of
  <2> HIDE DEF tx
  <2>3. m.extras[1] = ledger[l.ledger]
    BY <1>2, <2>1, SecondIsExtra
  <2>4. l.ledger = m.extras[1].id
    BY <1>2, <2>2, <2>3
  <2> HIDE DEF m
  <2>5. l.ledger = CASE plan[i] = "missing_ledger_entry" -> 0
                     [] plan[i] = "duplicate_posting"    -> m.extras[1].id
                     [] OTHER                            -> m.primary.id
    BY <1>5, <2>4
  <2>6. QED
    BY <1>3, <2>5 DEF m, tx
<1>6. CASE plan[i] \notin {"missing_ledger_entry", "duplicate_posting"}
  <2>1. Of(tx, ledger) = {l.ledger}
    BY <1>1, <1>6 DEF Names
  <2>2. l.ledger \in DOMAIN ledger
    BY <2>1 DEF Of
  <2> HIDE DEF tx
  <2>3. m.primary = ledger[l.ledger]
    BY <1>2, <2>1, OnlyIsPrimary
  <2>4. l.ledger = m.primary.id
    BY <1>2, <2>2, <2>3
  <2> HIDE DEF m
  <2>5. l.ledger = CASE plan[i] = "missing_ledger_entry" -> 0
                     [] plan[i] = "duplicate_posting"    -> m.extras[1].id
                     [] OTHER                            -> m.primary.id
    BY <1>6, <2>4
  <2>6. QED
    BY <1>3, <2>5 DEF m, tx
<1>7. QED
  BY <1>4, <1>5, <1>6

\* What holds at every step of the rows and of the books.
LabelsInv == BooksInv /\ RawInv /\ (step # "inject" => IsMaterialized)

LEMMA LabelsInit == LedgerInit => LabelsInv
<1> SUFFICES ASSUME LedgerInit PROVE LabelsInv
  OBVIOUS
<1>1. BooksInv
  BY BooksInit
<1>2. RawInv
  BY RawInit
<1>3. step = "inject"
  BY DEF LedgerInit, StartDataset
<1>4. QED
  BY <1>1, <1>2, <1>3 DEF LabelsInv

\* Rows by their type.
LEMMA RowsAreRows == RowsType => AreRows(raw)
<1> SUFFICES ASSUME RowsType PROVE AreRows(raw)
  OBVIOUS
<1>1. raw \in Seq(RawRow)
  BY DEF RowsType
<1>2. Len(raw) \in Nat /\ DOMAIN raw = 1 .. Len(raw) /\ \A i \in DOMAIN raw : raw[i] \in RawRow
  BY <1>1
<1>3. \A i \in DOMAIN raw : /\ raw[i].cp \in Int /\ raw[i].ts \in Nat
                            /\ raw[i].kind \in {NoAnomaly} \cup AnomalyKinds
  BY <1>2, RowTells
<1>4. QED
  BY <1>2, <1>3 DEF AreRows

LEMMA RowsAreKept ==
    ASSUME UNCHANGED rawVars
    PROVE  /\ RawInv => RawInv'
           /\ IsMaterialized => IsMaterialized'
<1>1. /\ config' = config /\ normal' = normal /\ raw' = raw /\ edits' = edits /\ fresh' = fresh
      /\ realised' = realised /\ transactions' = transactions /\ transaction_labels' = transaction_labels
  BY DEF rawVars
<1>2. Waiting' = Waiting
  BY <1>1 DEF Waiting, Lacking
<1>3. RawInv => RawInv'
  BY <1>1 DEF RawInv
<1>4. IsMaterialized => IsMaterialized'
  BY <1>1, <1>2 DEF IsMaterialized
<1>5. QED
  BY <1>3, <1>4

LEMMA LabelsStep == LabelsInv /\ [LedgerNext]_dataVars => LabelsInv'
<1> SUFFICES ASSUME LabelsInv, [LedgerNext]_dataVars PROVE LabelsInv'
  OBVIOUS
<1>1. BooksInv /\ BooksInv' /\ RowsType /\ RowsType' /\ RawInv /\ (step # "inject" => IsMaterialized)
  BY BooksStep DEF LabelsInv, BooksInv
<1>2. CASE EditRows /\ UNCHANGED ledgerVars
  <2>1. RawInv'
    BY <1>1, <1>2, RowsEdited
  <2>2. step' = "inject"
    BY <1>2 DEF EditRows
  <2>3. QED
    BY <1>1, <2>1, <2>2 DEF LabelsInv
<1>3. CASE InsertEpisode /\ UNCHANGED ledgerVars
  <2>1. AreRows(raw')
    <3>1. AreRows(raw)'
      <4>1. RowsType' => AreRows(raw)'
        BY RowsAreRows, PTL
      <4>2. QED
        BY <1>1, <4>1
    <3>2. QED
      BY <3>1 DEF AreRows
  <2>2. RawInv'
    BY <1>1, <1>3, <2>1, RowsInserted
  <2>3. step' = "inject"
    BY <1>3 DEF InsertEpisode
  <2>4. QED
    BY <1>1, <2>2, <2>3 DEF LabelsInv
<1>4. CASE Materialize /\ UNCHANGED ledgerVars
  <2>1. /\ config' = config /\ normal' = normal /\ raw' = raw /\ edits' = edits /\ fresh' = fresh
        /\ realised' = realised /\ edits = 4 /\ Waiting = {}
        /\ transactions' = [p \in DOMAIN Chronological(raw) |-> WithIds(Chronological(raw)[p], p)]
        /\ transaction_labels' = [p \in DOMAIN Chronological(raw) |-> LabelOf(Chronological(raw)[p], p)]
    <3>1. Len(Edited) = 4
      BY KindsOfAnomaly
    <3>2. QED
      BY <1>4, <3>1, Zenon DEF Materialize
  <2>2. RawInv'
    BY <1>1, <2>1 DEF RawInv
  <2>3. Waiting' = Waiting
    BY <2>1 DEF Waiting, Lacking
  <2>4. IsMaterialized'
    BY <2>1, <2>3 DEF IsMaterialized
  <2>5. QED
    BY <1>1, <2>2, <2>4 DEF LabelsInv
<1>5. CASE Plan \/ Post \/ Evaluate \/ UNCHANGED dataVars
  <2>1. UNCHANGED rawVars
    BY <1>5 DEF Plan, Post, Evaluate, dataVars
  <2>2. step' # "inject" => step # "inject"
    BY <1>5 DEF Plan, Post, Evaluate, dataVars
  <2>3. QED
    BY <1>1, <2>1, <2>2, RowsAreKept DEF LabelsInv
<1>6. QED
  BY <1>2, <1>3, <1>4, <1>5 DEF LedgerNext, Generate

LEMMA LabelsHold == LabelsInv => LabelsNameTheRecord
<1> SUFFICES ASSUME LabelsInv PROVE LabelsNameTheRecord
  OBVIOUS
<1>1. BooksInv /\ RowsType /\ RawInv /\ (step # "inject" => IsMaterialized)
  BY DEF LabelsInv, BooksInv
<1>2. ASSUME step = "plan" PROVE AnomaliesAreLabelled
  <2>1. IsMaterialized
    BY <1>1, <1>2
  <2>2. TransactionErrors = {} /\ LabelsCount /\ NewIsNew
    BY <1>1, <2>1, TableIsValid, LabelsAreCounted, NewPartiesAreNew
  <2>3. QED
    BY <2>2 DEF AnomaliesAreLabelled
<1>3. ASSUME step = "end"
      PROVE  /\ LedgerErrors = {}
             /\ Cardinality({i \in TxRows : plan[i] # "none"}) = config.discrepancies
             /\ Cardinality(labels) = config.discrepancies
             /\ \A l \in labels : \E i \in TxRows :
                   LET m == Match(Asked(i), ledger)
                   IN  /\ l.tx = transactions[i].id /\ l.kind = plan[i]
                       /\ l.ledger = CASE plan[i] = "missing_ledger_entry" -> 0
                                       [] plan[i] = "duplicate_posting"    -> m.extras[1].id
                                       [] OTHER                            -> m.primary.id
  <2>1. Planned /\ BooksAgree(ledger) /\ LabelsAgree(labels) /\ LabelsName(ledger, labels)
    BY <1>1, <1>3 DEF BooksInv
  <2>2. /\ IsTable /\ Len(transactions) <= MaxPosted /\ config \in Configs
        /\ plan \in [TxRows -> Kinds \cup {"none"}]
        /\ \A k \in Kinds : Cardinality(Having(k)) = Quotas[k]
    BY <1>1, <2>1 DEF RowsType, Planned
  <2>3. LedgerErrors = {}
    BY <2>1, <2>2, LedgerIsValid
  <2>4. Cardinality(Wrong) = config.discrepancies
    BY <2>2, WrongCount
  <2>5. Cardinality(labels) = Cardinality(Wrong)
    BY <2>1, <2>2, LabelsCounted
  <2>6. \A l \in labels : \E i \in TxRows :
           LET m == Match(Asked(i), ledger)
           IN  /\ l.tx = transactions[i].id /\ l.kind = plan[i]
               /\ l.ledger = CASE plan[i] = "missing_ledger_entry" -> 0
                               [] plan[i] = "duplicate_posting"    -> m.extras[1].id
                               [] OTHER                            -> m.primary.id
    BY <2>1, LabelTellsRecord
  <2>7. QED
    BY <2>3, <2>4, <2>5, <2>6 DEF Wrong
<1>4. QED
  BY <1>2, <1>3, Zenon DEF LabelsNameTheRecord

\* What the labels say is true, whatever the rows, the configuration and the
\* draws: the tables pass the validation they are written with, as many
\* inserted anomalies and discrepancies are labelled as were planned and no
\* more edited ones, a party that is labelled new was never seen before, a row
\* without a label is as it was drawn, and a label of the ledger names the
\* posting that is wrong
\* (anomalies.py:78-140, generate.py:48-64, ledger.py:87-99,
\* validation.py:57-109).
THEOREM LabelsAlwaysNameTheRecord == LedgerSpec => []LabelsNameTheRecord
<1>1. LabelsInv => LabelsNameTheRecord
  BY LabelsHold
<1>2. QED
  BY LabelsInit, LabelsStep, <1>1, PTL DEF LedgerSpec
=============================================================================
