--------------------------- MODULE Reconciliation ---------------------------
(***************************************************************************)
(* The reconciliation engine (reconciliation/): a transaction is paired    *)
(* with the ledger records of its identifier, ten rules look at the pair,  *)
(* and agents/reconciliation/agent.py turns what they find into evidence.  *)
(*                                                                         *)
(* Amounts are whole tenths of a cent, which _cents rounds; times are      *)
(* hours.  A ledger identifier is its position in the sorted ledger, so    *)
(* that identifiers compare as the code's strings do.                      *)
(***************************************************************************)
EXTENDS Integers, Sequences, FiniteSets, SequencesExt, Filters

CONSTANTS AmountToleranceCents,   \* reconciliation/config.py: 1
          MediumPct, HighPct,     \*                           1, 10
          MaxPostingLag,          \*                           3 days
          LateHighMultiple,       \*                           3
          StalePendingAfter,      \*                           3 days
          CheckSettlementStatus   \*                           TRUE

ASSUME ToleranceAssumption ==
    /\ {AmountToleranceCents, MaxPostingLag, StalePendingAfter} \subseteq Nat
    /\ {MediumPct, HighPct, LateHighMultiple} \subseteq Nat \ {0}
    /\ MediumPct <= HighPct /\ CheckSettlementStatus \in BOOLEAN

NoReference == "None"
NoRecord    == [none |-> TRUE]
NoTime      == -1      \* as_of is None

\* What the fields of the two tables may hold; a status is any word.
Transaction  == [id : STRING, amount : Int, currency : STRING, reference : STRING, time : Int]
LedgerRecord == [id : Nat, tx : STRING, amount : Int, currency : STRING, reference : STRING,
                 posted : Int, settlement : STRING]

Abs(n) == IF n < 0 THEN -n ELSE n

\* round(value * 100): to the nearest cent, and to the even one from halfway.
Cents(v) == LET c == v \div 10
                r == v % 10
            IN  IF r < 5 \/ (r = 5 /\ c % 2 = 0) THEN c ELSE c + 1

-----------------------------------------------------------------------------
(* match_records: the earliest posting is primary, the others are extras.  *)

\* (Seeded fault: the first record of the list is primary.)
EarlierAsListed(r, s) == FALSE
Earlier(r, s) == r.posted < s.posted \/ (r.posted = s.posted /\ r.id < s.id)

\* The records of a transaction by time and identifier: the place of each is
\* how many come before it.
Of(tx, records) == {i \in DOMAIN records : records[i].tx = tx.id}
Ahead(tx, records, i) == {j \in Of(tx, records) : Earlier(records[j], records[i])}
Candidates(tx, records) ==
    Pick(records, Of(tx, records), [i \in Of(tx, records) |-> Cardinality(Ahead(tx, records, i))])

Match(tx, records) ==
    LET candidates == Candidates(tx, records)
    IN  [tx      |-> tx,
         primary |-> IF candidates = <<>> THEN NoRecord ELSE candidates[1],
         extras  |-> IF candidates = <<>> THEN <<>> ELSE Tail(candidates)]

-----------------------------------------------------------------------------
(* The rules: each is the severity of what it finds in a pair.  All but    *)
(* the first two look at the primary record, and find nothing without one. *)

Finds(severity) == <<severity>>
Nothing == <<>>

MissingLedger(m)    == IF m.primary = NoRecord THEN Finds("high") ELSE Nothing
DuplicatePosting(m) == IF m.extras # <<>> THEN Finds("high") ELSE Nothing

\* (Seeded fault: the tolerance is read as whole units of the currency.)
WithinToleranceUnits(diff) == Abs(diff) \div 100 <= AmountToleranceCents
WithinTolerance(diff) == Abs(diff) <= AmountToleranceCents

\* The share of the amount, in percent, without the division.
AtLeastPct(diff, expected, pct) ==
    100 * Abs(diff) >= pct * (IF Abs(expected) > 1 THEN Abs(expected) ELSE 1)

AmountRule(m) ==
    LET expected == Cents(m.tx.amount)
        diff     == Cents(m.primary.amount) - expected
    IN  IF WithinTolerance(diff) THEN Nothing
        ELSE Finds(IF AtLeastPct(diff, expected, HighPct) THEN "high"
                   ELSE IF AtLeastPct(diff, expected, MediumPct) THEN "medium" ELSE "low")

CurrencyRule(m) == IF m.primary.currency # m.tx.currency THEN Finds("high") ELSE Nothing

ReferenceMissing(m) ==
    IF (m.tx.reference = NoReference) # (m.primary.reference = NoReference)
    THEN Finds("medium") ELSE Nothing
ReferenceMismatch(m) ==
    IF NoReference \notin {m.tx.reference, m.primary.reference}
       /\ m.tx.reference # m.primary.reference
    THEN Finds("high") ELSE Nothing

Lag(m) == m.primary.posted - m.tx.time
PostedBefore(m) == IF Lag(m) < 0 THEN Finds("high") ELSE Nothing
LatePosting(m) ==
    IF Lag(m) <= MaxPostingLag THEN Nothing
    ELSE Finds(IF Lag(m) > LateHighMultiple * MaxPostingLag THEN "high" ELSE "medium")

SettlementFailed(m) ==
    IF CheckSettlementStatus /\ m.primary.settlement = "failed" THEN Finds("medium") ELSE Nothing
StalePending(m, as_of) ==
    IF /\ CheckSettlementStatus /\ as_of # NoTime /\ m.primary.settlement = "pending"
       /\ as_of - m.tx.time > StalePendingAfter
    THEN Finds("medium") ELSE Nothing

RuleIds == {"REC-001", "REC-002", "REC-003", "REC-004", "REC-005",
            "REC-006", "REC-007", "REC-008", "REC-009", "REC-010"}
StatusRules == {"REC-009", "REC-010"}

Rule(id, m, as_of) ==
    IF id = "REC-001" THEN MissingLedger(m)
    ELSE IF id = "REC-002" THEN DuplicatePosting(m)
    ELSE IF m.primary = NoRecord THEN Nothing
    ELSE CASE id = "REC-003" -> AmountRule(m)
           [] id = "REC-004" -> CurrencyRule(m)
           [] id = "REC-005" -> ReferenceMissing(m)
           [] id = "REC-006" -> ReferenceMismatch(m)
           [] id = "REC-007" -> PostedBefore(m)
           [] id = "REC-008" -> LatePosting(m)
           [] id = "REC-009" -> SettlementFailed(m)
           [] id = "REC-010" -> StalePending(m, as_of)

\* DiscrepancyDetector.detect; the order by rule is left out.
Detect(m, as_of) ==
    {[rule |-> id, severity |-> Rule(id, m, as_of)[1]] :
        id \in {i \in RuleIds : Rule(i, m, as_of) # Nothing}}

-----------------------------------------------------------------------------
(* The service and its agent.                                              *)

Reconcile(tx, records, as_of) ==
    LET m == Match(tx, records)
    IN  [tx            |-> tx.id,
         ledger        |-> IF m.primary = NoRecord THEN 0 ELSE m.primary.id,
         reconciled    |-> Detect(m, as_of) = {},
         discrepancies |-> Detect(m, as_of)]

\* reconcile_case: focus and context, at the time of the case.
ReconcileCase(focus, context, records, as_of) ==
    {Reconcile(tx, records, as_of) : tx \in focus \cup context}

\* The agent's evidence: an item per discrepancy of a focus transaction or
\* one that says it is reconciled, and one item that counts the findings
\* in the context.
EvidenceOf(result) ==
    IF result.discrepancies = {} THEN {[of |-> result.tx, rule |-> "OK", severity |-> "none"]}
    ELSE {[of |-> result.tx, rule |-> d.rule, severity |-> d.severity] : d \in result.discrepancies}

ContextResults(results, focus) == {r \in results : r.tx \notin {tx.id : tx \in focus}}
ReconciliationOutput(focus, context, records, as_of) ==
    LET results == ReconcileCase(focus, context, records, as_of)
        rest    == ContextResults(results, focus)
    IN  [results  |-> results,
         evidence |-> UNION {EvidenceOf(r) : r \in {q \in results : q.tx \in {tx.id : tx \in focus}}},
         context  |-> [seen     |-> Cardinality(rest),
                       findings |-> Cardinality({r \in rest : r.discrepancies # {}})]]

-----------------------------------------------------------------------------
(* What the rules promise, said of the records themselves.                 *)

\* The first posting of a transaction, wherever it stands in the list.
Primary(tx, records) ==
    LET mine == {records[i] : i \in Of(tx, records)}
    IN  CHOOSE r \in mine : \A s \in mine :
            r.posted < s.posted \/ (r.posted = s.posted /\ r.id <= s.id)

\* Two amounts agree when their cents differ by no more than the tolerance,
\* references when they are the same or both missing.
Agree(tx, r) ==
    /\ Cents(tx.amount) - Cents(r.amount) \in -AmountToleranceCents .. AmountToleranceCents
    /\ tx.currency = r.currency /\ tx.reference = r.reference
    /\ r.posted - tx.time \in 0 .. MaxPostingLag

\* A transaction is reconciled exactly when it was posted once, the posting
\* agrees with it and nothing is wrong with the settlement at that time;
\* no two rules accuse the same thing; the order in which the ledger lists
\* the postings makes no difference; and a later look finds at least what an
\* earlier one did (matcher.py, rules.py, service.py:23-37).
ResultIsFaithful(tx, records, as_of) ==
    LET mine   == Of(tx, records)
        result == Reconcile(tx, records, as_of)
        found  == {d.rule : d \in result.discrepancies}
    IN  /\ result.reconciled <=>
               /\ Cardinality(mine) = 1
               /\ Agree(tx, Primary(tx, records))
               /\ CheckSettlementStatus =>
                      LET r == Primary(tx, records)
                      IN  /\ r.settlement # "failed"
                          /\ r.settlement = "pending" /\ as_of # NoTime =>
                                 as_of <= tx.time + StalePendingAfter
        /\ \A d, e \in result.discrepancies : d.rule = e.rule => d = e
        /\ \A pair \in {{"REC-005", "REC-006"}, {"REC-007", "REC-008"}, StatusRules} :
               ~(pair \subseteq found)
        /\ "REC-001" \in found => found = {"REC-001"}
        /\ mine # {} => result.ledger = Primary(tx, records).id
        /\ result = Reconcile(tx, Reverse(records), as_of)
        /\ as_of # NoTime =>
               result.discrepancies \subseteq Reconcile(tx, records, as_of + 1).discrepancies

\* The focus is shown in full and nothing of it is counted as context.
EvidenceIsComplete(focus, context, records, as_of) ==
    LET out == ReconciliationOutput(focus, context, records, as_of)
    IN  /\ {e.of : e \in out.evidence} = {tx.id : tx \in focus}
        /\ out.context.seen = Cardinality(context \ focus)
        /\ \A tx \in focus : \A d \in Reconcile(tx, records, as_of).discrepancies :
               [of |-> tx.id, rule |-> d.rule, severity |-> d.severity] \in out.evidence
=============================================================================
