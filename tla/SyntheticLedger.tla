-------------------------- MODULE SyntheticLedger --------------------------
(***************************************************************************)
(* A synthetic data set: the transactions of SyntheticAnomalies, and       *)
(* data_pipeline/synthetic/ledger.py, a ledger that agrees with them       *)
(* except for the discrepancies injected into some of them, and the labels *)
(* that say which.  The engine of Reconciliation is then run over it, as   *)
(* experiments/reconciliation/run_reconciliation_eval.py does.  Times are  *)
(* seconds here.                                                           *)
(***************************************************************************)
EXTENDS Reconciliation, SyntheticAnomalies

CONSTANTS MaxPosted,      \* bound: a ledger is built for so many transactions
          Delays,         \* natural delays of a posting, up to 30 hours
          Factors,        \* percent of a contradictory amount: 50-98 or 102-150
          LateBy,         \* what a late posting is late by: 8-20 days
          Currencies

Kinds == {"contradictory_amount", "missing_reference", "currency_mismatch",
          "missing_ledger_entry", "duplicate_posting", "late_posting"}

\* The ranges ledger.py draws from; its exponential delay, half an hour in the
\* mean, is taken to stay below twelve hours.
ASSUME DrawnAssumption ==
    /\ Delays \subseteq 0 .. 42 * 3600 /\ LateBy \subseteq 8 * Day .. 20 * Day
ASSUME FactorsAssumption == Factors \subseteq (50 .. 98) \cup (102 .. 150)
ASSUME CurrencyAssumption ==
    Currencies \subseteq STRING /\ \A c \in DOMAIN Profiles : Profiles[c].currency \in Currencies

\* The statuses, and what stands for no reference, are texts like any other.
ASSUME TextsAssumption == {NoReference, "settled", "pending", "failed"} \subseteq STRING

\* A rate and a mix in percent give a total and its parts.
ASSUME LedgerMixAssumption ==
    \A c \in Configs : c.discrepancies \in Nat /\ c.ledger_mix \in [Kinds -> Nat]

\* Identifiers tell the transactions apart.
ASSUME IdsAssumption ==
    /\ MaxPosted \in Nat
    /\ \A p, q \in 1 .. MaxPosted : /\ TxId(p) \in STRING \ {NoReference}
                                    /\ TxId(p) = TxId(q) => p = q
    /\ \A c \in Configs : c.n \in Nat /\ \A p, q \in 1 .. c.n : TxId(p) = TxId(q) => p = q

\* The evaluation runs the engine as it is configured by default.  By these
\* figures a posting is in time, the second one of a duplicate too, unless it
\* is made late, and a cent makes no contradiction.
ASSUME DefaultsAssumption ==
    /\ AmountToleranceCents <= 1
    /\ \A d \in Delays : d \in Nat /\ d + 29 <= MaxPostingLag
    /\ \A d \in LateBy : d \in Nat /\ d > MaxPostingLag

\* GeneratorConfig._check_mixes
IsComplete(mix, kinds) == DOMAIN mix = kinds /\ SumFunction(mix) = 100
MixesAreComplete(cfg) == /\ IsComplete(cfg.anomaly_mix, AnomalyKinds)
                         /\ IsComplete(cfg.ledger_mix, Kinds)

VARIABLES plan,      \* the discrepancy of every transaction, or "none"
          ledger,    \* the ledger, in order of posting
          labels,    \* ledger_labels
          results,   \* what reconciliation finds
          scores     \* how well that agrees with the labels
ledgerVars == <<plan, ledger, labels, results, scores>>
dataVars == <<step, rawVars, ledgerVars>>

\* _prf
Tally(actual, flagged) == [tp |-> Cardinality(actual \cap flagged),
                           fp |-> Cardinality(flagged \ actual), fn |-> Cardinality(actual \ flagged)]

NoScores == [per_type |-> <<>>, overall |-> Tally({}, {}), misattributed |-> 0]

TxRows == DOMAIN transactions
LedgerInit ==
    /\ StartDataset /\ MixesAreComplete(config)
    /\ plan = <<>> /\ ledger = <<>> /\ labels = {} /\ results = {} /\ scores = NoScores

\* The remainder of the rounding goes to the first kind.
Quotas ==
    LET floor == [k \in Kinds |-> (config.ledger_mix[k] * config.discrepancies) \div 100]
    IN  [floor EXCEPT !["contradictory_amount"] = @ + config.discrepancies - SumFunction(floor)]

\* A transaction gets one discrepancy at most: each kind takes its own slice
\* of a permutation of the rows.
Plan ==
    /\ step = "plan" /\ step' = "post" /\ Len(transactions) <= MaxPosted
    /\ plan' \in {p \in [TxRows -> Kinds \cup {"none"}] :
                      \A k \in Kinds : Cardinality({i \in TxRows : p[i] = k}) = Quotas[k]}
    /\ UNCHANGED <<rawVars, ledger, labels, results, scores>>

Having(kind) == {i \in TxRows : plan[i] = kind}

\* How a transaction may be posted, before anything is injected.  A posting
\* knows its row and whether it is the second one of it.
Natural(i) ==
    LET tx == transactions[i]
    IN  {[row |-> i, again |-> FALSE, tx |-> tx.id, amount |-> tx.amount, currency |-> tx.currency,
          posted |-> tx.time + d, settlement |-> s, reference |-> tx.reference] :
            d \in Delays, s \in {"settled", "pending", "failed"}}

\* A posting once the discrepancy is in its fields.
Injected(r, kind) ==
    CASE kind = "contradictory_amount" ->
             {[r EXCEPT !.amount = 10 * Cents((r.amount * f) \div 100)] : f \in Factors}
      [] kind = "missing_reference"    -> {[r EXCEPT !.reference = NoReference]}
      [] kind = "currency_mismatch"    -> {[r EXCEPT !.currency = c] : c \in Currencies \ {r.currency}}
      [] kind = "late_posting"         -> {[r EXCEPT !.posted = @ + d] : d \in LateBy}
      [] OTHER                         -> {r}
Drawn(i) == UNION {Injected(r, plan[i]) : r \in Natural(i)}

SecondsLater == {1, 29}   \* at least 1, less than 30
Doubled(r, gap) == [r EXCEPT !.again = TRUE, !.posted = @ + gap]

\* The postings of the rows that have one, then the second ones, by their
\* times; equal times keep that order.
Slice(s, I) == Pick(s, I, [i \in I |-> i])
PostedInOrder(rows, gap) ==
    LET kept    == Slice(rows, TxRows \ Having("missing_ledger_entry"))
        doubles == Slice([i \in TxRows |-> IF plan[i] = "duplicate_posting"
                                           THEN Doubled(rows[i], gap[i]) ELSE rows[i]],
                         Having("duplicate_posting"))
        all     == kept \o doubles
    IN  Pick(all, DOMAIN all, [j \in DOMAIN all |-> all[j].posted])

\* What is written of the jth: its identifier follows the order.
Record(r, j) == [id |-> j, tx |-> r.tx, amount |-> r.amount, currency |-> r.currency,
                 reference |-> r.reference, posted |-> r.posted, settlement |-> r.settlement]
Labelled(r) == plan[r.row] # "none" /\ (plan[r.row] = "duplicate_posting" => r.again)

Post ==
    /\ step = "post" /\ step' = "reconcile"
    /\ \E rows \in [TxRows -> UNION {Drawn(i) : i \in TxRows}],
          gap \in [Having("duplicate_posting") -> SecondsLater] :
          /\ \A i \in TxRows : rows[i] \in Drawn(i)
          /\ LET all == PostedInOrder(rows, gap)
             IN  /\ ledger' = [j \in DOMAIN all |-> Record(all[j], j)]
                 /\ labels' =
                      {[tx |-> all[j].tx, ledger |-> j, kind |-> plan[all[j].row]] :
                          j \in {j \in DOMAIN all : Labelled(all[j])}}
                      \cup {[tx |-> transactions[i].id, ledger |-> 0, kind |-> plan[i]] :
                               i \in Having("missing_ledger_entry")}
    /\ UNCHANGED <<rawVars, plan, results, scores>>

-----------------------------------------------------------------------------
(* The evaluation: what the rules say against what the labels say.         *)

RULE_TO_LABEL == [r \in {"REC-001", "REC-002", "REC-003", "REC-004", "REC-005", "REC-008"} |->
    CASE r = "REC-001" -> "missing_ledger_entry" [] r = "REC-002" -> "duplicate_posting"
      [] r = "REC-003" -> "contradictory_amount" [] r = "REC-004" -> "currency_mismatch"
      [] r = "REC-005" -> "missing_reference"    [] r = "REC-008" -> "late_posting"]
Label(rule) == IF rule \in DOMAIN RULE_TO_LABEL THEN RULE_TO_LABEL[rule] ELSE "unlabelled"

Core(result) == {d.rule : d \in result.discrepancies} \ StatusRules
Truth == [t \in {l.tx : l \in labels} |-> (CHOOSE l \in labels : l.tx = t).kind]
Predicted(found) ==
    [t \in {r.tx : r \in {r \in found : Core(r) # {}}} |->
        UNION {{Label(rule) : rule \in Core(r)} : r \in {r \in found : r.tx = t}}]

ScoresOf(found) ==
    LET predicted == Predicted(found)
        hits      == DOMAIN Truth \cap DOMAIN predicted
    IN  [per_type |-> [k \in Kinds |-> Tally({t \in DOMAIN Truth : Truth[t] = k},
                                            {t \in DOMAIN predicted : k \in predicted[t]})],
         overall  |-> Tally(DOMAIN Truth, DOMAIN predicted),
         misattributed |-> Cardinality({t \in hits : Truth[t] \notin predicted[t]})]

\* What the engine reads of a transaction.
Asked(i) == LET tx == transactions[i]
            IN  [id |-> tx.id, amount |-> tx.amount, currency |-> tx.currency,
                 reference |-> tx.reference, time |-> tx.time]

\* The ledger is reconciled as of the last transaction.
AsOf == Max({transactions[i].time : i \in TxRows})

Evaluate ==
    /\ step = "reconcile" /\ step' = "end"
    /\ results' = {Reconcile(Asked(i), ledger, AsOf) : i \in TxRows}
    /\ scores' = ScoresOf(results')
    /\ UNCHANGED <<rawVars, plan, ledger, labels>>

\* generate_dataset, and the evaluation of the engine on what it made.
Generate == EditRows \/ InsertEpisode \/ Materialize
LedgerNext == (Generate /\ UNCHANGED ledgerVars) \/ Plan \/ Post \/ Evaluate
LedgerSpec == LedgerInit /\ [][LedgerNext]_dataVars

-----------------------------------------------------------------------------
(* PROPERTIES                                                              *)

\* validate_tables, as far as it is about the ledger and its labels.
LedgerErrors ==
    LET known == {transactions[i].id : i \in TxRows}
    IN  {e \in {"not unique", "ledger", "labels", "kinds"} :
            CASE e = "not unique" -> \E i, j \in DOMAIN ledger : i # j /\ ledger[i].id = ledger[j].id
              [] e = "ledger"     -> \E i \in DOMAIN ledger : ledger[i].tx \notin known
              [] e = "labels"     -> \E l \in labels : l.tx \notin known
              [] e = "kinds"      -> \E l \in labels : l.kind \notin Kinds}

\* Every injected discrepancy is found by the rule made for it, whatever was
\* drawn, and apart from the settlement status nothing else is found: the
\* generator and the engine agree on what a discrepancy is, and the
\* evaluation counts no error (ledger.py:43-77, rules.py:29-237,
\* run_reconciliation_eval.py:57-102).
InjectionsAreFound ==
    step = "end" =>
        /\ \A i \in TxRows : \A r \in results :
              r.tx = transactions[i].id =>
                  {Label(rule) : rule \in Core(r)} = {plan[i]} \ {"none"} /\ Cardinality(Core(r)) <= 1
        /\ \A k \in Kinds : scores.per_type[k] = [tp |-> Quotas[k], fp |-> 0, fn |-> 0]
        /\ scores.overall = [tp |-> config.discrepancies, fp |-> 0, fn |-> 0]
        /\ scores.misattributed = 0

\* As many transactions as planned have a discrepancy, each has one label,
\* and the label names the record that is wrong: the extra posting of a
\* duplicate, the primary one otherwise (ledger.py:87-99).  The labels of the
\* transactions keep what SyntheticAnomalies promises of them, and the tables
\* pass the validation they are written with (validation.py:57-109).
LabelsNameTheRecord ==
    /\ step = "plan" => AnomaliesAreLabelled
    /\ step = "end" =>
        /\ LedgerErrors = {}
        /\ Cardinality({i \in TxRows : plan[i] # "none"}) = config.discrepancies
        /\ Cardinality(labels) = config.discrepancies
        /\ \A l \in labels : \E i \in TxRows :
              LET m == Match(Asked(i), ledger)
              IN  /\ l.tx = transactions[i].id /\ l.kind = plan[i]
                  /\ l.ledger = CASE plan[i] = "missing_ledger_entry" -> 0
                                  [] plan[i] = "duplicate_posting"    -> m.extras[1].id
                                  [] OTHER                            -> m.primary.id
=============================================================================
