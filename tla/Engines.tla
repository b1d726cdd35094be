------------------------------ MODULE Engines ------------------------------
(***************************************************************************)
(* The engines of a case one call at a time: what each of them is given    *)
(* and what it answers.  The coordinator calls them one after another      *)
(* (CaseWorkflow); none of them keeps a state between two calls.           *)
(***************************************************************************)
EXTENDS Reconciliation, KycMatching, Behaviour, AnomalyModel

CONSTANTS Payments,      \* transactions that may be reconciled
          Postings,      \* ledgers, as sequences of records
          AsOfs,         \* times at which it may be done, NoTime among them
          Documents,     \* identity documents
          NewRows,       \* transactions of customers, their time apart
          Times,         \* when they may happen
          MaxRows,
          EpisodeIds,    \* "" and the anomaly episodes
          FitLen,        \* rows of a data set that is split
          Scores         \* what a model may answer

\* A case has finitely many transactions; identifiers are keys of their tables.
ASSUME LedgersAssumption ==
    /\ IsFiniteSet(Payments) /\ Payments \subseteq Transaction
    /\ \A tx, other \in Payments : tx.id = other.id => tx = other
    /\ \A ledger \in Postings :
           /\ ledger \in Seq(LedgerRecord)
           /\ \A i, j \in DOMAIN ledger : ledger[i].id = ledger[j].id => i = j
    /\ AsOfs \subseteq Nat \cup {NoTime}

\* Times are numbers, and so are scores, which are not negative.
ASSUME RowsAssumption ==
    /\ \A r \in NewRows :
           /\ r = [cust |-> r.cust, time |-> r.time, amount |-> r.amount, outgoing |-> r.outgoing,
                   sender |-> r.sender, receiver |-> r.receiver,
                   sender_country |-> r.sender_country, receiver_country |-> r.receiver_country]
           /\ r.amount \in Int
    /\ FitLen \in Nat \ {0} /\ Times \subseteq Int /\ Scores \subseteq Nat

\* Seconds since 1970, and a window before them, are below 2^32: a customer's
\* keys are apart from the next one's.
ASSUME KeysAssumption ==
    \A s, t \in Times, w \in Windows : s - t + w < KeyShift

\* A similarity is a number, whatever the names.
ASSUME InputsAssumption ==
    \A doc \in Documents, i \in DOMAIN Customers : \A n \in NamesOf(Customers[i]) :
        Similar(Canonical(doc.name), n) \in Int

VARIABLES call,     \* the engine that answered last
          asked,    \* what it was asked
          answer,   \* what it answered
          rows      \* the transactions so far
enginesVars == <<call, asked, answer, rows>>

EnginesInit == call = "none" /\ asked = <<>> /\ answer = <<>> /\ rows = <<>>

\* agents/reconciliation/agent.py: one transaction in focus, the others and
\* perhaps itself around it.
ReconcileCall ==
    /\ call = "none" /\ call' = "reconciliation" /\ UNCHANGED rows
    /\ \E tx \in Payments, context \in SUBSET Payments, ledger \in Postings, as_of \in AsOfs :
          /\ asked'  = [tx |-> tx, context |-> context, ledger |-> ledger, as_of |-> as_of]
          /\ answer' = ReconciliationOutput({tx}, context, ledger, as_of)

\* agents/auditor/agent.py: a document of the customer own.
AnalyzeKycCall ==
    /\ call = "none" /\ call' = "kyc" /\ UNCHANGED rows
    /\ \E doc \in Documents, own \in DOMAIN Customers :
          \E s \in Shortlists(doc) : \E ranking \in Rankings(doc, s) :
              /\ asked'  = [doc |-> doc, own |-> own, shortlist |-> s, ranking |-> ranking]
              /\ answer' = Finding(doc, own, ranking)

\* A transaction happens, and its customer's behaviour is looked at.
LookBackCall ==
    /\ call \in {"none", "behaviour"} /\ call' = "behaviour" /\ Len(rows) < MaxRows
    /\ \E r \in NewRows, t \in Times :
          /\ rows # <<>> => t >= rows[Len(rows)].time
          /\ rows' = Append(rows, [r EXCEPT !.time = t])
    /\ asked'  = Len(rows')
    /\ answer' = [features |-> Features(rows', Len(rows')), evidence |-> Evidence(rows', Len(rows')),
                  governance |-> Governance(rows', Len(rows'))]

\* temporal_split of a labelled data set.
SplitCall ==
    /\ call = "none" /\ call' = "split" /\ UNCHANGED rows
    /\ \E times \in [1 .. FitLen -> Times], episodes \in [1 .. FitLen -> EpisodeIds] :
          /\ \A i, j \in 1 .. FitLen : i < j => times[i] <= times[j]
          /\ asked'  = [times |-> times, episodes |-> episodes]
          /\ answer' = Split(times, episodes)

\* The threshold for what a model answers on the validation rows.
ThresholdCall ==
    /\ call = "none" /\ call' = "threshold" /\ UNCHANGED rows
    /\ \E n \in 1 .. FitLen : \E labels \in [1 .. n -> {0, 1}], scores \in [1 .. n -> Scores] :
          /\ asked'  = [labels |-> labels, scores |-> scores]
          /\ answer' = F1OptimalThreshold(labels, scores)

\* train_supervised, an epoch after the other, with the average precision it
\* brings.
TrainCall ==
    /\ call \in {"none", "train"} /\ call' = "train" /\ UNCHANGED rows
    /\ LET run == IF call = "none" THEN Start ELSE answer
           n   == Len(asked) + 1
       IN  /\ n <= MaxEpochs /\ run.stale < Patience
           /\ \E ap \in Scores : asked' = Append(asked, ap) /\ answer' = Epoch(run, n, ap)

EnginesNext ==
    \/ ReconcileCall \/ AnalyzeKycCall \/ LookBackCall \/ SplitCall \/ ThresholdCall \/ TrainCall
EnginesSpec == EnginesInit /\ [][EnginesNext]_enginesVars

-----------------------------------------------------------------------------
(* PROPERTIES.  What each engine promises is stated next to it.            *)

\* A transaction is reconciled exactly when it is posted once and the posting
\* agrees with it, in whatever order the ledger lists its records; later
\* looks find no less, and the evidence shows every finding on the focus and
\* counts nothing of it as context (matcher.py, rules.py, service.py:23-37,
\* agents/reconciliation/agent.py).
ReconciliationIsFaithful ==
    call = "reconciliation" =>
        /\ ResultIsFaithful(asked.tx, asked.ledger, asked.as_of)
        /\ EvidenceIsComplete({asked.tx}, asked.context, asked.ledger, asked.as_of)

\* A document in doubt never reaches a decision below REVIEW, although only
\* the first candidates of a shortlist are looked at, and a document without
\* doubt or tie raises nothing (entity_matcher.py:29-79, agent.py:33-71,
\* policy_checks.py:101-109).
DoubtForcesReview ==
    call = "kyc" => KycDoubtForcesReview(asked.doc, asked.own, asked.shortlist, asked.ranking)

\* Every figure about a transaction comes from its customer's earlier
\* transactions alone, the model and the analyst are told the same, and a
\* transaction that happens later changes no figure of an earlier one
\* (builder.py:84-167, evidence.py:120-146, governance_scoring.py:69-83).
OnlyThePastCounts ==
    call = "behaviour" =>
        /\ FeaturesLookBack(rows, Len(rows)) /\ PastIsTheSame(rows, Len(rows))
        /\ LET before == SubSeq(rows, 1, Len(rows) - 1)
           IN  \A i \in DOMAIN before : /\ Features(before, i) = Features(rows, i)
                                       /\ Evidence(before, i) = Evidence(rows, i)
                                       /\ Governance(before, i) = Governance(rows, i)

\* No episode of an anomaly and no row is both learnt from and judged by, no
\* other threshold would flag better on the validation rows, and the weights
\* kept are the best that training saw (splits.py:25-56, metrics/anomaly.py,
\* neural/common.py).
FittingIsSound ==
    /\ call = "split" => SplitIsSound(asked.times, asked.episodes)
    /\ call = "threshold" => ThresholdIsBest(asked.labels, asked.scores)
    /\ call = "train" => KeepsTheBestEpoch(asked, answer)
=============================================================================
