---------------------------- MODULE KycMatching ----------------------------
(***************************************************************************)
(* An identity document against the customer master: kyc/ in the system    *)
(* "hybrid_structured" with its default weights, the auditor's finding     *)
(* (agents/auditor/agent.py) and the evidence the floor of Guardrails is   *)
(* drawn from.                                                             *)
(*                                                                         *)
(* A canonical name is its sequence of tokens, already without case,       *)
(* accents and punctuation.  How alike two names or two free-form          *)
(* addresses look is the libraries' (BM25, embeddings, rapidfuzz) and is a *)
(* parameter; scores are percent, final scores per mille.                  *)
(***************************************************************************)
EXTENDS Guardrails, Sequences, FiniteSets, FiniteSetsExt

CONSTANTS Customers,             \* the master: a sequence of customers
          Similar(_, _),         \* the hybrid score of two canonical names
          UnstructuredRatio,     \* of two addresses that are not the same
          TopK,                  \* MatcherConfig.top_k: 20
          TopN                   \* TOP_N: 5

MatchThreshold == 650
HighMargin     == 100

\* With one result alone nobody would hear of another strong candidate.
ASSUME MatcherAssumption ==
    /\ TopK \in Nat \ {0} /\ TopN \in Nat \ {0, 1} /\ UnstructuredRatio \in 0 .. 100
    /\ Customers \in Seq({Customers[i] : i \in DOMAIN Customers}) /\ Customers # <<>>
    /\ \A i \in DOMAIN Customers : IsFiniteSet(Customers[i].alternates)

-----------------------------------------------------------------------------
(* Normalisation.  A raw name is what stands before and after a comma.     *)

Reordered(raw) == raw.comma /\ raw.before # <<>> /\ raw.after # <<>>

Canonical(raw) == IF Reordered(raw) THEN raw.after \o raw.before ELSE raw.before \o raw.after

\* normalize_name raises when nothing is left.
UsableName(raw) == Canonical(raw) # <<>>

\* canonicalize_customer: alternate names that are unusable are dropped, a
\* primary name may not be.
NamesOf(c) == {Canonical(c.name)} \cup {Canonical(a) : a \in {b \in c.alternates : UsableName(b)}}

ComponentWeight == [number |-> 25, street |-> 25, city |-> 30, country |-> 20]

-----------------------------------------------------------------------------
(* scoring/structured.py                                                   *)

Transposed(p, q) == p.year = q.year /\ p.day = q.month /\ p.month = q.day
DobScore(p, q) == IF p = q THEN 100 ELSE IF Transposed(p, q) THEN 50 ELSE 0
DobContradicts(p, q) == p # q

Weighed(k, a, b) == IF a.parts[k] = b.parts[k] THEN ComponentWeight[k] ELSE 0
\* normalize_address keeps an address it cannot parse as it is.
AddressScore(a, b) ==
    IF a = b THEN 100
    ELSE IF ~(a.parsed /\ b.parsed) THEN UnstructuredRatio
    ELSE Weighed("number", a, b) + Weighed("street", a, b) + Weighed("city", a, b)
           + Weighed("country", a, b)

\* CandidateScorer: half the name, and of the other half six tenths the date
\* of birth and four the address.
NameScore(doc, c) == Max({Similar(Canonical(doc.name), n) : n \in NamesOf(c)})
Score(doc, c) == 5 * NameScore(doc, c) + 3 * DobScore(doc.dob, c.dob)
                 + 2 * AddressScore(doc.address, c.address)

IsMatch(score)    == score >= MatchThreshold
Confidence(score) == IF score >= MatchThreshold + HighMargin THEN "high"
                     ELSE IF IsMatch(score) THEN "medium" ELSE "low"

\* _top_k keeps the TopK best names; argpartition leaves it open which of
\* equal ones stay and in which order, and the final sort is stable.
Shortlists(doc) ==
    LET size == IF TopK < Len(Customers) THEN TopK ELSE Len(Customers)
    IN  {s \in SUBSET DOMAIN Customers :
            /\ Cardinality(s) = size
            /\ \A i \in s : \A j \in DOMAIN Customers \ s :
                   NameScore(doc, Customers[i]) >= NameScore(doc, Customers[j])}
Rankings(doc, s) ==
    {r \in [1 .. Cardinality(s) -> s] :
        \A i, j \in 1 .. Cardinality(s) :
            i < j => r[i] # r[j] /\ Score(doc, Customers[r[i]]) >= Score(doc, Customers[r[j]])}

-----------------------------------------------------------------------------
(* analyze_kyc, and what the floor makes of it.                            *)

Results(ranking) == IF Len(ranking) <= TopN THEN ranking ELSE SubSeq(ranking, 1, TopN)

\* The finding on a document of the customer own; rank 0 is None.
Finding(doc, own, ranking) ==
    LET results == Results(ranking)
        ranks   == {i \in DOMAIN results : results[i] = own}
    IN  [rank       |-> IF ranks = {} THEN 0 ELSE Min(ranks),
         confidence |-> IF ranks = {} THEN "none" ELSE Confidence(Score(doc, Customers[own])),
         dob        |-> ranks # {} /\ DobContradicts(doc.dob, Customers[own].dob),
         others     |-> {results[i] : i \in {i \in DOMAIN results :
                            results[i] # own /\ IsMatch(Score(doc, Customers[results[i]]))}}]

\* (Seeded fault: a customer that is not among the results is no concern.)
NotFirstIfRanked(f) == f.rank > 1
NotFirst(f) == f.rank # 1

Kyc_match_evidence(f, document) ==
    [kind |-> "KYCM", of |-> document, rule |-> "none", severity |-> "none", nth |-> 1,
     signs |-> (IF f.others # {} THEN {"others"} ELSE {})
               \cup (IF NotFirst(f) THEN {"notFirst"} ELSE {})
               \cup (IF f.dob THEN {"dob"} ELSE {})]

\* A document in doubt is never below REVIEW, although only TopN of the TopK
\* candidates are looked at: when another record reaches the threshold or
\* outscores the customer's own, when the dates of birth differ, or when the
\* own record is not even a candidate.  Without any of these, and without a
\* tie, it raises nothing (entity_matcher.py:29-79, agent.py:33-71,
\* policy_checks.py:101-109).
KycDoubtForcesReview(doc, own, s, ranking) ==
    LET score(i) == Score(doc, Customers[i])
        doubt == \/ own \notin s
                 \/ DobContradicts(doc.dob, Customers[own].dob)
                 \/ \E i \in s \ {own} : IsMatch(score(i)) \/ score(i) > score(own)
        tie   == own \in s /\ \E i \in s \ {own} : score(i) = score(own)
        floor == Engine_floor({Kyc_match_evidence(Finding(doc, own, ranking), "doc")})
    IN  /\ doubt => floor = "REVIEW"
        /\ floor # "none" => doubt \/ tie
=============================================================================
