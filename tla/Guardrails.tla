----------------------------- MODULE Guardrails -----------------------------
(***************************************************************************)
(* The deterministic checks of an investigation before a person sees it:   *)
(* guardrails/self_critique.py and guardrails/policy_checks.py, in their   *)
(* default configuration.  What the engines found implies a floor for the  *)
(* advisory decision; the model may go above it and never below.           *)
(*                                                                         *)
(* Of the texts and payloads of an evidence item only what the checks read *)
(* is kept: the rule and severity of a reconciliation finding and the      *)
(* signs of concern.  Whether a claim of the model is supported by what it *)
(* cites is decided by guardrails/evidence_validator.py from the texts;    *)
(* here an investigation carries the verdicts its claims will get.  The    *)
(* governance items (ESG-...) come from no step of the workflow, and the   *)
(* flags that are no violation are left out.                               *)
(***************************************************************************)
EXTENDS Naturals

Sign == {"others",       \* another strong candidate record
         "notFirst",     \* the own record is not the best match
         "dob",          \* date-of-birth conflict
         "flagged",      \* by the anomaly model
         "instruction"}  \* the text reads like an instruction

\* Settlement-status observations, not integrity faults.
STATUS_RULES == {"REC-009", "REC-010"}

\* None is below every decision.
DECISION_RANK == [none |-> 0, CLEAR |-> 1, REVIEW |-> 2, ESCALATE |-> 3]

\* max(candidates, key=DECISION_RANK).  (Seeded fault: the model wins.)
StrongerModel(d, e) == IF d = "none" THEN e ELSE d
Stronger(d, e) == IF DECISION_RANK[d] >= DECISION_RANK[e] THEN d ELSE e

\* suspicious_evidence: a free text that a third party wrote.
Suspicious(e) == "instruction" \in e.signs

\* engine_floor: the items that ask for a person's review.
ForcesReview(e) ==
    \/ /\ e.kind = "REC" /\ e.rule \notin STATUS_RULES
       /\ e.severity \in {"medium", "high"}
    \/ e.kind = "ANOM" /\ "flagged" \in e.signs
    \/ e.kind = "KYCM" /\ e.signs \cap {"others", "notFirst", "dob"} # {}
    \/ Suspicious(e)

Engine_floor(evidence) ==
    IF \E e \in evidence : ForcesReview(e) THEN "REVIEW" ELSE "none"

-----------------------------------------------------------------------------
Verdict == {"supported", "unsupported", "unverifiable"}

\* An investigation: the recommended action, the verdicts its claims will
\* get, and whether its summary only states values of the evidence.
Investigation == [action : {"CLEAR", "REVIEW", "ESCALATE"},
                  claims : SUBSET Verdict, grounded : BOOLEAN]
NoInvestigation == [action |-> "none", claims |-> {}, grounded |-> TRUE]

\* check_policies: what makes an output unacceptable as it is.
Violation == {"CLEAR_BELOW_ENGINE_FLOOR", "CLEAR_WITH_UNSUPPORTED_CLAIMS",
              "CLEAR_WITHOUT_SUPPORTED_EVIDENCE", "SUMMARY_NOT_GROUNDED"}
Violations(floor, inv) ==
    {v \in Violation :
        CASE v = "CLEAR_BELOW_ENGINE_FLOOR"         -> inv.action = "CLEAR" /\ floor # "none"
          [] v = "CLEAR_WITH_UNSUPPORTED_CLAIMS"    -> inv.action = "CLEAR" /\ "unsupported" \in inv.claims
          [] v = "CLEAR_WITHOUT_SUPPORTED_EVIDENCE" -> inv.action = "CLEAR" /\ "supported" \notin inv.claims
          [] v = "SUMMARY_NOT_GROUNDED"             -> ~inv.grounded}

\* (Seeded fault: violations are shown but do not count.)
AcceptedAnyway(violations, inv) == inv # NoInvestigation /\ "unsupported" \notin inv.claims
Accepted(violations, inv) ==
    inv # NoInvestigation /\ "unsupported" \notin inv.claims /\ violations = {}

\* SelfCritique.review
Critique(evidence, inv) ==
    LET floor      == Engine_floor(evidence)
        violations == Violations(floor, inv)
        raised     == IF "unsupported" \in inv.claims THEN "REVIEW" ELSE "none"
    IN  [ran        |-> TRUE,
         decision   |-> Stronger(Stronger(inv.action, floor), raised),
         violations |-> violations,
         validated  |-> Accepted(violations, inv)]
NoReview == [ran |-> FALSE, decision |-> "none", violations |-> {},
             validated |-> FALSE]
Review   == [ran : BOOLEAN, decision : DOMAIN DECISION_RANK,
             violations : SUBSET Violation, validated : BOOLEAN]
=============================================================================
