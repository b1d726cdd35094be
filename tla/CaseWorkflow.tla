---------------------------- MODULE CaseWorkflow ----------------------------
(***************************************************************************)
(* One case going through agents/coordinator/workflow.py: created for the  *)
(* focus transactions of a request, taken through its eight steps by       *)
(* run(), and signed off.  Each step is one action: what the agent it      *)
(* calls may return, what the coordinator merges into the case and the     *)
(* event it logs.  Any step may raise instead; the case then goes to       *)
(* HUMAN_REVIEW with the name of the step and a report of what exists,     *)
(* and writing that report may raise as well.                              *)
(*                                                                         *)
(* Evidence is a set of items whose identifier is <<kind, of, rule>>.  An  *)
(* engine produces an item for every position of the focus list (nth), so  *)
(* two items with one identifier are the duplicate ids of the code.  The   *)
(* canonical case and the knowledge chunks change nothing that is told     *)
(* apart here.                                                             *)
(***************************************************************************)
EXTENDS SignOffRules, Guardrails, Sequences

CONSTANTS Customer,        \* the customer whose case it is
          Case,            \* its identifier
          History,         \* the customer's transactions, oldest first
          Unknown,         \* an identifier that is none of them
          Documents,       \* the customer's identity documents
          KycSigns,        \* what matching a document may show
          Findings,        \* what reconciling a transaction may show
          Investigations,  \* what the model may answer
          MaxFocus         \* bound: the length of a request's list
                           \*        (20 in schemas/api.py)

Transactions == {History[i] : i \in DOMAIN History}
Focus        == 1 .. MaxFocus

\* A rule finds at most one thing wrong with a transaction, and the two
\* status rules are of medium severity (reconciliation/rules.py).
Rules       == {"REC-001", "REC-002", "REC-003", "REC-004", "REC-005",
                "REC-006", "REC-007", "REC-008"} \cup STATUS_RULES
Discrepancy == {d \in [rule : Rules, severity : {"low", "medium", "high"}] :
                    d.rule \in STATUS_RULES => d.severity = "medium"}

ASSUME HistoryAssumption == /\ History \in Seq(Transactions) /\ History # <<>>
                            /\ Unknown \notin Transactions
ASSUME EngineAssumption  ==
    /\ KycSigns \subseteq SUBSET {"others", "notFirst", "dob", "instruction"}
    /\ Findings \subseteq SUBSET Discrepancy
    /\ \A f \in Findings : \A d, e \in f : d.rule = e.rule => d = e
    /\ Investigations \subseteq Investigation
ASSUME FocusAssumption == MaxFocus \in Nat \ {0}

Item == [kind     : {"KYC", "KYCM", "TXN", "BEH", "ANOM", "REC", "CONTEXT"},
         of       : {Customer, Case} \cup Documents \cup Transactions,
         rule     : Rules \cup {"none"},
         severity : {"low", "medium", "high", "none"},
         signs    : SUBSET Sign,
         nth      : Focus]

Id(e)  == <<e.kind, e.of, e.rule>>
Ids(s) == {Id(e) : e \in s}
Unique(s) == \A e, f \in s : Id(e) = Id(f) => e = f

\* An item that carries no sign of concern.
Plain(kind, of, nth) == [kind |-> kind, of |-> of, rule |-> "none",
                         severity |-> "none", signs |-> {}, nth |-> nth]

VARIABLES focus,          \* the transactions the case is about, as requested
          status,         \* CaseStatus; "none" before the case exists
          findings,       \* kyc_findings, anomaly_findings, reconciliation_results:
                          \*   the items that the report's engine facts cite
          evidence,       \* the items merged by add_evidence
          investigation,  \* the model's answer, if it gave a valid one
          is_mock,        \* a mock provider gave it
          review,         \* the critique, once the review step has run
          report,         \* what the people will read
          failed_step,    \* the step that raised
          sign_off,       \* the decision of the people
          trail           \* audit_trail

caseVars == <<focus, sign_off>>
vars == <<focus, status, findings, evidence, investigation, is_mock, review,
          report, failed_step, sign_off, trail>>

-----------------------------------------------------------------------------
(* STEPS, and what the trail says of them.                                 *)

Step(name, from, to) == [name |-> name, from |-> from, to |-> to]
Steps ==
    << Step("prepare_data",       "CASE_CREATED",            "DATA_READY"),
       Step("analyze_kyc",        "DATA_READY",              "KYC_ANALYZED"),
       Step("analyze_anomalies",  "KYC_ANALYZED",            "ANOMALY_ANALYZED"),
       Step("reconcile",          "ANOMALY_ANALYZED",        "RECONCILED"),
       Step("retrieve_knowledge", "RECONCILED",              "EVIDENCE_RETRIEVED"),
       Step("investigate",        "EVIDENCE_RETRIEVED",      "INVESTIGATION_GENERATED"),
       Step("review",             "INVESTIGATION_GENERATED", "SELF_CRITIQUED"),
       Step("generate_report",    "SELF_CRITIQUED",          "HUMAN_REVIEW") >>
StepNames == {Steps[i].name : i \in DOMAIN Steps}

Status == {"none", "CASE_CREATED", "CLOSED"} \cup {Steps[i].to : i \in DOMAIN Steps}

Ev(action, from, to, ok) == [action |-> action, from |-> from, to |-> to, ok |-> ok]
Event == [action : StepNames \cup {"create_case", "route_to_human_review", "sign_off"},
          from : Status, to : Status, ok : BOOLEAN]

NoReport == [proposed |-> "none", advisory |-> "none", validated |-> FALSE,
             facts |-> {}, warnings |-> {"NO_REPORT"}]
Report   == [proposed : DOMAIN DECISION_RANK, advisory : DOMAIN DECISION_RANK,
             validated : BOOLEAN,
             facts : SUBSET {Id(e) : e \in Item},
             warnings : SUBSET {"NO_REPORT", "MOCK", "UNVALIDATED", "INCOMPLETE",
                                "NO_INVESTIGATION", "CONSISTENCY", "POLICY"}]

Init ==
    /\ focus = <<>> /\ status = "none"
    /\ findings = {} /\ evidence = {}
    /\ investigation = NoInvestigation /\ is_mock = FALSE
    /\ review = NoReview /\ report = NoReport
    /\ failed_step = "none" /\ sign_off = NoSignOff
    /\ trail = <<>>

-----------------------------------------------------------------------------
(* create_case                                                             *)

Requested(ids) == IF ids = <<>> THEN <<History[Len(History)]>> ELSE ids

Known(ids) == \A i \in DOMAIN ids : ids[i] \in Transactions

Create(ids) ==
    /\ status = "none"
    /\ Known(Requested(ids))
    /\ focus'  = Requested(ids)
    /\ status' = "CASE_CREATED"
    /\ trail'  = <<Ev("create_case", "none", "CASE_CREATED", TRUE)>>
    /\ UNCHANGED <<findings, evidence, investigation, is_mock, review, report,
                   failed_step, sign_off>>

CreateCase == \E n \in 0 .. MaxFocus :
              \E ids \in [1 .. n -> Transactions \cup {Unknown}] : Create(ids)

-----------------------------------------------------------------------------
(* The report.                                                             *)

\* (Seeded fault: the flags of the anomaly model are forgotten.)
ConcernsUnflagged == {e \in findings : \/ e.severity = "high"
                                       \/ e.signs \cap {"others", "notFirst"} # {}}
\* _engine_concerns
Concerns == {e \in findings : \/ e.severity = "high"
                              \/ e.signs \cap {"flagged", "others", "notFirst"} # {}}

\* _engine_facts: every fact cites the item of its finding.
Facts == Ids(findings)

Validated == review.validated /\ ~is_mock

Warnings(failed) ==
    {w \in {"MOCK", "UNVALIDATED", "INCOMPLETE", "NO_INVESTIGATION",
            "CONSISTENCY", "POLICY"} :
        CASE w = "MOCK"             -> is_mock
          [] w = "UNVALIDATED"      -> ~Validated
          [] w = "INCOMPLETE"       -> failed # "none"
          [] w = "NO_INVESTIGATION" -> investigation = NoInvestigation
          [] w = "CONSISTENCY"      -> /\ ~review.ran
                                       /\ investigation.action = "CLEAR"
                                       /\ Concerns # {}
          [] w = "POLICY"           -> review.violations # {}}

\* ReportAgent.generate, after the step `failed` has raised ("none": none has).
Generate(failed) ==
    [proposed  |-> investigation.action,
     advisory  |-> IF review.ran THEN review.decision ELSE investigation.action,
     validated |-> Validated,
     facts     |-> Facts,
     warnings  |-> Warnings(failed)]

-----------------------------------------------------------------------------
(* run(): the steps in order, each when the case has the status it expects. *)

Completes(i) ==
    /\ status = Steps[i].from
    /\ status' = Steps[i].to
    /\ trail' = Append(trail, Ev(Steps[i].name, Steps[i].from, Steps[i].to, TRUE))
    /\ UNCHANGED <<caseVars, failed_step>>

\* The findings of an engine and add_evidence, which raises on an id that an
\* earlier step has used (no two steps make items of one kind, so none does).
\* (Seeded fault: the new items replace the old ones.)
ExtendedFresh(items) == items
Extended(items) == evidence \cup items

Merge(items, cited) ==
    /\ Ids(items) \cap Ids(evidence) = {}
    /\ findings' = findings \cup cited
    /\ evidence' = Extended(items)
    /\ UNCHANGED <<investigation, is_mock, review, report>>

PrepareData ==
    /\ Completes(1)
    /\ UNCHANGED <<findings, evidence, investigation, is_mock, review, report>>

AnalyzeKyc ==
    /\ Completes(2)
    /\ \E shown \in [Documents -> KycSigns] :
          LET matches == {[Plain("KYCM", d, 1) EXCEPT !.signs = shown[d]] : d \in Documents}
          IN  Merge(matches \cup {Plain("KYC", Customer, 1)}, matches)

\* The score of the anomaly model, which depends on the transaction only, and
\* the transaction and behaviour items.
Scores(flagged) ==
    {[Plain("ANOM", focus[n], n) EXCEPT !.signs = {s \in {"flagged"} : focus[n] \in flagged}] :
        n \in DOMAIN focus}
Behaviour == {Plain(k, focus[n], n) : k \in {"TXN", "BEH"}, n \in DOMAIN focus}

AnalyzeAnomalies ==
    /\ Completes(3)
    /\ \E flagged \in SUBSET Transactions :
          Merge(Scores(flagged) \cup Behaviour, Scores(flagged))

\* One item per discrepancy, or one that says there is none.
Reconcile ==
    /\ Completes(4)
    /\ \E found \in [Transactions -> Findings] :
          LET wrong(n) == {[Plain("REC", focus[n], n) EXCEPT !.rule = d.rule, !.severity = d.severity] :
                              d \in found[focus[n]]}
              results  == UNION {IF found[focus[n]] = {} THEN {Plain("REC", focus[n], n)} ELSE wrong(n) :
                                    n \in DOMAIN focus}
          IN  Merge(results \cup {Plain("CONTEXT", Case, 1)}, results)

RetrieveKnowledge ==
    /\ Completes(5)
    /\ UNCHANGED <<findings, evidence, investigation, is_mock, review, report>>

\* The prompt cannot be built from duplicate ids.  No valid answer after the
\* repair attempts leaves no investigation.
Investigate ==
    /\ Completes(6)
    /\ Unique(evidence)
    /\ investigation' \in Investigations \cup {NoInvestigation}
    /\ is_mock' \in BOOLEAN
    /\ UNCHANGED <<findings, evidence, review, report>>

ReviewCase ==
    /\ Completes(7)
    /\ review' = Critique(evidence, investigation)
    /\ UNCHANGED <<findings, evidence, investigation, is_mock, report>>

GenerateReport ==
    /\ Completes(8)
    /\ report' = Generate("none")
    /\ UNCHANGED <<findings, evidence, investigation, is_mock, review>>

\* (Seeded fault: the run goes on with the next step.)
FailedStatusNext(i) == Steps[i].to
FailedStatus(i) == "HUMAN_REVIEW"

\* (Seeded fault: the change of status is not logged.)
FailureEventsUnrouted(i, reported) ==
    << Ev(Steps[i].name, Steps[i].from, Steps[i].from, FALSE) >>
FailureEvents(i, reported) ==
    << Ev(Steps[i].name, Steps[i].from, Steps[i].from, FALSE) >>
    \o (IF reported THEN <<>>
        ELSE << Ev("generate_report", Steps[i].from, "HUMAN_REVIEW", FALSE) >>)
    \o << Ev("route_to_human_review", Steps[i].from, "HUMAN_REVIEW", TRUE) >>

\* _fail
Fail(i) ==
    /\ status = Steps[i].from
    /\ status' = FailedStatus(i)
    /\ failed_step' = Steps[i].name
    /\ \E reported \in BOOLEAN :
          /\ report' = IF reported THEN Generate(Steps[i].name) ELSE report
          /\ trail'  = trail \o FailureEvents(i, reported)
    /\ UNCHANGED <<caseVars, findings, evidence, investigation, is_mock, review>>

Run == \/ PrepareData \/ AnalyzeKyc \/ AnalyzeAnomalies \/ Reconcile
       \/ RetrieveKnowledge \/ Investigate \/ ReviewCase \/ GenerateReport
       \/ \E i \in DOMAIN Steps : Fail(i)

-----------------------------------------------------------------------------
\* sign_off_case
SignOffCase ==
    \E by \in Analysts, second \in Analysts \cup {NoOne}, d \in Decision, reasoned \in BOOLEAN :
        /\ MaySignOff(status, by, d, second, reasoned)
        /\ sign_off' = [by |-> by, second |-> second, decision |-> d]
        /\ status' = "CLOSED"
        /\ trail' = Append(trail, Ev("sign_off", "HUMAN_REVIEW", "CLOSED", TRUE))
        /\ UNCHANGED <<focus, findings, evidence, investigation, is_mock, review,
                       report, failed_step>>

Next == CreateCase \/ Run \/ SignOffCase

\* run() is a loop of one thread; nobody is obliged to ask or to sign off.
Spec == Init /\ [][Next]_vars /\ WF_vars(Run)

-----------------------------------------------------------------------------
(* What must hold.                                                         *)

\* Every variable keeps its type; the case is about known transactions.
TypeOK ==
    /\ focus \in UNION {[1 .. n -> Transactions] : n \in 0 .. MaxFocus}
    /\ status \in Status
    /\ (focus = <<>>) = (status = "none")
    /\ findings \subseteq Item /\ evidence \subseteq Item
    /\ investigation \in Investigation \cup {NoInvestigation}
    /\ is_mock \in BOOLEAN
    /\ review \in Review
    /\ report \in Report \cup {NoReport}
    /\ failed_step \in StepNames \cup {"none"}
    /\ sign_off \in SignOff \cup {NoSignOff}
    /\ trail \in Seq(Event)

\* The trail alone tells where the case is: every event starts from the
\* status that the last successful one before it reached, failures included,
\* and the last successful event reached the present status.  (workflow.py
\* writes status and event in separate statements, and _fail several events.)
Reaches(t, i, s) == \E j \in 1 .. i : /\ t[j].ok /\ t[j].to = s
                                     /\ \A k \in j + 1 .. i : ~t[k].ok
Replays(t, s) == /\ t[1] = Ev("create_case", "none", "CASE_CREATED", TRUE)
                 /\ \A i \in 2 .. Len(t) : Reaches(t, i - 1, t[i].from)
                 /\ Reaches(t, Len(t), s)
TrailReplays == trail # <<>> => Replays(trail, status)

\* Nothing continues silently past a failure: once a step has raised no
\* other step runs, the case has gone to the people, and they read a report
\* that says it is incomplete unless the trail says it could not be written.
\* A report of a run without a failure never says so.
FailureIsTold ==
    \E i \in DOMAIN trail :
        /\ trail[i].action = failed_step /\ ~trail[i].ok
        /\ \A j \in DOMAIN trail : j > i =>
              \/ trail[j].action \in {"route_to_human_review", "sign_off"}
              \/ trail[j].action = "generate_report" /\ ~trail[j].ok
        /\ \/ "INCOMPLETE" \in report.warnings
           \/ \E j \in DOMAIN trail : /\ j > i /\ ~trail[j].ok
                                      /\ trail[j].action = "generate_report"
FailureReachesReviewer ==
    /\ failed_step # "none" => status \in {"HUMAN_REVIEW", "CLOSED"} /\ FailureIsTold
    /\ report # NoReport => ("INCOMPLETE" \in report.warnings) = (failed_step # "none")

\* Every fact of the report is backed by an item of evidence it can be
\* looked up in, in a report of a failed run too: findings and evidence are
\* merged by different statements, and a step may raise between engines.
FactsAreBacked == report.facts \subseteq Ids(evidence)

\* A validated report has passed everything: each engine has looked at each
\* transaction and document, every item can be cited without ambiguity, a
\* real model answered, nothing it claims is unsupported, and the advice is
\* its own, not below what the engines found.
DocumentsExamined == \A d \in Documents : \E e \in evidence : e.kind = "KYCM" /\ e.of = d
FocusExamined(k)  == \A n \in DOMAIN focus : \E e \in evidence : e.kind = k /\ e.of = focus[n]
Examined == /\ DocumentsExamined
            /\ \A k \in {"TXN", "BEH", "ANOM", "REC"} : FocusExamined(k)
ValidatedIsSound ==
    report.validated =>
        /\ Examined /\ Unique(evidence)
        /\ investigation # NoInvestigation /\ ~is_mock
        /\ "unsupported" \notin investigation.claims /\ investigation.grounded
        /\ report.advisory = investigation.action
        /\ DECISION_RANK[report.advisory] >= DECISION_RANK[Engine_floor(evidence)]

\* Once the review has run the advice is at least what the engines ask for
\* and at least what the model proposed; only the model can bring in an
\* escalation, so engines and guardrails alone never accuse anyone.
ReviewedAdviceIsBounded ==
    review.ran /\ report # NoReport =>
        /\ DECISION_RANK[report.advisory] >= DECISION_RANK[Engine_floor(evidence)]
        /\ DECISION_RANK[report.advisory] >= DECISION_RANK[report.proposed]
        /\ report.advisory = "ESCALATE" => report.proposed = "ESCALATE"

\* Advice to clear a case about which an engine has a grave concern always
\* comes with the consistency warning; that the guardrails did not run is
\* then the only way it can be.
Grave(e) == \/ e.kind = "REC" /\ e.severity = "high"
            \/ e.kind = "ANOM" /\ "flagged" \in e.signs
            \/ e.kind = "KYCM" /\ e.signs \cap {"others", "notFirst"} # {}
ClearIsWarned ==
    report.advisory = "CLEAR" /\ (\E e \in evidence : Grave(e)) =>
        /\ "CONSISTENCY" \in report.warnings
        /\ failed_step = "review"

\* Why these hold.  What the engines have found is evidence, and what is
\* grave of it is in the facts.
FindingsAreEvidence ==
    /\ findings \subseteq evidence
    /\ \A e \in evidence : Grave(e) => e \in findings
    /\ \A e \in evidence : e.kind = "REC" /\ e.rule \in STATUS_RULES => e.severity = "medium"

\* What a step has contributed is there in every later status, and in every
\* case that has been reviewed.
From(i) == {Steps[j].to : j \in i .. 7}
EvidenceGrows ==
    /\ status \in From(2) \/ review.ran => DocumentsExamined
    /\ status \in From(3) \/ review.ran => \A k \in {"TXN", "BEH", "ANOM"} : FocusExamined(k)
    /\ status \in From(4) \/ review.ran => FocusExamined("REC")
    /\ status \in From(6) \/ review.ran => Unique(evidence)

\* Review and report are of the present evidence and answer: nothing changes
\* below them, and the only answer without a review is one whose review failed.
Delivered == {"HUMAN_REVIEW", "CLOSED"}
AdviceIsCurrent ==
    /\ investigation # NoInvestigation => status \in From(6) \cup Delivered
    /\ review # NoReview => /\ status \in From(7) \cup Delivered
                           /\ review = Critique(evidence, investigation)
    /\ report # NoReport => status \in Delivered /\ report = Generate(failed_step)
    /\ failed_step # "none" => status \in Delivered
    /\ status \in From(7) => review # NoReview
    /\ status \in Delivered /\ review = NoReview /\ investigation # NoInvestigation =>
         failed_step = "review"

TrailIsThere == (trail = <<>>) = (status = "none")

WorkflowInvariant ==
    /\ TypeOK
    /\ FindingsAreEvidence
    /\ EvidenceGrows
    /\ AdviceIsCurrent
    /\ TrailIsThere /\ TrailReplays
    /\ FailureReachesReviewer

\* The workflow is a case of the service's life cycle: it is delivered once,
\* always in the end, and decided by enough people.
StageOf(s) == CASE s = "none"         -> "absent"
                [] s = "HUMAN_REVIEW" -> "review"
                [] s = "CLOSED"       -> "closed"
                [] OTHER              -> "analysis"
Lifecycle == INSTANCE CaseLifecycle WITH
    Cases    <- {Case},
    stage    <- [c \in {Case} |-> StageOf(status)],
    proposal <- [c \in {Case} |-> NoOne],
    verdict  <- [c \in {Case} |-> sign_off]
ImplementsLifecycle == Lifecycle!Spec

-----------------------------------------------------------------------------
(* What the documents say and the code does not do: neither holds, and     *)
(* README.md says what happens instead.                                    *)

\* agents/contracts.py:145: the advisory decision is "never lower than the
\* engine floor".  It is when the review step fails after an answer of CLEAR.
AdvisoryNeverBelowFloor ==
    report.advisory # "none" =>
        DECISION_RANK[report.advisory] >= DECISION_RANK[Engine_floor(evidence)]

\* guardrails/self_critique.py:6-7: "Unsupported claims and policy violations
\* mark the output as NOT validated and raise the advisory decision to at
\* least REVIEW."  A CLEAR whose summary is not grounded stays CLEAR.
ViolationsRaiseToReview ==
    review.violations # {} => DECISION_RANK[review.decision] >= DECISION_RANK["REVIEW"]
=============================================================================
