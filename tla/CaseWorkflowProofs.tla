------------------------- MODULE CaseWorkflowProofs -------------------------
(***************************************************************************)
(* Proofs about CaseWorkflow, for any history, documents, findings and     *)
(* answers of the model, and requests of any length.                       *)
(***************************************************************************)
EXTENDS CaseWorkflow, SequenceTheorems, TLAPS

-----------------------------------------------------------------------------
(* The table of steps.                                                     *)

LEMMA TheSteps ==
    /\ DOMAIN Steps = 1 .. 8
    /\ Steps[1] = Step("prepare_data",       "CASE_CREATED",            "DATA_READY")
    /\ Steps[2] = Step("analyze_kyc",        "DATA_READY",              "KYC_ANALYZED")
    /\ Steps[3] = Step("analyze_anomalies",  "KYC_ANALYZED",            "ANOMALY_ANALYZED")
    /\ Steps[4] = Step("reconcile",          "ANOMALY_ANALYZED",        "RECONCILED")
    /\ Steps[5] = Step("retrieve_knowledge", "RECONCILED",              "EVIDENCE_RETRIEVED")
    /\ Steps[6] = Step("investigate",        "EVIDENCE_RETRIEVED",      "INVESTIGATION_GENERATED")
    /\ Steps[7] = Step("review",             "INVESTIGATION_GENERATED", "SELF_CRITIQUED")
    /\ Steps[8] = Step("generate_report",    "SELF_CRITIQUED",          "HUMAN_REVIEW")
  BY DEF Steps

\* The statuses from which a step runs.
Before == {"CASE_CREATED", "DATA_READY", "KYC_ANALYZED", "ANOMALY_ANALYZED", "RECONCILED",
           "EVIDENCE_RETRIEVED", "INVESTIGATION_GENERATED", "SELF_CRITIQUED"}

LEMMA StepTypes ==
    /\ StepNames = {"prepare_data", "analyze_kyc", "analyze_anomalies", "reconcile",
                    "retrieve_knowledge", "investigate", "review", "generate_report"}
    /\ Status = {"none", "CLOSED", "HUMAN_REVIEW"} \cup Before
    /\ \A i \in DOMAIN Steps : /\ Steps[i].name \in StepNames
                               /\ Steps[i].from \in Before
                               /\ Steps[i].to \in Status \ {"none", "CLOSED"}
    /\ \A i \in DOMAIN Steps : Steps[i].name = "review" <=> Steps[i].from = "INVESTIGATION_GENERATED"
  <1>1. \A i \in 1 .. 8 : \/ i = 1 \/ i = 2 \/ i = 3 \/ i = 4 \/ i = 5 \/ i = 6 \/ i = 7 \/ i = 8
    OBVIOUS
  <1> USE TheSteps, <1>1 DEF Step
  <1>2. StepNames = {"prepare_data", "analyze_kyc", "analyze_anomalies", "reconcile",
                     "retrieve_knowledge", "investigate", "review", "generate_report"}
    BY DEF StepNames
  <1>3. Status = {"none", "CLOSED", "HUMAN_REVIEW"} \cup Before
    BY DEF Status, Before
  <1>4. \A i \in DOMAIN Steps : /\ Steps[i].name \in StepNames
                                /\ Steps[i].from \in Before
                                /\ Steps[i].to \in Status \ {"none", "CLOSED"}
    BY <1>2, <1>3 DEF Before
  <1>5. \A i \in DOMAIN Steps : Steps[i].name = "review" <=> Steps[i].from = "INVESTIGATION_GENERATED"
    OBVIOUS
  <1> QED  BY <1>2, <1>3, <1>4, <1>5

-----------------------------------------------------------------------------
(* What the engines may add.                                               *)

Kinds == {"KYC", "KYCM", "TXN", "BEH", "ANOM", "REC", "CONTEXT"}
Subjects == {Customer, Case} \cup Documents \cup Transactions

LEMMA PlainType ==
    ASSUME NEW kind \in Kinds, NEW of \in Subjects, NEW nth \in Focus
    PROVE  /\ Plain(kind, of, nth) \in Item
           /\ \A s \in SUBSET Sign : [Plain(kind, of, nth) EXCEPT !.signs = s] \in Item
           /\ \A r \in Rules, v \in {"low", "medium", "high"} :
                 [Plain(kind, of, nth) EXCEPT !.rule = r, !.severity = v] \in Item
  BY ZenonT(60) DEF Plain, Item, Kinds, Subjects

\* Items and the findings that cite them: well-formed, nothing grave is left
\* out of the findings, and the status rules are of medium severity.
Adds(items, cited) ==
    /\ items \subseteq Item /\ cited \subseteq items
    /\ \A e \in items : Grave(e) => e \in cited
    /\ \A e \in items : e.kind = "REC" /\ e.rule \in STATUS_RULES => e.severity = "medium"

LEMMA KycAdds ==
    ASSUME TypeOK, AnalyzeKyc
    PROVE  \E items, cited : /\ Merge(items, cited) /\ Adds(items, cited)
                            /\ \A d \in Documents : \E e \in items : e.kind = "KYCM" /\ e.of = d
  <1>1. PICK shown \in [Documents -> KycSigns] :
          LET matches == {[Plain("KYCM", d, 1) EXCEPT !.signs = shown[d]] : d \in Documents}
          IN  Merge(matches \cup {Plain("KYC", Customer, 1)}, matches)
    BY DEF AnalyzeKyc
  <1> DEFINE match(d) == [Plain("KYCM", d, 1) EXCEPT !.signs = shown[d]]
             matches == {match(d) : d \in Documents}
             own     == Plain("KYC", Customer, 1)
             items   == matches \cup {own}
  <1>2. 1 \in Focus
    BY FocusAssumption DEF Focus
  <1>3. \A d \in Documents : shown[d] \in SUBSET Sign
    BY EngineAssumption DEF Sign
  <1>4. own \in Item /\ own.kind = "KYC"
    BY <1>2, PlainType DEF Kinds, Subjects, Plain
  <1>5. \A d \in Documents : match(d) \in Item
    BY <1>2, <1>3, PlainType DEF Kinds, Subjects
  <1>6. \A d \in Documents : match(d).kind = "KYCM" /\ match(d).of = d
    BY DEF Plain
  <1>7. Merge(items, matches)
    BY <1>1
  <1> HIDE DEF match, own
  <1>8. Adds(items, matches)
    <2>1. \A e \in items : e.kind # "REC"
      BY <1>4, <1>6
    <2>2. ~Grave(own)
      BY <1>4 DEF Grave
    <2> QED  BY <1>4, <1>5, <2>1, <2>2 DEF Adds
  <1>9. \A d \in Documents : \E e \in items : e.kind = "KYCM" /\ e.of = d
    BY <1>6
  <1> QED  BY <1>7, <1>8, <1>9

LEMMA FocusTypes ==
    ASSUME TypeOK
    PROVE  \A n \in DOMAIN focus : n \in Focus /\ focus[n] \in Transactions
  <1>1. PICK m \in 0 .. MaxFocus : focus \in [1 .. m -> Transactions]
    BY DEF TypeOK
  <1> QED  BY <1>1, FocusAssumption DEF Focus

LEMMA AnomaliesAdd ==
    ASSUME TypeOK, AnalyzeAnomalies
    PROVE  \E items, cited : /\ Merge(items, cited) /\ Adds(items, cited)
                            /\ \A k \in {"TXN", "BEH", "ANOM"}, n \in DOMAIN focus :
                                  \E e \in items : e.kind = k /\ e.of = focus[n]
  <1>1. PICK flagged \in SUBSET Transactions :
          Merge(Scores(flagged) \cup Behaviour, Scores(flagged))
    BY DEF AnalyzeAnomalies
  <1> DEFINE score(n) == [Plain("ANOM", focus[n], n) EXCEPT
                            !.signs = {s \in {"flagged"} : focus[n] \in flagged}]
             scores == Scores(flagged)
             items  == scores \cup Behaviour
  <1>2. \A n \in DOMAIN focus : n \in Focus /\ focus[n] \in Subjects
    BY FocusTypes DEF Subjects
  <1>3. \A n \in DOMAIN focus : score(n) \in Item
    <2> TAKE n \in DOMAIN focus
    <2>1. {s \in {"flagged"} : focus[n] \in flagged} \in SUBSET Sign
      BY DEF Sign
    <2> QED  BY <1>2, <2>1, PlainType DEF Kinds
  <1>4. \A n \in DOMAIN focus : score(n).kind = "ANOM" /\ score(n).of = focus[n]
    BY DEF Plain
  <1>5. \A k \in {"TXN", "BEH"}, n \in DOMAIN focus : Plain(k, focus[n], n) \in Item
    BY <1>2, PlainType DEF Kinds
  <1>6. \A k \in {"TXN", "BEH"}, n \in DOMAIN focus :
           Plain(k, focus[n], n).kind = k /\ Plain(k, focus[n], n).of = focus[n]
    BY DEF Plain
  <1>7. scores = {score(n) : n \in DOMAIN focus}
    BY DEF Scores
  <1> HIDE DEF score, scores
  <1>8. Adds(items, scores)
    <2>1. \A e \in items : e.kind # "REC"
      BY <1>4, <1>6, <1>7 DEF Behaviour
    <2>2. \A e \in Behaviour : ~Grave(e)
      BY <1>6 DEF Grave, Behaviour
    <2>3. items \subseteq Item
      BY <1>3, <1>5, <1>7 DEF Behaviour
    <2> QED  BY <2>1, <2>2, <2>3 DEF Adds
  <1>9. ASSUME NEW k \in {"TXN", "BEH", "ANOM"}, NEW n \in DOMAIN focus
        PROVE  \E e \in items : e.kind = k /\ e.of = focus[n]
    <2>1. CASE k = "ANOM"
      BY <1>4, <1>7, <2>1
    <2>2. CASE k # "ANOM"
      BY <1>6, <2>2 DEF Behaviour
    <2> QED  BY <2>1, <2>2
  <1>10. Merge(items, scores)
    BY <1>1 DEF scores
  <1> QED  BY <1>8, <1>9, <1>10

LEMMA ReconcileAdds ==
    ASSUME TypeOK, Reconcile
    PROVE  \E items, cited : /\ Merge(items, cited) /\ Adds(items, cited)
                            /\ \A n \in DOMAIN focus :
                                  \E e \in items : e.kind = "REC" /\ e.of = focus[n]
  <1>1. PICK found \in [Transactions -> Findings] :
          LET wrong(n) == {[Plain("REC", focus[n], n) EXCEPT !.rule = d.rule, !.severity = d.severity] :
                              d \in found[focus[n]]}
              results  == UNION {IF found[focus[n]] = {} THEN {Plain("REC", focus[n], n)} ELSE wrong(n) :
                                    n \in DOMAIN focus}
          IN  Merge(results \cup {Plain("CONTEXT", Case, 1)}, results)
    BY DEF Reconcile
  <1> DEFINE one(n, d) == [Plain("REC", focus[n], n) EXCEPT !.rule = d.rule, !.severity = d.severity]
             wrong(n)  == {one(n, d) : d \in found[focus[n]]}
             result(n) == IF found[focus[n]] = {} THEN {Plain("REC", focus[n], n)} ELSE wrong(n)
             results   == UNION {result(n) : n \in DOMAIN focus}
             items     == results \cup {Plain("CONTEXT", Case, 1)}
  <1>2. \A n \in DOMAIN focus : /\ n \in Focus /\ focus[n] \in Subjects
                                /\ found[focus[n]] \subseteq Discrepancy
    BY FocusTypes, EngineAssumption DEF Subjects
  <1>3. \A d \in Discrepancy : /\ d.rule \in Rules /\ d.severity \in {"low", "medium", "high"}
                               /\ d.rule \in STATUS_RULES => d.severity = "medium"
    BY DEF Discrepancy
  <1>4. ASSUME NEW n \in DOMAIN focus, NEW d \in found[focus[n]]
        PROVE  /\ one(n, d) \in Item
               /\ one(n, d).kind = "REC" /\ one(n, d).of = focus[n]
               /\ one(n, d).rule \in STATUS_RULES => one(n, d).severity = "medium"
    <2>1. one(n, d) \in Item
      BY <1>2, <1>3, PlainType DEF Kinds
    <2>2. one(n, d).kind = "REC" /\ one(n, d).of = focus[n]
          /\ one(n, d).rule = d.rule /\ one(n, d).severity = d.severity
      BY DEF Plain
    <2> QED  BY <1>2, <1>3, <2>1, <2>2
  <1>5. ASSUME NEW n \in DOMAIN focus
        PROVE  /\ Plain("REC", focus[n], n) \in Item
               /\ Plain("REC", focus[n], n).kind = "REC" /\ Plain("REC", focus[n], n).of = focus[n]
               /\ Plain("REC", focus[n], n).rule \notin STATUS_RULES
    BY <1>2, PlainType DEF Kinds, Plain, STATUS_RULES
  <1>6. /\ Plain("CONTEXT", Case, 1) \in Item
        /\ Plain("CONTEXT", Case, 1).kind = "CONTEXT"
    <2>1. 1 \in Focus
      BY FocusAssumption DEF Focus
    <2> QED  BY <2>1, PlainType DEF Kinds, Subjects, Plain
  <1>7. Merge(items, results)
    BY <1>1
  <1> HIDE DEF one
  <1>8. \A n \in DOMAIN focus :
           /\ result(n) # {}
           /\ \A e \in result(n) : /\ e \in Item /\ e.kind = "REC" /\ e.of = focus[n]
                                   /\ e.rule \in STATUS_RULES => e.severity = "medium"
    BY <1>4, <1>5
  <1> HIDE DEF result
  <1>9. Adds(items, results)
    <2>1. \A e \in results : /\ e \in Item
                             /\ e.kind = "REC" /\ e.rule \in STATUS_RULES => e.severity = "medium"
      BY <1>8
    <2>2. ~Grave(Plain("CONTEXT", Case, 1))
      BY <1>6 DEF Grave
    <2> QED  BY <1>6, <2>1, <2>2 DEF Adds
  <1>10. \A n \in DOMAIN focus : \E e \in items : e.kind = "REC" /\ e.of = focus[n]
    BY <1>8
  <1> QED  BY <1>7, <1>9, <1>10

-----------------------------------------------------------------------------
(* What the critique decides.                                              *)

LEMMA Ranks ==
    /\ DOMAIN DECISION_RANK = {"none", "CLEAR", "REVIEW", "ESCALATE"}
    /\ DECISION_RANK["none"] = 0 /\ DECISION_RANK["CLEAR"] = 1
    /\ DECISION_RANK["REVIEW"] = 2 /\ DECISION_RANK["ESCALATE"] = 3
  BY DEF DECISION_RANK

\* The answer has one of the ranked decisions.
LEMMA AnswerType ==
    ASSUME NEW inv \in Investigation \cup {NoInvestigation}
    PROVE  /\ inv.action \in {"none", "CLEAR", "REVIEW", "ESCALATE"}
           /\ inv.action = "none" <=> inv = NoInvestigation
  BY DEF Investigation, NoInvestigation

\* Whatever the evidence and the answer, the critique's decision is the
\* highest of what the model, the engines and the claims ask for.
LEMMA CritiqueBounds ==
    ASSUME NEW ev, NEW inv \in Investigation \cup {NoInvestigation}
    PROVE  /\ Critique(ev, inv) \in Review
           /\ Critique(ev, inv).ran
           /\ Engine_floor(ev) \in {"none", "REVIEW"}
           /\ DECISION_RANK[Critique(ev, inv).decision] >= DECISION_RANK[Engine_floor(ev)]
           /\ DECISION_RANK[Critique(ev, inv).decision] >= DECISION_RANK[inv.action]
           /\ Critique(ev, inv).decision = "ESCALATE" => inv.action = "ESCALATE"
           /\ Critique(ev, inv).validated =>
                /\ inv # NoInvestigation
                /\ "unsupported" \notin inv.claims /\ inv.grounded
                /\ Critique(ev, inv).decision = inv.action
  <1> DEFINE floor  == Engine_floor(ev)
             raised == IF "unsupported" \in inv.claims THEN "REVIEW" ELSE "none"
             violations == Violations(floor, inv)
             decision == Stronger(Stronger(inv.action, floor), raised)
  <1>1. floor \in {"none", "REVIEW"} /\ raised \in {"none", "REVIEW"}
    BY DEF Engine_floor
  <1>2. inv.action \in {"none", "CLEAR", "REVIEW", "ESCALATE"}
        /\ (inv.action = "none" <=> inv = NoInvestigation)
    BY AnswerType
  <1>3. violations \subseteq Violation
    BY DEF Violations
  <1>4. Critique(ev, inv) = [ran |-> TRUE, decision |-> decision, violations |-> violations,
                             validated |-> Accepted(violations, inv)]
    BY DEF Critique
  <1>5. Accepted(violations, inv) \in BOOLEAN
    BY DEF Accepted
  <1>6. Accepted(violations, inv) =>
          /\ inv # NoInvestigation
          /\ "unsupported" \notin inv.claims /\ violations = {}
    BY DEF Accepted
  <1>7. violations = {} => inv.grounded /\ ~(inv.action = "CLEAR" /\ floor # "none")
    BY DEF Violations, Violation
  <1> HIDE DEF floor, violations
  <1>8. /\ decision \in {"none", "CLEAR", "REVIEW", "ESCALATE"}
        /\ DECISION_RANK[decision] >= DECISION_RANK[floor]
        /\ DECISION_RANK[decision] >= DECISION_RANK[inv.action]
        /\ decision = "ESCALATE" => inv.action = "ESCALATE"
        /\ /\ inv.action # "none" /\ "unsupported" \notin inv.claims
           /\ ~(inv.action = "CLEAR" /\ floor # "none")
           => decision = inv.action
    BY <1>1, <1>2, Ranks DEF Stronger
  <1> HIDE DEF decision
  <1>9. Critique(ev, inv) \in Review
    BY <1>3, <1>4, <1>5, <1>8, Ranks DEF Review
  <1> QED  BY <1>1, <1>2, <1>4, <1>6, <1>7, <1>8, <1>9 DEF floor

-----------------------------------------------------------------------------
(* Types.                                                                  *)

LEMMA ReportType ==
    ASSUME TypeOK, NEW failed
    PROVE  Generate(failed) \in Report /\ Generate(failed) # NoReport
  <1>1. /\ investigation.action \in DOMAIN DECISION_RANK
        /\ review.ran \in BOOLEAN /\ review.decision \in DOMAIN DECISION_RANK
        /\ review.validated \in BOOLEAN /\ is_mock \in BOOLEAN
    BY AnswerType, Ranks DEF TypeOK, Review
  <1>2. Ids(findings) \subseteq {Id(e) : e \in Item}
    BY DEF TypeOK, Ids
  <1>3. Warnings(failed) \subseteq {"NO_REPORT", "MOCK", "UNVALIDATED", "INCOMPLETE",
                                   "NO_INVESTIGATION", "CONSISTENCY", "POLICY"}
        /\ "NO_REPORT" \notin Warnings(failed)
    BY DEF Warnings
  <1>4. Validated \in BOOLEAN
    BY DEF Validated
  <1> QED  BY <1>1, <1>2, <1>3, <1>4 DEF Generate, Facts, Report, NoReport

LEMMA AppendEvent ==
    ASSUME NEW t \in Seq(Event), NEW e \in Event
    PROVE  Append(t, e) \in Seq(Event)
  OBVIOUS

LEMMA OneEvent ==
    ASSUME NEW e \in Event
    PROVE  <<e>> \in Seq(Event)
  OBVIOUS

LEMMA CompletesTypes ==
    ASSUME TypeOK, NEW i \in DOMAIN Steps, Completes(i)
    PROVE  /\ focus' \in UNION {[1 .. n -> Transactions] : n \in 0 .. MaxFocus}
           /\ status' \in Status /\ (focus' = <<>>) = (status' = "none")
           /\ failed_step' \in StepNames \cup {"none"}
           /\ sign_off' \in SignOff \cup {NoSignOff}
           /\ trail' \in Seq(Event)
  <1>1. /\ Steps[i].name \in StepNames /\ Steps[i].from \in Before
        /\ Steps[i].to \in Status \ {"none", "CLOSED"}
        /\ Before \subseteq Status /\ "none" \notin Before
    BY StepTypes DEF Before
  <1>2. Ev(Steps[i].name, Steps[i].from, Steps[i].to, TRUE) \in Event
    BY <1>1 DEF Ev, Event
  <1>3. trail' \in Seq(Event)
    BY <1>2, AppendEvent DEF Completes, TypeOK
  <1> QED  BY <1>1, <1>3 DEF Completes, TypeOK, caseVars

LEMMA MergeTypes ==
    ASSUME TypeOK, NEW items, NEW cited, Merge(items, cited), Adds(items, cited)
    PROVE  /\ findings' \subseteq Item /\ evidence' \subseteq Item
           /\ investigation' = investigation /\ is_mock' = is_mock
           /\ review' = review /\ report' = report
  BY DEF TypeOK, Merge, Adds, Extended

LEMMA FailureEventsType ==
    ASSUME NEW i \in DOMAIN Steps, NEW reported \in BOOLEAN
    PROVE  FailureEvents(i, reported) \in Seq(Event)
  <1>1. /\ Steps[i].name \in StepNames /\ Steps[i].from \in Status /\ "HUMAN_REVIEW" \in Status
        /\ "generate_report" \in StepNames
    BY StepTypes
  <1>2. /\ Ev(Steps[i].name, Steps[i].from, Steps[i].from, FALSE) \in Event
        /\ Ev("generate_report", Steps[i].from, "HUMAN_REVIEW", FALSE) \in Event
        /\ Ev("route_to_human_review", Steps[i].from, "HUMAN_REVIEW", TRUE) \in Event
    BY <1>1 DEF Ev, Event
  <1> DEFINE a == Ev(Steps[i].name, Steps[i].from, Steps[i].from, FALSE)
             b == Ev("generate_report", Steps[i].from, "HUMAN_REVIEW", FALSE)
             c == Ev("route_to_human_review", Steps[i].from, "HUMAN_REVIEW", TRUE)
             m == IF reported THEN <<>> ELSE <<b>>
  <1>3. a \in Event /\ b \in Event /\ c \in Event
    BY <1>2
  <1>4. FailureEvents(i, reported) = (<<a>> \o m) \o <<c>>
    BY DEF FailureEvents
  <1> HIDE DEF a, b, c
  <1>5. <<a>> \in Seq(Event) /\ m \in Seq(Event) /\ <<c>> \in Seq(Event)
    BY <1>3
  <1> HIDE DEF m
  <1>6. (<<a>> \o m) \o <<c>> \in Seq(Event)
    BY <1>5, ConcatProperties, Zenon
  <1> QED  BY <1>4, <1>6

LEMMA InitTypes == Init => TypeOK
  <1> SUFFICES ASSUME Init PROVE TypeOK
    OBVIOUS
  <1>1. focus \in [1 .. 0 -> Transactions] /\ 0 \in 0 .. MaxFocus
    BY FocusAssumption DEF Init
  <1>2. NoReview \in Review
    BY Ranks DEF NoReview, Review
  <1>3. "none" \in Status
    BY StepTypes
  <1>4. trail \in Seq(Event)
    BY DEF Init
  <1> QED  BY <1>1, <1>2, <1>3, <1>4 DEF Init, TypeOK

LEMMA CreateTypes ==
    ASSUME TypeOK, NEW n \in 0 .. MaxFocus, NEW ids \in [1 .. n -> Transactions \cup {Unknown}],
           Create(ids)
    PROVE  TypeOK'
  <1>1. \E m \in 1 .. MaxFocus : Requested(ids) \in [1 .. m -> Transactions]
    <2>1. CASE ids = <<>>
      <3>1. Len(History) \in DOMAIN History
        BY HistoryAssumption
      <3>2. History[Len(History)] \in Transactions
        BY <3>1 DEF Transactions
      <3>3. Requested(ids) \in [1 .. 1 -> Transactions]
        BY <2>1, <3>2 DEF Requested
      <3> QED  BY <3>3, FocusAssumption
    <2>2. CASE ids # <<>>
      <3>1. Requested(ids) = ids
        BY <2>2 DEF Requested
      <3>2. n # 0
        BY <2>2
      <3>3. \A i \in 1 .. n : ids[i] \in Transactions
        BY <3>1 DEF Create, Known
      <3> QED  BY <3>1, <3>2, <3>3, FocusAssumption
    <2> QED  BY <2>1, <2>2
  <1>2. PICK m \in 1 .. MaxFocus : focus' \in [1 .. m -> Transactions]
    BY <1>1 DEF Create
  <1>3. focus' # <<>> /\ m \in 0 .. MaxFocus
    BY <1>2, FocusAssumption
  <1>4. Ev("create_case", "none", "CASE_CREATED", TRUE) \in Event
    BY DEF Ev, Event, Status
  <1>5. trail' \in Seq(Event)
    BY <1>4, OneEvent DEF Create
  <1>6. status' \in Status /\ status' # "none"
    BY DEF Create, Status
  <1> QED  BY <1>2, <1>3, <1>5, <1>6 DEF Create, TypeOK

LEMMA FailTypes ==
    ASSUME TypeOK, NEW i \in DOMAIN Steps, Fail(i)
    PROVE  TypeOK'
  <1>1. PICK reported \in BOOLEAN :
          /\ report' = IF reported THEN Generate(Steps[i].name) ELSE report
          /\ trail'  = trail \o FailureEvents(i, reported)
    BY DEF Fail
  <1>2. report' \in Report \cup {NoReport}
    BY <1>1, ReportType DEF TypeOK
  <1>3. trail' \in Seq(Event)
    BY <1>1, FailureEventsType, ConcatProperties, Zenon DEF TypeOK
  <1>4. /\ Steps[i].name \in StepNames /\ "HUMAN_REVIEW" \in Status
        /\ Steps[i].from # "none"
    BY StepTypes DEF Before
  <1> QED  BY <1>2, <1>3, <1>4 DEF Fail, FailedStatus, TypeOK, caseVars

LEMMA SignOffTypes ==
    ASSUME TypeOK, SignOffCase
    PROVE  TypeOK'
  <1>1. PICK by \in Analysts, second \in Analysts \cup {NoOne}, d \in Decision, reasoned \in BOOLEAN :
          /\ MaySignOff(status, by, d, second, reasoned)
          /\ sign_off' = [by |-> by, second |-> second, decision |-> d]
          /\ status' = "CLOSED"
          /\ trail' = Append(trail, Ev("sign_off", "HUMAN_REVIEW", "CLOSED", TRUE))
          /\ UNCHANGED <<focus, findings, evidence, investigation, is_mock, review,
                         report, failed_step>>
    BY DEF SignOffCase
  <1>2. sign_off' \in SignOff
    BY <1>1 DEF SignOff
  <1>3. Ev("sign_off", "HUMAN_REVIEW", "CLOSED", TRUE) \in Event
    BY StepTypes DEF Ev, Event
  <1>4. trail' \in Seq(Event)
    BY <1>1, <1>3, AppendEvent DEF TypeOK
  <1>5. status = "HUMAN_REVIEW" /\ status' \in Status
    BY <1>1, StepTypes DEF MaySignOff
  <1> QED  BY <1>1, <1>2, <1>4, <1>5 DEF TypeOK

\* What the steps themselves write.
ContentTypes ==
    /\ findings \subseteq Item /\ evidence \subseteq Item
    /\ investigation \in Investigation \cup {NoInvestigation} /\ is_mock \in BOOLEAN
    /\ review \in Review /\ report \in Report \cup {NoReport}

LEMMA CompletesKeepsTypes ==
    ASSUME TypeOK, NEW i \in DOMAIN Steps, Completes(i), ContentTypes'
    PROVE  TypeOK'
  BY CompletesTypes, SMTT(30) DEF TypeOK, ContentTypes

LEMMA TypesStep == TypeOK /\ [Next]_vars => TypeOK'
  <1> SUFFICES ASSUME TypeOK, [Next]_vars PROVE TypeOK'
    OBVIOUS
  <1> USE TheSteps
  <1>1. CASE CreateCase
    BY <1>1, CreateTypes DEF CreateCase
  <1>2. CASE PrepareData
    <2>1. Completes(1) /\ UNCHANGED <<findings, evidence, investigation, is_mock, review, report>>
      BY <1>2 DEF PrepareData
    <2>2. ContentTypes'
      BY <2>1 DEF TypeOK, ContentTypes
    <2> QED  BY <2>1, <2>2, CompletesKeepsTypes
  <1>3. CASE AnalyzeKyc
    <2>1. PICK items, cited : Merge(items, cited) /\ Adds(items, cited)
      BY <1>3, KycAdds
    <2>2. Completes(2)
      BY <1>3 DEF AnalyzeKyc
    <2>3. ContentTypes'
      BY <2>1, MergeTypes DEF TypeOK, ContentTypes
    <2> QED  BY <2>2, <2>3, CompletesKeepsTypes
  <1>4. CASE AnalyzeAnomalies
    <2>1. PICK items, cited : Merge(items, cited) /\ Adds(items, cited)
      BY <1>4, AnomaliesAdd
    <2>2. Completes(3)
      BY <1>4 DEF AnalyzeAnomalies
    <2>3. ContentTypes'
      BY <2>1, MergeTypes DEF TypeOK, ContentTypes
    <2> QED  BY <2>2, <2>3, CompletesKeepsTypes
  <1>5. CASE Reconcile
    <2>1. PICK items, cited : Merge(items, cited) /\ Adds(items, cited)
      BY <1>5, ReconcileAdds
    <2>2. Completes(4)
      BY <1>5 DEF Reconcile
    <2>3. ContentTypes'
      BY <2>1, MergeTypes DEF TypeOK, ContentTypes
    <2> QED  BY <2>2, <2>3, CompletesKeepsTypes
  <1>6. CASE RetrieveKnowledge
    <2>1. Completes(5) /\ UNCHANGED <<findings, evidence, investigation, is_mock, review, report>>
      BY <1>6 DEF RetrieveKnowledge
    <2>2. ContentTypes'
      BY <2>1 DEF TypeOK, ContentTypes
    <2> QED  BY <2>1, <2>2, CompletesKeepsTypes
  <1>7. CASE Investigate
    BY <1>7, CompletesTypes, EngineAssumption, SMTT(30) DEF Investigate, TypeOK
  <1>8. CASE ReviewCase
    <2>1. Completes(7) /\ UNCHANGED <<findings, evidence, investigation, is_mock, report>>
      BY <1>8 DEF ReviewCase
    <2>2. ContentTypes'
      <3>1. review' \in Review
        BY <1>8, CritiqueBounds DEF ReviewCase, TypeOK
      <3> QED  BY <2>1, <3>1 DEF TypeOK, ContentTypes
    <2> QED  BY <2>1, <2>2, CompletesKeepsTypes
  <1>9. CASE GenerateReport
    <2>1. Completes(8) /\ UNCHANGED <<findings, evidence, investigation, is_mock, review>>
      BY <1>9 DEF GenerateReport
    <2>2. ContentTypes'
      <3>1. report' \in Report
        BY <1>9, ReportType DEF GenerateReport
      <3> QED  BY <2>1, <3>1 DEF TypeOK, ContentTypes
    <2> QED  BY <2>1, <2>2, CompletesKeepsTypes
  <1>10. CASE \E i \in DOMAIN Steps : Fail(i)
    BY <1>10, FailTypes
  <1>11. CASE SignOffCase
    BY <1>11, SignOffTypes
  <1>12. CASE UNCHANGED vars
    BY <1>12 DEF vars, TypeOK
  <1> QED  BY <1>1, <1>2, <1>3, <1>4, <1>5, <1>6, <1>7, <1>8, <1>9, <1>10, <1>11, <1>12 DEF Next, Run

\* Every variable of the workflow keeps its type, and a case that exists is
\* about at least one transaction of its customer's history.
THEOREM WorkflowTypes == Spec => []TypeOK
  BY InitTypes, TypesStep, PTL DEF Spec

-----------------------------------------------------------------------------
(* Findings and evidence.                                                  *)

LEMMA MergeKeepsFindings ==
    ASSUME FindingsAreEvidence, NEW items, NEW cited, Merge(items, cited), Adds(items, cited)
    PROVE  FindingsAreEvidence'
  BY DEF FindingsAreEvidence, Merge, Adds, Extended

LEMMA FindingsStep == TypeOK /\ FindingsAreEvidence /\ [Next]_vars => FindingsAreEvidence'
  <1> SUFFICES ASSUME TypeOK, FindingsAreEvidence, [Next]_vars PROVE FindingsAreEvidence'
    OBVIOUS
  <1>1. CASE AnalyzeKyc
    BY <1>1, KycAdds, MergeKeepsFindings
  <1>2. CASE AnalyzeAnomalies
    BY <1>2, AnomaliesAdd, MergeKeepsFindings
  <1>3. CASE Reconcile
    BY <1>3, ReconcileAdds, MergeKeepsFindings
  <1>4. CASE UNCHANGED <<findings, evidence>>
    BY <1>4 DEF FindingsAreEvidence
  <1> QED  BY <1>1, <1>2, <1>3, <1>4 DEF Next, Run, CreateCase, Create, PrepareData,
             RetrieveKnowledge, Investigate, ReviewCase, GenerateReport, Fail, SignOffCase, vars

-----------------------------------------------------------------------------
(* What a status promises of the evidence.                                 *)

LEMMA Froms ==
    /\ From(7) = {"SELF_CRITIQUED"}
    /\ From(6) = {"INVESTIGATION_GENERATED"} \cup From(7)
    /\ From(5) = {"EVIDENCE_RETRIEVED"} \cup From(6)
    /\ From(4) = {"RECONCILED"} \cup From(5)
    /\ From(3) = {"ANOMALY_ANALYZED"} \cup From(4)
    /\ From(2) = {"KYC_ANALYZED"} \cup From(3)
  <1>1. \A i \in 2 .. 7 : \A j \in i .. 7 : j = i \/ j \in i + 1 .. 7
    OBVIOUS
  <1>2. \A i \in 2 .. 6 : From(i) = {Steps[i].to} \cup From(i + 1)
    BY DEF From
  <1>3. From(7) = {Steps[7].to}
    BY DEF From
  <1> QED  BY <1>2, <1>3, TheSteps DEF Step

Growing == /\ focus' = focus /\ review' = review /\ evidence \subseteq evidence'

LEMMA ExaminedStays ==
    ASSUME Growing
    PROVE  /\ DocumentsExamined => DocumentsExamined'
           /\ \A k : FocusExamined(k) => FocusExamined(k)'
  BY DEF Growing, DocumentsExamined, FocusExamined

LEMMA NotReviewed == NoReview.ran = FALSE
  BY DEF NoReview

LEMMA EvidenceStep == TypeOK /\ AdviceIsCurrent /\ EvidenceGrows /\ [Next]_vars => EvidenceGrows'
  <1> SUFFICES ASSUME TypeOK, AdviceIsCurrent, EvidenceGrows, [Next]_vars PROVE EvidenceGrows'
    OBVIOUS
  <1> DEFINE At(i) == status = Steps[i].from /\ status' = Steps[i].to
  <1>1. review.ran => status \in {"SELF_CRITIQUED", "HUMAN_REVIEW", "CLOSED"}
    BY Froms, NotReviewed DEF AdviceIsCurrent, Delivered
  <1>2. \A i \in DOMAIN Steps : Completes(i) => At(i) /\ focus' = focus
    BY DEF Completes, caseVars
  <1>3. \A items, cited : Merge(items, cited) =>
           /\ review' = review /\ evidence \subseteq evidence' /\ items \subseteq evidence'
    BY DEF Merge, Extended
  <1> USE TheSteps, Froms DEF Step
  <1>4. CASE CreateCase
    <2>1. status = "none" /\ status' = "CASE_CREATED" /\ review' = review
      BY <1>4 DEF CreateCase, Create
    <2> QED  BY <1>1, <2>1 DEF EvidenceGrows
  <1>5. CASE PrepareData
    <2>1. At(1) /\ focus' = focus /\ review' = review
      BY <1>2, <1>5 DEF PrepareData
    <2> QED  BY <1>1, <2>1 DEF EvidenceGrows
  <1>6. CASE AnalyzeKyc
    <2>1. PICK items, cited : /\ Merge(items, cited)
                              /\ \A d \in Documents : \E e \in items : e.kind = "KYCM" /\ e.of = d
      BY <1>6, KycAdds
    <2>2. At(2)
      BY <1>2, <1>6 DEF AnalyzeKyc
    <2>3. DocumentsExamined'
      BY <1>3, <2>1 DEF DocumentsExamined
    <2> QED  BY <1>1, <1>3, <2>1, <2>2, <2>3 DEF EvidenceGrows
  <1>7. CASE AnalyzeAnomalies
    <2>1. PICK items, cited : /\ Merge(items, cited)
                              /\ \A k \in {"TXN", "BEH", "ANOM"}, n \in DOMAIN focus :
                                    \E e \in items : e.kind = k /\ e.of = focus[n]
      BY <1>7, AnomaliesAdd
    <2>2. At(3) /\ focus' = focus
      BY <1>2, <1>7 DEF AnalyzeAnomalies
    <2>3. \A k \in {"TXN", "BEH", "ANOM"} : FocusExamined(k)'
      BY <1>3, <2>1, <2>2 DEF FocusExamined
    <2>4. DocumentsExamined'
      <3>1. DocumentsExamined
        BY <2>2 DEF EvidenceGrows
      <3> QED  BY <1>3, <2>1, <2>2, <3>1, ExaminedStays DEF Growing
    <2> QED  BY <1>1, <1>3, <2>1, <2>2, <2>3, <2>4 DEF EvidenceGrows
  <1>8. CASE Reconcile
    <2>1. PICK items, cited : /\ Merge(items, cited)
                              /\ \A n \in DOMAIN focus :
                                    \E e \in items : e.kind = "REC" /\ e.of = focus[n]
      BY <1>8, ReconcileAdds
    <2>2. At(4) /\ focus' = focus
      <3>1. Completes(4)
        BY <1>8, Zenon DEF Reconcile
      <3> QED  BY <1>2, <3>1
    <2>3. FocusExamined("REC")'
      BY <1>3, <2>1, <2>2 DEF FocusExamined
    <2>4. DocumentsExamined /\ \A k \in {"TXN", "BEH", "ANOM"} : FocusExamined(k)
      BY <2>2 DEF EvidenceGrows
    <2>5. DocumentsExamined' /\ \A k \in {"TXN", "BEH", "ANOM"} : FocusExamined(k)'
      BY <1>3, <2>1, <2>2, <2>4, ExaminedStays DEF Growing
    <2> QED  BY <1>1, <1>3, <2>1, <2>2, <2>3, <2>5 DEF EvidenceGrows
  <1> DEFINE Same == focus' = focus /\ evidence' = evidence
  <1>9. Same => /\ DocumentsExamined' = DocumentsExamined
                /\ \A k : FocusExamined(k)' = FocusExamined(k)
                /\ Unique(evidence)' = Unique(evidence)
    BY DEF DocumentsExamined, FocusExamined
  <1>10. CASE RetrieveKnowledge
    <2>1. At(5) /\ Same /\ review' = review
      BY <1>2, <1>10 DEF RetrieveKnowledge
    <2> QED  BY <1>1, <1>9, <2>1 DEF EvidenceGrows
  <1>11. CASE Investigate
    <2>1. At(6) /\ Same /\ review' = review /\ Unique(evidence)
      BY <1>2, <1>11 DEF Investigate
    <2> QED  BY <1>1, <1>9, <2>1 DEF EvidenceGrows
  <1>12. CASE ReviewCase
    <2>1. At(7) /\ Same
      BY <1>2, <1>12 DEF ReviewCase
    <2> QED  BY <1>9, <2>1 DEF EvidenceGrows
  <1>13. CASE status' \in Delivered /\ Same /\ review' = review
    BY <1>9, <1>13 DEF EvidenceGrows, Delivered
  <1>14. CASE status' = status /\ Same /\ review' = review
    BY <1>9, <1>14 DEF EvidenceGrows
  <1>15. GenerateReport => status' \in Delivered /\ Same /\ review' = review
    BY <1>2 DEF GenerateReport, Delivered
  <1>16. ASSUME NEW i \in DOMAIN Steps, Fail(i)
         PROVE  status' \in Delivered /\ Same /\ review' = review
    BY <1>16 DEF Fail, FailedStatus, Delivered, caseVars
  <1>17. SignOffCase => status' \in Delivered /\ Same /\ review' = review
    BY DEF SignOffCase, Delivered
  <1>18. UNCHANGED vars => status' = status /\ Same /\ review' = review
    BY DEF vars
  <1> QED  BY <1>4, <1>5, <1>6, <1>7, <1>8, <1>10, <1>11, <1>12, <1>13, <1>14, <1>15, <1>16,
              <1>17, <1>18 DEF Next, Run

-----------------------------------------------------------------------------
(* Answer, review and report.                                              *)

\* A report stays the report of the present state.
LEMMA ReportStays ==
    ASSUME UNCHANGED <<findings, investigation, is_mock, review>>, NEW CONSTANT f,
           failed_step' = f, report' = Generate(f)
    PROVE  (report = Generate(failed_step))'
  BY DEF Generate, Facts, Warnings, Validated, Concerns

\* Before its delivery a case has no report and no failure, before step 8 no
\* review, before step 7 no answer.
LEMMA NothingYet ==
    ASSUME TypeOK, AdviceIsCurrent
    PROVE  /\ status \notin Delivered => report = NoReport /\ failed_step = "none"
           /\ status \notin From(7) \cup Delivered => review = NoReview
           /\ status \notin From(6) \cup Delivered => investigation = NoInvestigation
  BY DEF AdviceIsCurrent

LEMMA AdviceStep == TypeOK /\ AdviceIsCurrent /\ [Next]_vars => AdviceIsCurrent'
  <1> SUFFICES ASSUME TypeOK, AdviceIsCurrent, [Next]_vars PROVE AdviceIsCurrent'
    OBVIOUS
  <1> DEFINE At(i)   == status = Steps[i].from /\ status' = Steps[i].to
             Nothing == /\ investigation = NoInvestigation /\ review = NoReview
                        /\ report = NoReport /\ failed_step = "none"
             Same    == UNCHANGED <<investigation, review, report, failed_step>>
  <1>1. \A i \in DOMAIN Steps : Completes(i) => At(i) /\ failed_step' = failed_step
    BY DEF Completes
  <1>2. \A items, cited : Merge(items, cited) => UNCHANGED <<investigation, review, report>>
    BY DEF Merge
  <1> USE Froms DEF Delivered
  <1>3. ASSUME status \in {"none", "CASE_CREATED", "DATA_READY", "KYC_ANALYZED",
                         "ANOMALY_ANALYZED", "RECONCILED"},
               status' \notin From(7) \cup Delivered, Same
        PROVE  AdviceIsCurrent'
    <2>1. Nothing
      BY <1>3, NothingYet
    <2> QED  BY <1>3, <2>1 DEF AdviceIsCurrent
  <1>4. CASE CreateCase
    BY <1>3, <1>4 DEF CreateCase, Create
  <1>5. CASE PrepareData
    BY <1>1, <1>3, <1>5, TheSteps DEF PrepareData, Step
  <1>6. CASE AnalyzeKyc
    <2>1. Completes(2) /\ Same
      BY <1>1, <1>2, <1>6, KycAdds, TheSteps DEF AnalyzeKyc
    <2> QED  BY <1>1, <1>3, <2>1, TheSteps DEF Step
  <1>7. CASE AnalyzeAnomalies
    <2>1. Completes(3) /\ Same
      BY <1>1, <1>2, <1>7, AnomaliesAdd, TheSteps DEF AnalyzeAnomalies
    <2> QED  BY <1>1, <1>3, <2>1, TheSteps DEF Step
  <1>8. CASE Reconcile
    <2>1. Completes(4)
      BY <1>8, Zenon DEF Reconcile
    <2>2. Same
      BY <1>1, <1>2, <1>8, <2>1, ReconcileAdds, TheSteps
    <2> QED  BY <1>1, <1>3, <2>1, <2>2, TheSteps DEF Step
  <1>9. CASE RetrieveKnowledge
    BY <1>1, <1>3, <1>9, TheSteps DEF RetrieveKnowledge, Step
  <1>10. CASE Investigate
    <2>1. /\ status = "EVIDENCE_RETRIEVED" /\ status' = "INVESTIGATION_GENERATED"
          /\ UNCHANGED <<review, report, failed_step>>
      BY <1>1, <1>10, TheSteps DEF Investigate, Step
    <2>2. review = NoReview /\ report = NoReport /\ failed_step = "none"
      BY <2>1, NothingYet
    <2> QED  BY <2>1, <2>2 DEF AdviceIsCurrent
  <1>11. CASE ReviewCase
    <2>1. /\ status = "INVESTIGATION_GENERATED" /\ status' = "SELF_CRITIQUED"
          /\ UNCHANGED <<investigation, report, failed_step, evidence>>
          /\ review' = Critique(evidence, investigation)
      BY <1>1, <1>11, TheSteps DEF ReviewCase, Step
    <2>2. report = NoReport /\ failed_step = "none"
      BY <2>1, NothingYet
    <2>3. review' = Critique(evidence, investigation)'
      BY <2>1
    <2>4. review' # NoReview
      BY <2>1, CritiqueBounds, NotReviewed DEF TypeOK
    <2> QED  BY <2>1, <2>2, <2>3, <2>4 DEF AdviceIsCurrent
  <1>12. CASE GenerateReport
    <2>1. /\ status = "SELF_CRITIQUED" /\ status' = "HUMAN_REVIEW"
          /\ UNCHANGED <<findings, investigation, is_mock, review, evidence, failed_step>>
          /\ report' = Generate("none")
      BY <1>1, <1>12, TheSteps DEF GenerateReport, Step
    <2>2. failed_step = "none"
      BY <2>1, NothingYet
    <2>3. (report = Generate(failed_step))'
      BY <2>1, <2>2, ReportStays
    <2>4. review # NoReview /\ review = Critique(evidence, investigation)
      BY <2>1 DEF AdviceIsCurrent
    <2>5. review' # NoReview /\ review' = Critique(evidence, investigation)'
      BY <2>1, <2>4
    <2> QED  BY <2>1, <2>2, <2>3, <2>5 DEF AdviceIsCurrent
  <1>13. ASSUME NEW i \in DOMAIN Steps, Fail(i) PROVE AdviceIsCurrent'
    <2>1. PICK reported \in BOOLEAN : report' = IF reported THEN Generate(Steps[i].name) ELSE report
      BY <1>13 DEF Fail
    <2>2. /\ status = Steps[i].from /\ status' = "HUMAN_REVIEW" /\ failed_step' = Steps[i].name
          /\ UNCHANGED <<findings, investigation, is_mock, review, evidence>>
      BY <1>13 DEF Fail, FailedStatus
    <2>3. status \in Before /\ (Steps[i].name = "review" <=> status = "INVESTIGATION_GENERATED")
      BY <2>2, StepTypes
    <2>4. report = NoReport
      BY <2>3, NothingYet DEF Before
    <2>5. report' # NoReport => (report = Generate(failed_step))'
      <3> DEFINE f == Steps[i].name
      <3>1. failed_step' = f /\ (report' # NoReport => report' = Generate(f))
        BY <2>1, <2>2, <2>4
      <3> HIDE DEF f
      <3> QED  BY <2>2, <3>1, ReportStays
    <2>6. /\ review # NoReview => review = Critique(evidence, investigation)
          /\ review = NoReview /\ investigation # NoInvestigation => failed_step' = "review"
      BY <2>2, <2>3 DEF AdviceIsCurrent, Before
    <2>7. review' # NoReview => review' = Critique(evidence, investigation)'
      BY <2>2, <2>6
    <2> QED  BY <2>2, <2>5, <2>6, <2>7 DEF AdviceIsCurrent
  <1>14. CASE SignOffCase
    <2>1. /\ status = "HUMAN_REVIEW" /\ status' = "CLOSED"
          /\ UNCHANGED <<findings, evidence, investigation, is_mock, review, report, failed_step>>
      BY <1>14 DEF SignOffCase, MaySignOff
    <2>2. report # NoReport => (report = Generate(failed_step))'
      <3> SUFFICES ASSUME report # NoReport PROVE (report = Generate(failed_step))'
        OBVIOUS
      <3>1. PICK f : f = failed_step
        OBVIOUS
      <3>2. report = Generate(f)
        BY <3>1 DEF AdviceIsCurrent
      <3>3. report' = Generate(f) /\ failed_step' = f
        BY <2>1, <3>1, <3>2
      <3> QED  BY <2>1, <3>3, ReportStays
    <2>3. review # NoReview => review' = Critique(evidence, investigation)'
      BY <2>1 DEF AdviceIsCurrent
    <2> QED  BY <2>1, <2>2, <2>3 DEF AdviceIsCurrent
  <1>15. CASE UNCHANGED vars
    <2>1. UNCHANGED <<status, findings, evidence, investigation, is_mock, review, report, failed_step>>
      BY <1>15 DEF vars
    <2>2. report # NoReport => (report = Generate(failed_step))'
      <3> SUFFICES ASSUME report # NoReport PROVE (report = Generate(failed_step))'
        OBVIOUS
      <3>1. PICK f : f = failed_step
        OBVIOUS
      <3>2. report = Generate(f)
        BY <3>1 DEF AdviceIsCurrent
      <3>3. report' = Generate(f) /\ failed_step' = f
        BY <2>1, <3>1, <3>2
      <3> QED  BY <2>1, <3>3, ReportStays
    <2> QED  BY <2>1, <2>2 DEF AdviceIsCurrent
  <1> QED  BY <1>4, <1>5, <1>6, <1>7, <1>8, <1>9, <1>10, <1>11, <1>12, <1>13, <1>14, <1>15
           DEF Next, Run

-----------------------------------------------------------------------------
(* The trail.                                                              *)

LEMMA Appended ==
    ASSUME NEW t \in Seq(Event), NEW e \in Event
    PROVE  /\ Append(t, e) \in Seq(Event) /\ Len(Append(t, e)) = Len(t) + 1 /\ Len(t) \in Nat
           /\ \A k \in 1 .. Len(t) : Append(t, e)[k] = t[k]
           /\ Append(t, e)[Len(t) + 1] = e
           /\ DOMAIN Append(t, e) = 1 .. Len(t) + 1 /\ DOMAIN t = 1 .. Len(t)
           /\ Append(t, e) # <<>>
  OBVIOUS

LEMMA AppendReplays ==
    ASSUME NEW t \in Seq(Event), t # <<>>, NEW s, Replays(t, s), NEW e \in Event, e.from = s
    PROVE  Replays(Append(t, e), IF e.ok THEN e.to ELSE s)
  <1> DEFINE n == Len(t)
             u == Append(t, e)
  <1>1. /\ u \in Seq(Event) /\ Len(u) = n + 1 /\ n \in Nat \ {0}
        /\ \A k \in 1 .. n : u[k] = t[k]
        /\ u[n + 1] = e
    BY Appended
  <1> HIDE DEF u, n
  <1>2. ASSUME NEW i \in 1 .. n, NEW x, Reaches(t, i, x)
        PROVE  Reaches(u, i, x)
    <2>1. PICK j \in 1 .. i : t[j].ok /\ t[j].to = x /\ \A k \in j + 1 .. i : ~t[k].ok
      BY <1>2 DEF Reaches
    <2>2. \A k \in j .. i : k \in 1 .. n
      BY <1>1
    <2>3. j \in j .. i /\ \A k \in j + 1 .. i : k \in j .. i
      BY <1>1
    <2>4. u[j].ok /\ u[j].to = x /\ \A k \in j + 1 .. i : ~u[k].ok
      BY <1>1, <2>1, <2>2, <2>3
    <2> QED  BY <2>4 DEF Reaches
  <1>3. Reaches(u, n, s)
    BY <1>1, <1>2 DEF Replays, n
  <1>4. u[1] = Ev("create_case", "none", "CASE_CREATED", TRUE)
    <2>1. t[1] = Ev("create_case", "none", "CASE_CREATED", TRUE)
      BY DEF Replays
    <2>2. u[1] = t[1]
      BY <1>1
    <2> QED  BY <2>1, <2>2
  <1>5. ASSUME NEW i \in 2 .. n + 1
        PROVE  Reaches(u, i - 1, u[i].from)
    <2>1. CASE i = n + 1
      BY <1>1, <1>3, <2>1
    <2>2. CASE i # n + 1
      <3>1. i \in 2 .. n /\ i - 1 \in 1 .. n /\ i \in 1 .. n
        BY <1>1, <2>2
      <3>2. Reaches(t, i - 1, t[i].from)
        BY <3>1 DEF Replays, n
      <3> QED  BY <1>1, <1>2, <3>1, <3>2
    <2> QED  BY <2>1, <2>2
  <1>6. CASE e.ok
    <2>1. n + 1 \in 1 .. n + 1 /\ n + 1 + 1 .. n + 1 = {}
      BY <1>1
    <2>2. Reaches(u, n + 1, e.to)
      BY <1>1, <1>6, <2>1 DEF Reaches
    <2> QED  BY <1>1, <1>4, <1>5, <1>6, <2>2 DEF Replays, u
  <1>7. CASE ~e.ok
    <2>1. PICK j \in 1 .. n : u[j].ok /\ u[j].to = s /\ \A k \in j + 1 .. n : ~u[k].ok
      BY <1>3 DEF Reaches
    <2>2. j \in 1 .. n + 1 /\ \A k \in j + 1 .. n + 1 : k \in j + 1 .. n \/ k = n + 1
      BY <1>1
    <2>3. Reaches(u, n + 1, s)
      BY <1>1, <1>7, <2>1, <2>2 DEF Reaches
    <2> QED  BY <1>1, <1>4, <1>5, <1>7, <2>3 DEF Replays, u
  <1> QED  BY <1>6, <1>7

\* A failure appends two events, or three when the report cannot be written.
LEMMA FailureTrail ==
    ASSUME NEW t \in Seq(Event), NEW i \in DOMAIN Steps, NEW reported \in BOOLEAN
    PROVE  \E a, b, c \in Event :
             /\ a = Ev(Steps[i].name, Steps[i].from, Steps[i].from, FALSE)
             /\ b = Ev("generate_report", Steps[i].from, "HUMAN_REVIEW", FALSE)
             /\ c = Ev("route_to_human_review", Steps[i].from, "HUMAN_REVIEW", TRUE)
             /\ t \o FailureEvents(i, reported) =
                   Append(IF reported THEN Append(t, a) ELSE Append(Append(t, a), b), c)
  <1> DEFINE a == Ev(Steps[i].name, Steps[i].from, Steps[i].from, FALSE)
             b == Ev("generate_report", Steps[i].from, "HUMAN_REVIEW", FALSE)
             c == Ev("route_to_human_review", Steps[i].from, "HUMAN_REVIEW", TRUE)
             m == IF reported THEN <<>> ELSE <<b>>
  <1>1. /\ Steps[i].name \in StepNames /\ Steps[i].from \in Status /\ "HUMAN_REVIEW" \in Status
        /\ "generate_report" \in StepNames
    BY StepTypes
  <1>2. a \in Event /\ b \in Event /\ c \in Event
    BY <1>1 DEF Ev, Event
  <1>3. FailureEvents(i, reported) = (<<a>> \o m) \o <<c>>
    BY DEF FailureEvents
  <1> HIDE DEF a, b, c
  <1>4. <<a>> \in Seq(Event) /\ <<b>> \in Seq(Event) /\ <<c>> \in Seq(Event) /\ m \in Seq(Event)
    BY <1>2
  <1>5. \A s \in Seq(Event), e \in Event : s \o <<e>> = Append(s, e)
    OBVIOUS
  <1>6. t \o ((<<a>> \o m) \o <<c>>) = ((t \o <<a>>) \o m) \o <<c>>
    <2> DEFINE p == <<a>>
               q == <<c>>
    <2>1. p \in Seq(Event) /\ q \in Seq(Event)
      BY <1>4
    <2> HIDE DEF m, p, q
    <2>2. p \o m \in Seq(Event) /\ t \o p \in Seq(Event)
      BY <1>4, <2>1, ConcatProperties
    <2>3. (t \o (p \o m)) \o q = t \o ((p \o m) \o q)
      <3> DEFINE r == p \o m
      <3>1. r \in Seq(Event)
        BY <2>2
      <3> HIDE DEF r
      <3>2. (t \o r) \o q = t \o (r \o q)
        BY <2>1, <3>1, ConcatAssociative, SMTT(30)
      <3> QED  BY <3>2 DEF r
    <2>4. (t \o p) \o m = t \o (p \o m)
      BY <1>4, <2>1, ConcatAssociative, SMTT(30)
    <2>5. t \o ((p \o m) \o q) = ((t \o p) \o m) \o q
      BY <2>3, <2>4
    <2> QED  BY <2>5 DEF p, q
  <1>7. t \o <<a>> = Append(t, a) /\ Append(t, a) \in Seq(Event)
    BY <1>2, <1>5, AppendEvent
  <1>8. Append(t, a) \o m = IF reported THEN Append(t, a) ELSE Append(Append(t, a), b)
    <2>1. CASE reported
      BY <1>7, <2>1, ConcatEmptySeq
    <2>2. CASE ~reported
      BY <1>2, <1>5, <1>7, <2>2
    <2> QED  BY <2>1, <2>2
  <1>9. (Append(t, a) \o m) \in Seq(Event)
    BY <1>2, <1>7, <1>8, AppendEvent
  <1>10. (Append(t, a) \o m) \o <<c>> = Append(Append(t, a) \o m, c)
    BY <1>2, <1>5, <1>9
  <1> QED  BY <1>2, <1>3, <1>6, <1>7, <1>8, <1>10 DEF a, b, c

LEMMA TrailStep == TypeOK /\ TrailIsThere /\ TrailReplays /\ [Next]_vars
                   => TrailIsThere' /\ TrailReplays'
  <1> SUFFICES ASSUME TypeOK, TrailIsThere, TrailReplays, [Next]_vars
               PROVE  TrailIsThere' /\ TrailReplays'
    OBVIOUS
  <1>1. trail \in Seq(Event) /\ (status # "none" => trail # <<>> /\ Replays(trail, status))
    BY DEF TypeOK, TrailIsThere, TrailReplays
  <1>2. ASSUME NEW e \in Event, e.ok, e.from = status, status # "none", e.to # "none",
               status' = e.to, trail' = Append(trail, e)
        PROVE  TrailIsThere' /\ TrailReplays'
    <2>1. Append(trail, e) # <<>>
      BY <1>1, Appended
    <2>2. Replays(Append(trail, e), e.to)
      BY <1>1, <1>2, AppendReplays
    <2> QED  BY <1>2, <2>1, <2>2 DEF TrailIsThere, TrailReplays
  <1>3. ASSUME NEW i \in DOMAIN Steps, Completes(i)
        PROVE  TrailIsThere' /\ TrailReplays'
    <2> DEFINE e == Ev(Steps[i].name, Steps[i].from, Steps[i].to, TRUE)
    <2>1. /\ Steps[i].name \in StepNames /\ Steps[i].from \in Before
          /\ Steps[i].to \in Status \ {"none", "CLOSED"}
          /\ Before \subseteq Status /\ "none" \notin Before
      BY StepTypes DEF Before
    <2>2. e \in Event /\ e.ok /\ e.from = Steps[i].from /\ e.to = Steps[i].to
      BY <2>1 DEF Ev, Event
    <2>3. status = Steps[i].from /\ status' = Steps[i].to /\ trail' = Append(trail, e)
      BY <1>3 DEF Completes
    <2> HIDE DEF e
    <2> QED  BY <1>2, <2>1, <2>2, <2>3
  <1>4. CASE CreateCase
    <2> DEFINE e == Ev("create_case", "none", "CASE_CREATED", TRUE)
    <2>1. status' = "CASE_CREATED" /\ trail' = <<e>>
      BY <1>4 DEF CreateCase, Create
    <2>2. e.ok /\ e.to = "CASE_CREATED"
      BY DEF Ev
    <2>3. <<e>>[1] = e /\ Len(<<e>>) = 1 /\ <<e>> # <<>>
      OBVIOUS
    <2>4. Reaches(<<e>>, 1, "CASE_CREATED")
      <3>1. 1 \in 1 .. 1 /\ 1 + 1 .. 1 = {}
        OBVIOUS
      <3>2. <<e>>[1].ok /\ <<e>>[1].to = "CASE_CREATED"
        BY <2>2, <2>3
      <3> HIDE DEF e
      <3> QED  BY <3>1, <3>2 DEF Reaches
    <2>5. Replays(<<e>>, "CASE_CREATED")
      BY <2>3, <2>4 DEF Replays
    <2> QED  BY <2>1, <2>3, <2>5 DEF TrailIsThere, TrailReplays
  <1>5. ASSUME NEW i \in DOMAIN Steps, Fail(i)
        PROVE  TrailIsThere' /\ TrailReplays'
    <2>1. PICK reported \in BOOLEAN : trail' = trail \o FailureEvents(i, reported)
      BY <1>5 DEF Fail
    <2>2. PICK a \in Event, b \in Event, c \in Event :
             /\ a = Ev(Steps[i].name, Steps[i].from, Steps[i].from, FALSE)
             /\ b = Ev("generate_report", Steps[i].from, "HUMAN_REVIEW", FALSE)
             /\ c = Ev("route_to_human_review", Steps[i].from, "HUMAN_REVIEW", TRUE)
             /\ trail \o FailureEvents(i, reported) =
                   Append(IF reported THEN Append(trail, a) ELSE Append(Append(trail, a), b), c)
      BY <1>1, FailureTrail
    <2>3. status = Steps[i].from /\ status' = "HUMAN_REVIEW" /\ status # "none"
      BY <1>5, StepTypes DEF Fail, FailedStatus, Before
    <2>4. /\ a.from = status /\ ~a.ok
          /\ b.from = status /\ ~b.ok
          /\ c.from = status /\ c.ok /\ c.to = "HUMAN_REVIEW"
      BY <2>2, <2>3 DEF Ev
    <2> DEFINE t1 == Append(trail, a)
               t2 == IF reported THEN t1 ELSE Append(t1, b)
    <2>5. t1 \in Seq(Event) /\ t1 # <<>> /\ Replays(t1, status)
      BY <1>1, <2>3, <2>4, Appended, AppendReplays
    <2> HIDE DEF t1
    <2>6. t2 \in Seq(Event) /\ t2 # <<>> /\ Replays(t2, status)
      BY <2>4, <2>5, Appended, AppendReplays
    <2> HIDE DEF t2
    <2>7. Append(t2, c) # <<>> /\ Replays(Append(t2, c), "HUMAN_REVIEW")
      BY <2>4, <2>6, Appended, AppendReplays
    <2>8. trail' = Append(t2, c)
      BY <2>1, <2>2 DEF t1, t2
    <2> QED  BY <2>3, <2>7, <2>8 DEF TrailIsThere, TrailReplays
  <1>6. CASE SignOffCase
    <2> DEFINE e == Ev("sign_off", "HUMAN_REVIEW", "CLOSED", TRUE)
    <2>1. status = "HUMAN_REVIEW" /\ status' = "CLOSED" /\ trail' = Append(trail, e)
      BY <1>6 DEF SignOffCase, MaySignOff
    <2>2. e \in Event /\ e.ok /\ e.from = "HUMAN_REVIEW" /\ e.to = "CLOSED"
      BY StepTypes DEF Ev, Event
    <2> HIDE DEF e
    <2> QED  BY <1>2, <2>1, <2>2
  <1>7. CASE UNCHANGED vars
    BY <1>7 DEF vars, TrailIsThere, TrailReplays
  <1>8. CASE Run
    <2>1. CASE \E i \in DOMAIN Steps : Fail(i)
      BY <1>5, <2>1
    <2>2. CASE PrepareData \/ AnalyzeKyc \/ AnalyzeAnomalies
      BY <1>3, <2>2, TheSteps DEF PrepareData, AnalyzeKyc, AnalyzeAnomalies
    <2>3. CASE Reconcile
      <3>1. Completes(4)
        BY <2>3, Zenon DEF Reconcile
      <3> QED  BY <1>3, <3>1, TheSteps
    <2>4. CASE RetrieveKnowledge \/ Investigate \/ ReviewCase \/ GenerateReport
      BY <1>3, <2>4, TheSteps DEF RetrieveKnowledge, Investigate, ReviewCase, GenerateReport
    <2> QED  BY <1>8, <2>1, <2>2, <2>3, <2>4 DEF Run
  <1> QED  BY <1>4, <1>6, <1>7, <1>8 DEF Next

-----------------------------------------------------------------------------
(* Failures.                                                               *)

LEMMA Incomplete == \A f : ("INCOMPLETE" \in Generate(f).warnings) = (f # "none")
  BY DEF Generate, Warnings

\* Where a failed step stands in the trail it leaves.
LEMMA FailureIsLogged ==
    ASSUME TypeOK, NEW i \in DOMAIN Steps, Fail(i)
    PROVE  FailureIsTold'
  <1> DEFINE n == Len(trail)
  <1>1. PICK reported \in BOOLEAN :
          /\ report' = IF reported THEN Generate(Steps[i].name) ELSE report
          /\ trail'  = trail \o FailureEvents(i, reported)
    BY DEF Fail
  <1>2. trail \in Seq(Event) /\ failed_step' = Steps[i].name /\ Steps[i].name # "none"
    BY StepTypes DEF Fail, TypeOK
  <1>3. PICK a \in Event, b \in Event, c \in Event :
           /\ a = Ev(Steps[i].name, Steps[i].from, Steps[i].from, FALSE)
           /\ b = Ev("generate_report", Steps[i].from, "HUMAN_REVIEW", FALSE)
           /\ c = Ev("route_to_human_review", Steps[i].from, "HUMAN_REVIEW", TRUE)
           /\ trail \o FailureEvents(i, reported) =
                 Append(IF reported THEN Append(trail, a) ELSE Append(Append(trail, a), b), c)
    BY <1>2, FailureTrail
  <1>4. /\ a.action = failed_step' /\ ~a.ok
        /\ b.action = "generate_report" /\ ~b.ok
        /\ c.action = "route_to_human_review"
    BY <1>2, <1>3 DEF Ev
  <1> DEFINE t1 == Append(trail, a)
             t2 == Append(t1, b)
  <1>5. n \in Nat /\ t1 \in Seq(Event) /\ Len(t1) = n + 1 /\ t1[n + 1] = a
    BY <1>2, Appended
  <1> HIDE DEF n, t1
  <1>6. CASE reported
    <2>1. trail' = Append(t1, c)
      BY <1>1, <1>3, <1>6 DEF t1
    <2>2. DOMAIN trail' = 1 .. n + 2 /\ trail'[n + 1] = a /\ trail'[n + 2] = c
      BY <1>5, <2>1, Appended
    <2>3. n + 1 \in 1 .. n + 2 /\ \A j \in 1 .. n + 2 : j > n + 1 => j = n + 2
      BY <1>5
    <2>4. "INCOMPLETE" \in report'.warnings
      BY <1>1, <1>2, <1>6, Incomplete
    <2> QED  BY <1>4, <2>2, <2>3, <2>4 DEF FailureIsTold
  <1>7. CASE ~reported
    <2>1. trail' = Append(t2, c)
      BY <1>1, <1>3, <1>7 DEF t1
    <2>2. /\ t2 \in Seq(Event) /\ Len(t2) = n + 2 /\ t2[n + 1] = a /\ t2[n + 2] = b
      BY <1>5, Appended
    <2> HIDE DEF t2
    <2>3. /\ DOMAIN trail' = 1 .. n + 3
          /\ trail'[n + 1] = a /\ trail'[n + 2] = b /\ trail'[n + 3] = c
      BY <1>5, <2>1, <2>2, Appended
    <2>4. /\ n + 1 \in 1 .. n + 3 /\ n + 2 \in 1 .. n + 3 /\ n + 2 > n + 1
          /\ \A j \in 1 .. n + 3 : j > n + 1 => j = n + 2 \/ j = n + 3
      BY <1>5
    <2> QED  BY <1>4, <2>3, <2>4 DEF FailureIsTold
  <1> QED  BY <1>6, <1>7

\* Signing off takes nothing away from what the trail says of a failure.
LEMMA StillTold ==
    ASSUME trail \in Seq(Event), FailureIsTold, NEW e \in Event, e.action = "sign_off",
           trail' = Append(trail, e), UNCHANGED <<failed_step, report>>
    PROVE  FailureIsTold'
  <1> DEFINE n == Len(trail)
  <1>1. /\ n \in Nat /\ DOMAIN trail = 1 .. n /\ DOMAIN trail' = 1 .. n + 1
        /\ \A k \in 1 .. n : trail'[k] = trail[k]
        /\ trail'[n + 1] = e
    BY Appended
  <1> HIDE DEF n
  <1>2. PICK i \in DOMAIN trail :
          /\ trail[i].action = failed_step /\ ~trail[i].ok
          /\ \A j \in DOMAIN trail : j > i =>
                \/ trail[j].action \in {"route_to_human_review", "sign_off"}
                \/ trail[j].action = "generate_report" /\ ~trail[j].ok
          /\ \/ "INCOMPLETE" \in report.warnings
             \/ \E j \in DOMAIN trail : /\ j > i /\ ~trail[j].ok
                                        /\ trail[j].action = "generate_report"
    BY DEF FailureIsTold
  <1>3. /\ \A k \in 1 .. n : k \in 1 .. n + 1
        /\ \A k \in 1 .. n + 1 : k \in 1 .. n \/ k = n + 1
    BY <1>1
  <1>4. i \in DOMAIN trail' /\ trail'[i].action = failed_step' /\ ~trail'[i].ok
    BY <1>1, <1>2, <1>3
  <1>5. \A j \in DOMAIN trail' : j > i =>
              \/ trail'[j].action \in {"route_to_human_review", "sign_off"}
              \/ trail'[j].action = "generate_report" /\ ~trail'[j].ok
    BY <1>1, <1>2, <1>3
  <1>6. \/ "INCOMPLETE" \in report'.warnings
        \/ \E j \in DOMAIN trail' : /\ j > i /\ ~trail'[j].ok
                                    /\ trail'[j].action = "generate_report"
    BY <1>1, <1>2, <1>3
  <1> QED  BY <1>4, <1>5, <1>6 DEF FailureIsTold

LEMMA FailureStep == TypeOK /\ AdviceIsCurrent /\ FailureReachesReviewer /\ AdviceIsCurrent'
                     /\ [Next]_vars => FailureReachesReviewer'
  <1> SUFFICES ASSUME TypeOK, AdviceIsCurrent, FailureReachesReviewer, AdviceIsCurrent', [Next]_vars
               PROVE  FailureReachesReviewer'
    OBVIOUS
  <1>1. (report # NoReport => ("INCOMPLETE" \in report.warnings) = (failed_step # "none"))'
    <2>1. (report # NoReport => report = Generate(failed_step))'
      BY DEF AdviceIsCurrent
    <2>2. ("INCOMPLETE" \in Generate(failed_step).warnings)' = (failed_step' # "none")
      BY DEF Generate, Warnings
    <2> QED  BY <2>1, <2>2
  <1>2. (failed_step # "none" => status \in {"HUMAN_REVIEW", "CLOSED"})'
    BY DEF AdviceIsCurrent, Delivered
  <1>3. CASE failed_step' = "none"
    BY <1>1, <1>3 DEF FailureReachesReviewer
  <1>4. ASSUME FailureIsTold' PROVE FailureReachesReviewer'
    BY <1>1, <1>2, <1>4 DEF FailureReachesReviewer
  <1>5. ASSUME NEW i \in DOMAIN Steps, Completes(i) PROVE failed_step' = "none"
    <2>1. status \notin Delivered
      BY <1>5, StepTypes DEF Completes, Before, Delivered
    <2> QED  BY <1>5, <2>1, NothingYet DEF Completes
  <1>6. CASE CreateCase
    <2>1. failed_step' = "none"
      BY <1>6, NothingYet DEF CreateCase, Create, Delivered
    <2> QED  BY <1>3, <2>1
  <1>7. CASE Run
    <2>1. CASE \E i \in DOMAIN Steps : Fail(i)
      BY <1>4, <2>1, FailureIsLogged
    <2>2. CASE PrepareData \/ AnalyzeKyc \/ AnalyzeAnomalies
      BY <1>3, <1>5, <2>2, TheSteps DEF PrepareData, AnalyzeKyc, AnalyzeAnomalies
    <2>3. CASE Reconcile
      <3>1. Completes(4)
        BY <2>3, Zenon DEF Reconcile
      <3> QED  BY <1>3, <1>5, <3>1, TheSteps
    <2>4. CASE RetrieveKnowledge \/ Investigate \/ ReviewCase \/ GenerateReport
      BY <1>3, <1>5, <2>4, TheSteps DEF RetrieveKnowledge, Investigate, ReviewCase, GenerateReport
    <2> QED  BY <1>7, <2>1, <2>2, <2>3, <2>4 DEF Run
  <1>8. CASE SignOffCase
    <2> DEFINE e == Ev("sign_off", "HUMAN_REVIEW", "CLOSED", TRUE)
    <2>1. trail' = Append(trail, e) /\ UNCHANGED <<failed_step, report>>
      BY <1>8 DEF SignOffCase
    <2>2. e \in Event /\ e.action = "sign_off"
      BY StepTypes DEF Ev, Event
    <2>3. trail \in Seq(Event)
      BY DEF TypeOK
    <2> HIDE DEF e
    <2>4. CASE failed_step # "none"
      <3>1. FailureIsTold
        BY <2>4 DEF FailureReachesReviewer
      <3> QED  BY <1>4, <2>1, <2>2, <2>3, <3>1, StillTold
    <2> QED  BY <1>3, <2>1, <2>4
  <1>9. CASE UNCHANGED vars
    BY <1>9 DEF vars, FailureReachesReviewer, FailureIsTold
  <1> QED  BY <1>6, <1>7, <1>8, <1>9 DEF Next

-----------------------------------------------------------------------------
(* The theorems.                                                           *)

LEMMA InitHolds == Init => WorkflowInvariant
  <1> SUFFICES ASSUME Init PROVE WorkflowInvariant
    OBVIOUS
  <1>1. TypeOK
    BY InitTypes
  <1>2. FindingsAreEvidence
    BY DEF Init, FindingsAreEvidence
  <1>3. EvidenceGrows /\ AdviceIsCurrent
    BY Froms, NotReviewed DEF Init, EvidenceGrows, AdviceIsCurrent, Delivered
  <1>4. TrailIsThere /\ TrailReplays
    BY DEF Init, TrailIsThere, TrailReplays
  <1>5. FailureReachesReviewer
    BY DEF Init, FailureReachesReviewer
  <1> QED  BY <1>1, <1>2, <1>3, <1>4, <1>5 DEF WorkflowInvariant

\* Findings are evidence, what a status promises has been looked at, review
\* and report are of the present answer, and the trail and the failures tell
\* what happened: for every history, request, engine result and answer.
THEOREM InvariantHolds == Spec => []WorkflowInvariant
  <1>1. WorkflowInvariant /\ [Next]_vars => WorkflowInvariant'
    BY TypesStep, FindingsStep, EvidenceStep, AdviceStep, TrailStep, FailureStep, Zenon
       DEF WorkflowInvariant
  <1> QED  BY InitHolds, <1>1, PTL DEF Spec

\* The audit trail of a case, replayed event by event, leads to its status.
THEOREM TrailAlwaysReplays == Spec => []TrailReplays
  <1>1. WorkflowInvariant => TrailReplays
    BY DEF WorkflowInvariant
  <1> QED  BY InvariantHolds, <1>1, PTL

\* A failure is the end of the run: the case is with the people, its trail
\* names the failed step, and the report or the trail says what is missing.
THEOREM FailuresReachReviewer == Spec => []FailureReachesReviewer
  <1>1. WorkflowInvariant => FailureReachesReviewer
    BY DEF WorkflowInvariant
  <1> QED  BY InvariantHolds, <1>1, PTL

\* Every engine fact of the report can be looked up in the evidence.
THEOREM FactsAlwaysBacked == Spec => []FactsAreBacked
  <1>1. WorkflowInvariant => FactsAreBacked
    <2> SUFFICES ASSUME WorkflowInvariant PROVE FactsAreBacked
      OBVIOUS
    <2>1. findings \subseteq evidence
      BY DEF WorkflowInvariant, FindingsAreEvidence
    <2>2. report = NoReport \/ report.facts = Ids(findings)
      BY DEF WorkflowInvariant, AdviceIsCurrent, Generate, Facts
    <2> QED  BY <2>1, <2>2 DEF FactsAreBacked, NoReport, Ids
  <1> QED  BY InvariantHolds, <1>1, PTL

\* What a report says of the review, when there has been one.
LEMMA ReportedReview ==
    ASSUME WorkflowInvariant, report # NoReport
    PROVE  /\ report = Generate(failed_step)
           /\ report.proposed = investigation.action
           /\ report.advisory = IF review.ran THEN review.decision ELSE investigation.action
           /\ report.validated = (review.validated /\ ~is_mock)
           /\ review # NoReview => review = Critique(evidence, investigation)
           /\ investigation \in Investigation \cup {NoInvestigation}
  BY DEF WorkflowInvariant, AdviceIsCurrent, Generate, Validated, TypeOK

\* The advice of a reviewed case is never below what the engines ask for,
\* never below the model's proposal, and escalates only if that did.
THEOREM AdviceIsBounded == Spec => []ReviewedAdviceIsBounded
  <1>1. WorkflowInvariant => ReviewedAdviceIsBounded
    <2> SUFFICES ASSUME WorkflowInvariant, review.ran, report # NoReport
                 PROVE  ReviewedAdviceIsBounded
      BY DEF ReviewedAdviceIsBounded
    <2>1. review # NoReview
      BY NotReviewed
    <2>2. /\ review = Critique(evidence, investigation)
          /\ report.proposed = investigation.action /\ report.advisory = review.decision
      BY <2>1, ReportedReview
    <2> QED  BY <2>2, ReportedReview, CritiqueBounds DEF ReviewedAdviceIsBounded
  <1> QED  BY InvariantHolds, <1>1, PTL

\* A report marked validated rests on complete, unambiguous evidence and on
\* a supported answer of a real model that is not below the engine floor.
THEOREM ValidatedReportsAreSound == Spec => []ValidatedIsSound
  <1>1. WorkflowInvariant => ValidatedIsSound
    <2> SUFFICES ASSUME WorkflowInvariant, report.validated
                 PROVE  ValidatedIsSound
      BY DEF ValidatedIsSound
    <2>1. report # NoReport
      BY DEF NoReport
    <2>2. review.validated /\ ~is_mock
      BY <2>1, ReportedReview
    <2>3. review # NoReview
      BY <2>2 DEF NoReview
    <2>4. /\ review = Critique(evidence, investigation)
          /\ investigation \in Investigation \cup {NoInvestigation}
      BY <2>1, <2>3, ReportedReview
    <2>5. review.ran /\ report.advisory = review.decision
      BY <2>1, <2>4, ReportedReview, CritiqueBounds
    <2>6. /\ investigation # NoInvestigation
          /\ "unsupported" \notin investigation.claims /\ investigation.grounded
          /\ report.advisory = investigation.action
          /\ DECISION_RANK[report.advisory] >= DECISION_RANK[Engine_floor(evidence)]
      BY <2>2, <2>4, <2>5, CritiqueBounds
    <2>7. Examined /\ Unique(evidence)
      BY <2>5 DEF WorkflowInvariant, EvidenceGrows, Examined
    <2> QED  BY <2>2, <2>6, <2>7 DEF ValidatedIsSound
  <1> QED  BY InvariantHolds, <1>1, PTL

\* Advice to clear against a grave finding carries the consistency warning
\* and comes only from a run whose review step failed.
THEOREM ClearIsAlwaysWarned == Spec => []ClearIsWarned
  <1>1. WorkflowInvariant => ClearIsWarned
    <2> SUFFICES ASSUME WorkflowInvariant, report.advisory = "CLEAR",
                        NEW e \in evidence, Grave(e)
                 PROVE  "CONSISTENCY" \in report.warnings /\ failed_step = "review"
      BY DEF ClearIsWarned
    <2>1. report # NoReport
      BY DEF NoReport
    <2>2. e \in Concerns /\ ForcesReview(e)
      <3>1. /\ e \in findings
            /\ e.kind = "REC" /\ e.rule \in STATUS_RULES => e.severity = "medium"
        BY DEF WorkflowInvariant, FindingsAreEvidence
      <3>2. e \in Concerns
        BY <3>1 DEF Grave, Concerns
      <3>3. ForcesReview(e)
        BY <3>1 DEF Grave, ForcesReview
      <3> QED  BY <3>2, <3>3
    <2>3. Engine_floor(evidence) = "REVIEW"
      BY <2>2 DEF Engine_floor
    <2>4. ~review.ran
      <3> SUFFICES ASSUME review.ran PROVE FALSE
        OBVIOUS
      <3>1. review = Critique(evidence, investigation) /\ report.advisory = review.decision
        BY <2>1, NotReviewed, ReportedReview
      <3>2. DECISION_RANK["CLEAR"] >= DECISION_RANK["REVIEW"]
        BY <2>1, <2>3, <3>1, ReportedReview, CritiqueBounds
      <3> QED  BY <3>2, Ranks
    <2>5. investigation.action = "CLEAR" /\ review = NoReview
      <3>1. report.advisory = investigation.action
        BY <2>1, <2>4, ReportedReview
      <3>2. review # NoReview => review.ran
        BY <2>1, ReportedReview, CritiqueBounds
      <3> QED  BY <2>4, <3>1, <3>2
    <2>6. failed_step = "review"
      BY <2>1, <2>5 DEF WorkflowInvariant, AdviceIsCurrent, NoInvestigation
    <2>7. "CONSISTENCY" \in Generate(failed_step).warnings
      BY <2>2, <2>4, <2>5 DEF Generate, Warnings
    <2> QED  BY <2>1, <2>6, <2>7, ReportedReview
  <1> QED  BY InvariantHolds, <1>1, PTL

-----------------------------------------------------------------------------
(* The life cycle.                                                         *)

LEMMA StageMoves ==
    ASSUME NEW to, StageOf(status') = to
    PROVE  [c \in {Case} |-> StageOf(status)]' = [[c \in {Case} |-> StageOf(status)] EXCEPT ![Case] = to]
  OBVIOUS

LEMMA LifecycleStep == TypeOK /\ [Next]_vars => [Lifecycle!Next]_Lifecycle!vars
  <1> SUFFICES ASSUME TypeOK, [Next]_vars PROVE [Lifecycle!Next]_Lifecycle!vars
    OBVIOUS
  <1> DEFINE from == StageOf(status)
             to   == StageOf(status')
  <1>1. CASE from = to /\ sign_off' = sign_off
    BY <1>1 DEF Lifecycle!vars
  <1>2. CASE /\ <<from, to>> \in {<<"absent", "analysis">>, <<"analysis", "review">>}
             /\ sign_off' = sign_off
    <2>1. Lifecycle!Move(Case, from, to)
      BY <1>2, StageMoves DEF Lifecycle!Move
    <2> QED  BY <1>2, <2>1 DEF Lifecycle!Next, Lifecycle!Open, Lifecycle!Deliver
  <1>3. CASE CreateCase
    <2>1. from = "absent" /\ to = "analysis" /\ sign_off' = sign_off
      BY <1>3 DEF CreateCase, Create, StageOf
    <2> QED  BY <1>2, <2>1
  <1>4. ASSUME NEW i \in DOMAIN Steps, Completes(i)
        PROVE  [Lifecycle!Next]_Lifecycle!vars
    <2>1. /\ from = "analysis" /\ to \in {"analysis", "review"}
          /\ sign_off' = sign_off
      BY <1>4, StepTypes DEF Completes, Before, StageOf, caseVars
    <2> QED  BY <1>1, <1>2, <2>1
  <1>5. ASSUME NEW i \in DOMAIN Steps, Fail(i)
        PROVE  [Lifecycle!Next]_Lifecycle!vars
    <2>1. from = "analysis" /\ to = "review" /\ sign_off' = sign_off
      BY <1>5, StepTypes DEF Fail, FailedStatus, Before, StageOf, caseVars
    <2> QED  BY <1>2, <2>1
  <1>6. CASE SignOffCase
    <2>1. PICK by \in Analysts, second \in Analysts \cup {NoOne}, d \in Decision, reasoned \in BOOLEAN :
             /\ MaySignOff(status, by, d, second, reasoned)
             /\ sign_off' = [by |-> by, second |-> second, decision |-> d]
             /\ status' = "CLOSED"
      BY <1>6 DEF SignOffCase
    <2> DEFINE v == [by |-> by, second |-> second, decision |-> d]
    <2>2. v \in Lifecycle!SignOff /\ Lifecycle!EnoughReviewers(v.by, v.decision, v.second)
      BY <2>1 DEF MaySignOff, EnoughReviewers, DifferentPeople, Decision, Lifecycle!SignOff,
         Lifecycle!EnoughReviewers, Lifecycle!DifferentPeople, Lifecycle!Decision
    <2>3. from = "review" /\ to = "closed" /\ sign_off' = v
      BY <2>1 DEF MaySignOff, StageOf
    <2> HIDE DEF v
    <2>4. [c \in {Case} |-> sign_off]' = [[c \in {Case} |-> sign_off] EXCEPT ![Case] = v]
      BY <2>3
    <2>5. [c \in {Case} |-> NoOne] = [[c \in {Case} |-> NoOne] EXCEPT ![Case] = NoOne]
      OBVIOUS
    <2>6. Lifecycle!Decide(Case, v)
      <3>1. Lifecycle!Delivered(Case)
        BY <2>3 DEF Lifecycle!Delivered
      <3>2. [c \in {Case} |-> StageOf(status)]' = [[c \in {Case} |-> StageOf(status)] EXCEPT ![Case] = "closed"]
        BY <2>3, StageMoves
      <3> QED  BY <2>2, <2>4, <2>5, <3>1, <3>2 DEF Lifecycle!Decide
    <2> QED  BY <2>2, <2>6 DEF Lifecycle!Next
  <1>7. CASE UNCHANGED vars
    BY <1>1, <1>7 DEF vars
  <1>8. CASE Run
    <2>1. CASE \E i \in DOMAIN Steps : Fail(i)
      BY <1>5, <2>1
    <2>2. CASE PrepareData \/ AnalyzeKyc \/ AnalyzeAnomalies
      BY <1>4, <2>2, TheSteps DEF PrepareData, AnalyzeKyc, AnalyzeAnomalies
    <2>3. CASE Reconcile
      <3>1. Completes(4)
        BY <2>3, Zenon DEF Reconcile
      <3> QED  BY <1>4, <3>1, TheSteps
    <2>4. CASE RetrieveKnowledge \/ Investigate \/ ReviewCase \/ GenerateReport
      BY <1>4, <2>4, TheSteps DEF RetrieveKnowledge, Investigate, ReviewCase, GenerateReport
    <2> QED  BY <1>8, <2>1, <2>2, <2>3, <2>4 DEF Run
  <1> QED  BY <1>3, <1>6, <1>7, <1>8 DEF Next

\* The eight steps, their failures and the sign-off are a case of the service's
\* life cycle: delivered at most once, decided after it and by enough people.
THEOREM WorkflowIsALifecycle == Spec => Lifecycle!Safe
  <1>1. Init => Lifecycle!Init
    BY DEF Init, Lifecycle!Init, StageOf, NoSignOff, Lifecycle!NoSignOff
  <1> QED  BY WorkflowTypes, LifecycleStep, <1>1, PTL DEF Spec, Lifecycle!Safe
=============================================================================
