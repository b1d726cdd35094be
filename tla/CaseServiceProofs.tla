-------------------------- MODULE CaseServiceProofs --------------------------
(***************************************************************************)
(* What CaseService guarantees for any number of people, cases, requests,  *)
(* crashes and database errors, under both kinds of lock.                  *)
(*                                                                         *)
(* First its types and jobs, as the invariant Types /\ Jobs: every         *)
(* variable has its type, a decision in progress passed its checks against *)
(* the row it has loaded (without which what it writes has no type), what  *)
(* people decide is the stored result of a finished job, and no job is in  *)
(* two places.                                                             *)
(*                                                                         *)
(* Then trails without gaps, escalations with four eyes, closed cases that *)
(* stay closed, trails that tell how a case stands, and the life cycle of  *)
(* CaseLifecycle.  All of it follows from what a step can do to one row    *)
(* (StepOfOneCase) and to the trails (TrailStep, WhatHappens).             *)
(***************************************************************************)
EXTENDS CaseService, TLAPS

-----------------------------------------------------------------------------
(* What the helpers of the model return.                                   *)

\* An UPDATE leaves each column as it is in the database or as the handler
\* has set it.
LEMMA WrittenColumns ==
  ASSUME NEW current \in Row, NEW loaded \in Row, NEW new \in Row
  PROVE  Written(current, loaded, new) =
           [job     |-> IF new.job = loaded.job THEN current.job ELSE new.job,
            status  |-> IF new.status = loaded.status THEN current.status ELSE new.status,
            state   |-> IF new.state = loaded.state THEN current.state ELSE new.state,
            pending |-> IF new.pending = loaded.pending THEN current.pending ELSE new.pending,
            details |-> IF new.details = loaded.details THEN current.details ELSE new.details]
<1>1. DOMAIN current = {"job", "status", "state", "pending", "details"}
  BY DEF Row
<1>. QED
  BY <1>1 DEF Written

LEMMA WrittenType ==
  ASSUME NEW current \in Row, NEW loaded \in Row, NEW new \in Row
  PROVE  Written(current, loaded, new) \in Row
<1>. DEFINE Pick(l, n, c) == IF n = l THEN c ELSE n
<1>1. Written(current, loaded, new) =
        [job     |-> Pick(loaded.job, new.job, current.job),
         status  |-> Pick(loaded.status, new.status, current.status),
         state   |-> Pick(loaded.state, new.state, current.state),
         pending |-> Pick(loaded.pending, new.pending, current.pending),
         details |-> Pick(loaded.details, new.details, current.details)]
  BY WrittenColumns
<1>2. /\ Pick(loaded.job, new.job, current.job) \in {"none", "queued", "running", "done", "failed"}
      /\ Pick(loaded.status, new.status, current.status) \in {"CASE_CREATED", "HUMAN_REVIEW", "CLOSED"}
      /\ Pick(loaded.state, new.state, current.state) \in CaseState
      /\ Pick(loaded.pending, new.pending, current.pending) \in Proposal
  BY DEF Row
<1>3. Pick(loaded.details, new.details, current.details) \in BOOLEAN
  BY Zenon DEF Row
<1>. HIDE DEF Pick
<1>. QED
  BY <1>1, <1>2, <1>3 DEF Row

\* append_events keeps a trail a sequence of audit rows and numbers them on.
LEMMA AppendType ==
  ASSUME NEW t \in Seq(AuditRow), NEW events \in Seq(Event), NEW last \in Nat
  PROVE  /\ t \o Numbered(events, last) \in Seq(AuditRow)
         /\ Len(t \o Numbered(events, last)) = Len(t) + Len(events)
<1>1. Numbered(events, last) \in [1..Len(events) -> AuditRow]
  BY DEF Numbered, AuditRow
<1>2. Numbered(events, last) \in Seq(AuditRow) /\ Len(Numbered(events, last)) = Len(events)
  BY <1>1
<1>. QED
  BY <1>2

LEMMA NullTypes ==
  /\ NoSignOff \notin SignOff
  /\ NoProposal \in Proposal
  /\ NewState \in CaseState
  /\ NoRow \in Row
  /\ NoOp \in Op
  /\ NoResult \in Result
<1>1. NoOp.case \in Cases
  BY CasesAssumption DEF NoOp
<1>. QED
  BY <1>1, PeopleAssumption
  DEF NoSignOff, SignOff, NoProposal, Proposal, NewState, CaseState, NoRow, Row, NoOp, Op,
      NoResult, Result, Advisory, Decision, Kind, Users

LEMMA EventsType ==
  ASSUME NEW o \in Op, NEW s \in Row
  PROVE  /\ ReadEvents(o, s) \in Seq(Event)
         /\ o.kind \in {"sign_off", "confirm", "reject"} => DecisionEvents(o, s) \in Seq(Event)
<1>1. o.user \in Users \cup {NoOne} /\ o.decision \in Advisory
      /\ s.pending.by \in Users \cup {NoOne}
  BY DEF Op, Row, Proposal, Users
<1>2. \A who \in Users \cup {NoOne}, what \in Action : Ev(who, what) \in Event
  BY DEF Ev, Event, Advisory
<1>3. \A who \in Users \cup {NoOne}, d \in Advisory : SignOffEvent(who, d) \in Event
  BY DEF SignOffEvent, Event, Action
<1>4. ReadEvents(o, s) \in Seq(Event)
  <2>1. /\ Ev(o.user, "view_audit_trail") \in Event
        /\ Ev(o.user, "view_case") \in Event
        /\ Ev(o.user, "view_customer_details") \in Event
    BY <1>1, <1>2 DEF Action
  <2>. QED
    BY <2>1 DEF ReadEvents
<1>5. OverrideEvents(o, s) \in Seq(Event)
  <2>1. [who |-> o.user, what |-> "advisory_override_acknowledged", decision |-> "CLEAR"] \in Event
    BY <1>1 DEF Event, Action, Advisory, Decision
  <2>. QED
    BY <2>1 DEF OverrideEvents
<1>6. ASSUME o.kind \in {"sign_off", "confirm", "reject"}
      PROVE  DecisionEvents(o, s) \in Seq(Event)
  <2>1. /\ Ev(o.user, "escalation_proposed") \in Event
        /\ Ev(o.user, "escalation_confirmed") \in Event
        /\ Ev(o.user, "escalation_rejected") \in Event
    BY <1>1, <1>2 DEF Action
  <2>2. SignOffEvent(o.user, o.decision) \in Event /\ SignOffEvent(s.pending.by, "ESCALATE") \in Event
    BY <1>1, <1>3 DEF Advisory, Decision
  <2>. QED
    BY <1>5, <1>6, <2>1, <2>2 DEF DecisionEvents
<1>. QED
  BY <1>4, <1>6

\* The handler leaves a row that can be stored.
LEMMA DecidedType ==
  ASSUME NEW u \in Analysts, NEW c \in Cases, NEW o \in DecisionOps(u, c),
         NEW s \in Row, NEW acknowledged \in BOOLEAN, Permitted(o, acknowledged, s)
  PROVE  Decided(o, s) \in Row
<1>1. o.user = u /\ o.decision \in Decision \cup {"none"} /\ o.reasoned \in BOOLEAN
      /\ o.kind \in {"sign_off", "confirm", "reject"} /\ (o.kind = "sign_off" => o.decision \in Decision)
  BY DEF DecisionOps
<1>2. s.pending \in Proposal /\ s.state \in CaseState
  BY DEF Row
<1>3. CASE o.kind = "sign_off" /\ o.decision = "ESCALATE"
  <2>1. [by |-> o.user, reasoned |-> o.reasoned] \in Proposal
    BY <1>1 DEF Proposal
  <2>. QED
    BY <1>3, <2>1 DEF Decided, ProposeRow, Row
<1>4. CASE o.kind = "sign_off" /\ o.decision # "ESCALATE"
  <2>1. [by |-> o.user, second |-> NoOne, decision |-> o.decision] \in SignOff
    BY <1>1, <1>4 DEF SignOff
  <2>2. [s.state EXCEPT !.signOff = [by |-> o.user, second |-> NoOne, decision |-> o.decision]] \in CaseState
    BY <1>2, <2>1 DEF CaseState
  <2>. QED
    BY <1>4, <2>2 DEF Decided, CloseRow, Closed, Row
<1>5. CASE o.kind = "confirm"
  <2>1. s.pending.by \in Analysts
    BY <1>2, <1>5 DEF Permitted, ConfirmPermitted, SecondReviewer, Proposal
  <2>2. [by |-> s.pending.by, second |-> o.user, decision |-> "ESCALATE"] \in SignOff
    BY <1>1, <2>1 DEF SignOff, Decision
  <2>3. [s.state EXCEPT !.signOff = [by |-> s.pending.by, second |-> o.user, decision |-> "ESCALATE"]] \in CaseState
    BY <1>2, <2>2 DEF CaseState
  <2>. QED
    BY <1>5, <2>3, NullTypes DEF Decided, ConfirmRow, Closed, Row
<1>6. CASE o.kind = "reject"
  BY <1>6, NullTypes DEF Decided, RejectRow, Row
<1>. QED
  BY <1>1, <1>3, <1>4, <1>5, <1>6

LEMMA JobRowsType ==
  ASSUME NEW s \in Row, NEW result \in Result
  PROVE  /\ RunningRow(s) \in Row
         /\ DoneRow(s, result) \in Row
         /\ FailedRow(s) \in Row
<1>. DEFINE n == [NewState EXCEPT !.advisory = result.advisory]
<1>1. result.advisory \in Advisory /\ result.details \in BOOLEAN
  BY DEF Result
<1>2. n \in CaseState
  BY <1>1, NullTypes DEF CaseState
<1>3. ASSUME NEW d \in BOOLEAN, NEW m \in CaseState
      PROVE  [s EXCEPT !.job = "done", !.status = "HUMAN_REVIEW", !.state = m, !.details = d] \in Row
  BY DEF Row
<1>4. DoneRow(s, result) \in Row
  BY <1>1, <1>2, <1>3 DEF DoneRow
<1>5. RunningRow(s) \in Row /\ FailedRow(s) \in Row
  BY NullTypes DEF RunningRow, FailedRow, Row
<1>. QED
  BY <1>4, <1>5

-----------------------------------------------------------------------------
(* Every variable keeps its type, and a decision in progress has passed    *)
(* its checks: neither can be shown alone, as what a decision writes is of *)
(* the right type because of the checks.                                   *)

Types == TypeOK /\ DecisionsArePermitted

\* A request that ends leaves nothing behind; what Types says of the
\* request threads goes on to hold.
RequestTypes ==
    /\ pc \in [Requests -> RequestPC]
    /\ op \in [Requests -> Op]
    /\ seen \in [Requests -> Row]
    /\ base \in [Requests -> Nat]
    /\ answer \in [Requests -> Answer]
    /\ DecisionsArePermitted

LEMMA EndKeepsTypes ==
  ASSUME RequestTypes, NEW r \in Requests, NEW a \in Answer, End(r, a)
  PROVE  RequestTypes'
<1>1. /\ pc' \in [Requests -> RequestPC] /\ op' \in [Requests -> Op]
      /\ seen' \in [Requests -> Row] /\ base' \in [Requests -> Nat]
      /\ answer' \in [Requests -> Answer]
  BY NullTypes DEF RequestTypes, End, RequestPC
<1>2. ASSUME NEW s \in Requests
      PROVE  IF s = r THEN pc'[s] = "done"
             ELSE pc'[s] = pc[s] /\ op'[s] = op[s] /\ seen'[s] = seen[s]
  BY DEF RequestTypes, End
<1>3. DecisionsArePermitted'
  BY <1>2 DEF RequestTypes, DecisionsArePermitted, Deciding
<1>. QED
  BY <1>1, <1>3 DEF RequestTypes

LEMMA LoadKeepsTypes ==
  ASSUME RequestTypes, row \in [Cases -> Row], NEW r \in Requests, NEW o \in Op, Load(r, o),
         o.kind \in {"sign_off", "confirm", "reject"} =>
           /\ o \in DecisionOps(o.user, o.case)
           /\ o.user \in Analysts
           /\ \E acknowledged \in BOOLEAN : Permitted(o, acknowledged, row[o.case])
  PROVE  RequestTypes'
<1>1. o.case \in Cases
  BY DEF Op
<1>2. /\ pc' \in [Requests -> RequestPC] /\ op' \in [Requests -> Op]
      /\ seen' \in [Requests -> Row] /\ base' \in [Requests -> Nat]
      /\ answer' \in [Requests -> Answer]
  BY <1>1 DEF RequestTypes, Load, Arrive, Goto, RequestPC, reqVars
<1>3. ASSUME NEW s \in Requests
      PROVE  IF s = r THEN pc'[s] = "loaded" /\ op'[s] = o /\ seen'[s] = row[o.case]
             ELSE pc'[s] = pc[s] /\ op'[s] = op[s] /\ seen'[s] = seen[s]
  BY DEF RequestTypes, Load, Arrive, Goto
<1>4. DecisionsArePermitted'
  BY <1>3 DEF RequestTypes, DecisionsArePermitted, Deciding
<1>. QED
  BY <1>2, <1>4 DEF RequestTypes

\* A request that goes on with its operation and the row it has loaded.
LEMMA GotoKeepsTypes ==
  ASSUME RequestTypes, NEW r \in Requests, NEW there \in RequestPC, Goto(r, there),
         UNCHANGED <<op, seen>>, base' \in [Requests -> Nat],
         there \in {"loaded", "flushed"} => Deciding(r)
  PROVE  RequestTypes'
<1>1. /\ pc' \in [Requests -> RequestPC] /\ op' \in [Requests -> Op]
      /\ seen' \in [Requests -> Row] /\ answer' \in [Requests -> Answer]
  BY DEF RequestTypes, Goto
<1>2. ASSUME NEW s \in Requests
      PROVE  pc'[s] = (IF s = r THEN there ELSE pc[s]) /\ op'[s] = op[s] /\ seen'[s] = seen[s]
  BY DEF RequestTypes, Goto
<1>3. DecisionsArePermitted'
  BY <1>2 DEF RequestTypes, DecisionsArePermitted, Deciding
<1>. QED
  BY <1>1, <1>3 DEF RequestTypes

LEMMA TypesStep == Types /\ [Next]_vars => Types'
<1>. SUFFICES ASSUME Types, [Next]_vars PROVE Types'
  OBVIOUS
<1>. USE DEF dbVars, workerVars, reqVars, boundVars
<1>1. TypeOK /\ RequestTypes
  BY DEF Types, TypeOK, RequestTypes
<1>2. ASSUME NEW r \in Requests, Refuse(r)
      PROVE  Types'
  BY <1>1, <1>2, EndKeepsTypes DEF Refuse, Types, TypeOK, RequestTypes, Answer
<1>3. ASSUME NEW r \in Requests, NEW u \in Analysts, NEW c \in Cases, CreateCheck(r, u, c)
      PROVE  Types'
  <2>1. CreateOp(u, c) \in Op /\ CreateOp(u, c).kind = "create"
    BY NullTypes DEF CreateOp, Op, Kind, Users
  <2>2. CASE Refuse(r)
    BY <1>2, <2>2
  <2>3. CASE Arrive(r, CreateOp(u, c)) /\ Goto(r, "checked")
             /\ UNCHANGED <<dbVars, engine, queue, workerVars, seen, base, shown, boundVars>>
    <3>1. /\ pc' \in [Requests -> RequestPC] /\ op' \in [Requests -> Op]
      BY <1>1, <2>1, <2>3 DEF Arrive, Goto, RequestTypes, RequestPC
    <3>2. DecisionsArePermitted'
      BY <1>1, <2>1, <2>3 DEF Arrive, Goto, RequestTypes, DecisionsArePermitted, Deciding
    <3>. QED
      BY <1>1, <2>3, <3>1, <3>2 DEF Types, TypeOK, Goto
  <2>. QED
    BY <1>3, <2>2, <2>3 DEF CreateCheck
<1>4. ASSUME NEW r \in Requests, NEW k \in {"view", "audit"}, NEW u \in Users, NEW c \in Cases,
             ReadCase(r, k, u, c)
      PROVE  Types'
  <2>1. ReadOp(k, u, c) \in Op /\ ReadOp(k, u, c).kind = k
    BY NullTypes DEF ReadOp, Op, Kind
  <2>2. CASE Load(r, ReadOp(k, u, c))
    <3>1. RequestTypes'
      BY <1>1, <2>1, <2>2, LoadKeepsTypes DEF TypeOK
    <3>. QED
      BY <1>1, <2>2, <3>1 DEF Load, Types, TypeOK, RequestTypes
  <2>. QED
    BY <1>2, <1>4, <2>2 DEF ReadCase
<1>5. ASSUME NEW r \in Requests, NEW u \in Analysts, NEW c \in Cases, Decide(r, u, c)
      PROVE  Types'
  <2>1. ASSUME NEW o \in DecisionOps(u, c), NEW acknowledged \in BOOLEAN,
               Permitted(o, acknowledged, row[c]), Load(r, o)
        PROVE  Types'
    <3>1. o \in Op /\ o.user = u /\ o.case = c
      BY DEF DecisionOps, Op, Kind, Users, Advisory
    <3>2. RequestTypes'
      BY <1>1, <2>1, <3>1, LoadKeepsTypes DEF TypeOK
    <3>. QED
      BY <1>1, <2>1, <3>2 DEF Load, Types, TypeOK, RequestTypes
  <2>. QED
    BY <1>2, <1>5, <2>1 DEF Decide
<1>6. ASSUME NEW r \in Requests, CreateInsert(r)
      PROVE  Types'
  <2>. DEFINE c == op[r].case
              events == <<Ev(NoOne, "create_case"), Ev(op[r].user, "request_case")>>
  <2>1. c \in Cases /\ events \in Seq(Event)
    BY <1>1 DEF RequestTypes, Op, Ev, Event, Action, Advisory
  <2>2. CASE row' = [row EXCEPT ![c] = [NoRow EXCEPT !.job = "queued"]]
             /\ Append_events(c, events, 0) /\ Goto(r, "created") /\ UNCHANGED <<op, seen, base>>
    <3>1. [NoRow EXCEPT !.job = "queued"] \in Row
      BY NullTypes DEF Row
    <3>2. row' \in [Cases -> Row]
      BY <1>1, <2>1, <2>2, <3>1 DEF TypeOK
    <3>3. trail' \in [Cases -> Seq(AuditRow)]
      BY <1>1, <2>1, <2>2, AppendType DEF TypeOK, Append_events
    <3>4. RequestTypes'
      BY <1>1, <2>2, GotoKeepsTypes DEF RequestTypes, RequestPC
    <3>. QED
      BY <1>1, <1>6, <3>2, <3>3, <3>4 DEF CreateInsert, Types, TypeOK, RequestTypes
  <2>3. CASE End(r, "duplicate") /\ UNCHANGED dbVars
    BY <1>1, <1>6, <2>3, EndKeepsTypes DEF CreateInsert, Types, TypeOK, RequestTypes, Answer
  <2>. QED
    BY <1>6, <2>2, <2>3 DEF CreateInsert
<1>7. ASSUME NEW r \in Requests, CreateSubmit(r)
      PROVE  Types'
  <2>1. queue' \in Seq(Cases)
    BY <1>1, <1>7 DEF CreateSubmit, TypeOK, RequestTypes, Op
  <2>2. RequestTypes'
    BY <1>1, <1>7, EndKeepsTypes DEF CreateSubmit, Answer
  <2>. QED
    BY <1>1, <1>7, <2>1, <2>2 DEF CreateSubmit, Types, TypeOK, RequestTypes
<1>8. ASSUME NEW r \in Requests, ReadLast(r)
      PROVE  Types'
  <2>1. base' \in [Requests -> Nat]
    BY <1>1, <1>8 DEF ReadLast, TypeOK, RequestTypes, Op
  <2>2. RequestTypes'
    BY <1>1, <1>8, <2>1, GotoKeepsTypes DEF ReadLast, RequestPC
  <2>. QED
    BY <1>1, <1>8, <2>2 DEF ReadLast, Types, TypeOK, RequestTypes
<1>9. ASSUME NEW r \in Requests, Disclose(r) \/ UNCHANGED shown
      PROVE  shown' \subseteq Users \X Cases
  BY <1>1, <1>9 DEF Disclose, SendsDetails, TypeOK, RequestTypes, Op, Users
<1>10. ASSUME NEW r \in Requests, CommitRead(r)
       PROVE  Types'
  <2>1. trail' \in [Cases -> Seq(AuditRow)]
    <3>1. op[r] \in Op /\ op[r].case \in Cases /\ seen[r] \in Row /\ base[r] \in Nat
      BY <1>1 DEF RequestTypes, Op
    <3>2. trail[op[r].case] \o Numbered(ReadEvents(op[r], seen[r]), base[r]) \in Seq(AuditRow)
      BY <1>1, <3>1, EventsType, AppendType DEF TypeOK
    <3>. QED
      BY <1>1, <1>10, <3>1, <3>2 DEF CommitRead, TypeOK, Append_events
  <2>2. RequestTypes'
    BY <1>1, <1>10, EndKeepsTypes DEF CommitRead, Answer
  <2>. QED
    BY <1>1, <1>9, <1>10, <2>1, <2>2 DEF CommitRead, Types, TypeOK, RequestTypes
<1>11. ASSUME NEW r \in Requests, FlushDecision(r)
       PROVE  Types'
  <2>1. base' \in [Requests -> Nat]
    BY <1>1, <1>11 DEF FlushDecision, TypeOK, RequestTypes, Op
  <2>2. RequestTypes'
    BY <1>1, <1>11, <2>1, GotoKeepsTypes DEF FlushDecision, RequestPC, Deciding
  <2>. QED
    BY <1>1, <1>11, <2>2 DEF FlushDecision, Types, TypeOK, RequestTypes
<1>12. ASSUME NEW r \in Requests, CommitDecision(r)
       PROVE  Types'
  <2>1. /\ op[r] \in Op /\ op[r].case \in Cases /\ seen[r] \in Row /\ base[r] \in Nat
        /\ op[r].kind \in {"sign_off", "confirm", "reject"}
        /\ Decided(op[r], seen[r]) \in Row
    <3>1. op[r] \in Op /\ op[r].case \in Cases /\ seen[r] \in Row /\ base[r] \in Nat
      BY <1>1 DEF RequestTypes, Op
    <3>2. Deciding(r)
      BY <1>1, <1>12 DEF CommitDecision, RequestTypes, DecisionsArePermitted
    <3>3. PICK acknowledged \in BOOLEAN : Permitted(op[r], acknowledged, seen[r])
      BY <1>1, <3>2 DEF RequestTypes, DecisionsArePermitted
    <3>4. op[r] \in DecisionOps(op[r].user, op[r].case) /\ op[r].user \in Analysts
      BY <1>1, <3>2 DEF RequestTypes, DecisionsArePermitted
    <3>5. Decided(op[r], seen[r]) \in Row
      BY <3>1, <3>3, <3>4, DecidedType
    <3>. QED
      BY <3>1, <3>2, <3>5 DEF Deciding
  <2>2. row' \in [Cases -> Row]
    <3>1. Written(row[op[r].case], seen[r], Decided(op[r], seen[r])) \in Row
      BY <1>1, <2>1, WrittenType DEF TypeOK
    <3>. QED
      BY <1>1, <1>12, <2>1, <3>1 DEF CommitDecision, TypeOK
  <2>3. trail' \in [Cases -> Seq(AuditRow)]
    <3>1. trail[op[r].case] \o Numbered(DecisionEvents(op[r], seen[r]), base[r]) \in Seq(AuditRow)
      BY <1>1, <2>1, EventsType, AppendType DEF TypeOK
    <3>. QED
      BY <1>1, <1>12, <2>1, <3>1 DEF CommitDecision, TypeOK, Append_events
  <2>4. RequestTypes'
    BY <1>1, <1>12, EndKeepsTypes DEF CommitDecision, Answer
  <2>. QED
    BY <1>1, <1>9, <1>12, <2>2, <2>3, <2>4 DEF CommitDecision, Types, TypeOK, RequestTypes
<1>13. ASSUME UNCHANGED reqVars
       PROVE  RequestTypes' /\ shown' = shown
  BY <1>1, <1>13 DEF RequestTypes, DecisionsArePermitted, Deciding
<1>14. ASSUME wcase \in Cases, NEW s \in Row, row' = [row EXCEPT ![wcase] = s]
       PROVE  row' \in [Cases -> Row]
  BY <1>1, <1>14 DEF TypeOK
<1>15. /\ wcase \in Cases /\ wresult \in Result /\ wbase \in Nat /\ NoOp.case \in Cases
       /\ row[wcase] \in Row
  BY <1>1, NullTypes DEF TypeOK, Op
<1>16. CASE StartJob
  BY <1>1, <1>13, <1>16 DEF StartJob, Types, TypeOK, RequestTypes, WorkerPC
<1>17. CASE SaveRunning
  <2>1. RunningRow(row[wcase]) \in Row
    BY <1>15, JobRowsType
  <2>2. row' \in [Cases -> Row]
    BY <1>14, <1>15, <1>17, <2>1 DEF SaveRunning
  <2>. QED
    BY <1>1, <1>13, <1>17, <2>2 DEF SaveRunning, Types, TypeOK, RequestTypes, WorkerPC
<1>18. CASE FlushResult
  BY <1>1, <1>13, <1>15, <1>18, AnalysisAssumption
  DEF FlushResult, LastNumber, Types, TypeOK, RequestTypes, WorkerPC
<1>19. CASE CommitResult
  <2>1. CASE row' = [row EXCEPT ![wcase] = DoneRow(@, wresult)]
             /\ Append_events(wcase, <<Ev(NoOne, "analysis")>>, wbase) /\ Idle
    <3>1. DoneRow(row[wcase], wresult) \in Row
      BY <1>15, JobRowsType
    <3>2. row' \in [Cases -> Row]
      BY <1>14, <1>15, <2>1, <3>1
    <3>3. <<Ev(NoOne, "analysis")>> \in Seq(Event)
      BY DEF Ev, Event, Action, Advisory
    <3>4. trail' \in [Cases -> Seq(AuditRow)]
      BY <1>1, <1>15, <2>1, <3>3, AppendType DEF TypeOK, Append_events
    <3>. QED
      BY <1>1, <1>13, <1>15, <1>19, <2>1, <3>2, <3>4, NullTypes
      DEF CommitResult, Idle, Types, TypeOK, RequestTypes, WorkerPC
  <2>2. CASE wpc' = "failing" /\ UNCHANGED <<dbVars, wcase, wbase, wresult>>
    BY <1>1, <1>13, <1>19, <2>2 DEF CommitResult, Types, TypeOK, RequestTypes, WorkerPC
  <2>. QED
    BY <1>19, <2>1, <2>2 DEF CommitResult
<1>20. CASE MarkFailed
  <2>1. FailedRow(row[wcase]) \in Row
    BY <1>15, JobRowsType
  <2>2. row' \in [Cases -> Row]
    BY <1>14, <1>15, <1>20, <2>1 DEF MarkFailed
  <2>. QED
    BY <1>1, <1>13, <1>15, <1>20, <2>2, NullTypes
    DEF MarkFailed, Idle, Types, TypeOK, RequestTypes, WorkerPC
<1>21. ASSUME Fault
       PROVE  faults' \in 0..MaxFaults /\ UNCHANGED <<crashes, stops>>
  BY <1>1, <1>21, BoundAssumption DEF Fault, TypeOK
<1>22. ASSUME NEW r \in Requests, RequestFault(r)
       PROVE  Types'
  <2>1. RequestTypes'
    BY <1>1, <1>22, EndKeepsTypes DEF RequestFault, Answer
  <2>. QED
    BY <1>1, <1>21, <1>22, <2>1 DEF RequestFault, Types, TypeOK, RequestTypes
<1>23. CASE JobFault
  BY <1>1, <1>13, <1>15, <1>21, <1>23, NullTypes, SMTT(30)
  DEF JobFault, Idle, Types, TypeOK, RequestTypes, WorkerPC
<1>24. CASE Crash
  <2>1. /\ pc' \in [Requests -> RequestPC] /\ op' \in [Requests -> Op]
        /\ seen' \in [Requests -> Row] /\ base' \in [Requests -> Nat]
        /\ answer' \in [Requests -> Answer]
    BY <1>1, <1>24, NullTypes DEF Crash, RequestTypes, RequestPC, Answer
  <2>2. \A r \in Requests : pc'[r] \in {"idle", "done"}
    BY <1>1, <1>24 DEF Crash, RequestTypes, RequestPC
  <2>3. DecisionsArePermitted'
    BY <2>2 DEF DecisionsArePermitted, Deciding
  <2>4. crashes' \in 0..MaxCrashes
    BY <1>1, <1>24, BoundAssumption DEF Crash, TypeOK
  <2>. QED
    BY <1>1, <1>15, <1>24, <2>1, <2>3, <2>4, NullTypes DEF Crash, Idle, Types, TypeOK, WorkerPC
<1>25. CASE Stop
  BY <1>1, <1>13, <1>25, BoundAssumption DEF Stop, Types, TypeOK, RequestTypes
<1>26. CASE Restart
  BY <1>1, <1>13, <1>26 DEF Restart, Types, TypeOK, RequestTypes
<1>27. CASE EngineLoaded
  BY <1>1, <1>13, <1>27 DEF EngineLoaded, Types, TypeOK, RequestTypes
<1>28. CASE UNCHANGED vars
  BY <1>1, <1>13, <1>28 DEF vars, Types, TypeOK, RequestTypes
<1>29. ASSUME NEW r \in Requests, Arrives(r) \/ Proceeds(r) \/ RequestFault(r)
       PROVE  Types'
  BY <1>3, <1>4, <1>5, <1>6, <1>7, <1>8, <1>10, <1>11, <1>12, <1>22, <1>29 DEF Arrives, Proceeds
<1>. QED
  BY <1>16, <1>17, <1>18, <1>19, <1>20, <1>23, <1>24, <1>25, <1>26, <1>27, <1>28, <1>29
  DEF Next, Worker

LEMMA InitTypes == Init => Types
BY NullTypes, BoundAssumption
DEF Init, Types, TypeOK, DecisionsArePermitted, Deciding, Op, Result, RequestPC, WorkerPC, Answer

\* Every variable of the service keeps its type, for any number of people,
\* cases, requests and failures, under both kinds of database lock.
THEOREM ServiceTypes == Spec => []TypeOK
<1>1. Types => TypeOK
  BY DEF Types
<1>. QED
  BY <1>1, InitTypes, TypesStep, PTL DEF Spec

-----------------------------------------------------------------------------
(* What a decision does to the row, whatever has happened to it since it   *)
(* was loaded: one of four things.                                         *)

Proposes(o, w, current) ==
    /\ o.kind = "sign_off" /\ o.decision = "ESCALATE"
    /\ w.status = current.status /\ w.state = current.state
    /\ w.pending.by = o.user
Closes(o, s, w, current) ==
    /\ o.kind = "sign_off" /\ o.decision # "ESCALATE"
    /\ w.status = "CLOSED" /\ w.pending = current.pending
    /\ w.state.advisory = s.state.advisory
    /\ w.state.signOff = [by |-> o.user, second |-> NoOne, decision |-> o.decision]
Confirms(o, s, w) ==
    /\ o.kind = "confirm"
    /\ s.pending.by \in Analysts /\ s.pending.by # o.user
    /\ w.status = "CLOSED" /\ w.pending = NoProposal
    /\ w.state.signOff = [by |-> s.pending.by, second |-> o.user, decision |-> "ESCALATE"]
Rejects(o, w, current) ==
    /\ o.kind = "reject"
    /\ w.status = current.status /\ w.state = current.state
    /\ w.pending = NoProposal

LEMMA DecisionEffect ==
  ASSUME NEW u \in Analysts, NEW c \in Cases, NEW o \in DecisionOps(u, c),
         NEW s \in Row, NEW acknowledged \in BOOLEAN, Permitted(o, acknowledged, s),
         Consistent(s), NEW current \in Row, NEW w, w = Written(current, s, Decided(o, s))
  PROVE  /\ w.job = current.job
         /\ Proposes(o, w, current) \/ Closes(o, s, w, current) \/ Confirms(o, s, w) \/ Rejects(o, w, current)
<1>. DEFINE d == Decided(o, s)
<1>1. d \in Row
  BY DecidedType
<1>2. /\ w.job = IF d.job = s.job THEN current.job ELSE d.job
      /\ w.status = IF d.status = s.status THEN current.status ELSE d.status
      /\ w.state = IF d.state = s.state THEN current.state ELSE d.state
      /\ w.pending = IF d.pending = s.pending THEN current.pending ELSE d.pending
  BY <1>1, WrittenColumns
<1>3. /\ o.user = u /\ o.kind \in {"sign_off", "confirm", "reject"}
      /\ o.kind = "sign_off" => o.decision \in Decision
  BY DEF DecisionOps
<1>4. u # NoOne
  BY PeopleAssumption DEF Users
<1>5. s.pending \in Proposal /\ s.state \in CaseState
  BY DEF Row
<1>6. CASE o.kind = "sign_off" /\ o.decision = "ESCALATE"
  <2>1. /\ d.job = s.job /\ d.status = s.status /\ d.state = s.state
        /\ d.pending.by = o.user
    BY <1>6 DEF Decided, ProposeRow, Row
  <2>2. s.pending.by = NoOne
    BY <1>6 DEF Permitted, SignOffPermitted
  <2>. QED
    BY <1>2, <1>3, <1>4, <1>6, <2>1, <2>2 DEF Proposes
<1>7. ASSUME NEW v \in SignOff, s.status = "HUMAN_REVIEW", d.job = s.job, d.status = "CLOSED",
             d.state = [s.state EXCEPT !.signOff = v]
      PROVE  w.job = current.job /\ w.status = "CLOSED" /\ w.state.signOff = v /\ w.state.advisory = s.state.advisory
  <2>1. s.state.signOff = NoSignOff
    BY <1>7 DEF Consistent
  <2>2. d.state.signOff = v /\ d.state.advisory = s.state.advisory
    BY <1>5, <1>7 DEF CaseState
  <2>3. d.state # s.state
    BY <2>1, <2>2, NullTypes
  <2>. QED
    BY <1>2, <1>7, <2>2, <2>3
<1>8. CASE o.kind = "sign_off" /\ o.decision # "ESCALATE"
  <2>. DEFINE v == [by |-> o.user, second |-> NoOne, decision |-> o.decision]
  <2>1. v \in SignOff
    BY <1>3, <1>8 DEF SignOff
  <2>2. s.status = "HUMAN_REVIEW"
    BY <1>8 DEF Permitted, SignOffPermitted
  <2>3. d.job = s.job /\ d.status = "CLOSED" /\ d.state = [s.state EXCEPT !.signOff = v] /\ d.pending = s.pending
    BY <1>8 DEF Decided, CloseRow, Closed, Row
  <2>4. w.job = current.job /\ w.status = "CLOSED" /\ w.state.signOff = v /\ w.state.advisory = s.state.advisory
    BY <1>7, <2>1, <2>2, <2>3
  <2>. QED
    BY <1>2, <1>8, <2>3, <2>4 DEF Closes
<1>9. CASE o.kind = "confirm"
  <2>. DEFINE v == [by |-> s.pending.by, second |-> o.user, decision |-> "ESCALATE"]
  <2>1. s.pending.by \in Analysts /\ s.pending.by # o.user
    BY <1>5, <1>9 DEF Permitted, ConfirmPermitted, SecondReviewer, DifferentPeople, Proposal
  <2>2. v \in SignOff
    BY <1>3, <2>1 DEF SignOff, Decision
  <2>3. s.status = "HUMAN_REVIEW"
    BY <1>9 DEF Permitted, ConfirmPermitted, MaySignOff
  <2>4. d.job = s.job /\ d.status = "CLOSED" /\ d.state = [s.state EXCEPT !.signOff = v] /\ d.pending = NoProposal
    BY <1>9 DEF Decided, ConfirmRow, Closed, Row
  <2>5. w.job = current.job /\ w.status = "CLOSED" /\ w.state.signOff = v
    BY <1>7, <2>2, <2>3, <2>4
  <2>6. d.pending # s.pending
    BY <2>1, <2>4, PeopleAssumption DEF NoProposal, Users
  <2>. QED
    BY <1>2, <1>9, <2>1, <2>4, <2>5, <2>6 DEF Confirms
<1>10. CASE o.kind = "reject"
  <2>1. d.job = s.job /\ d.status = s.status /\ d.state = s.state /\ d.pending = NoProposal
    BY <1>10 DEF Decided, RejectRow, Row
  <2>2. s.pending.by # NoOne
    BY <1>10 DEF Permitted, SecondReviewer
  <2>. QED
    BY <1>2, <1>10, <2>1, <2>2 DEF Rejects, NoProposal
<1>. QED
  BY <1>3, <1>6, <1>8, <1>9, <1>10

-----------------------------------------------------------------------------
(* Jobs and rows: what is decided is the stored result of a finished job,  *)
(* and no job is in two places.                                            *)

Jobs == RowsAreConsistent /\ JobsAreDistinct

\* What the two say of the requests, when the rows and the queue stay.
LEMMA RequestKeepsJobs ==
  ASSUME Types, Jobs, UNCHANGED <<row, queue, wpc, wcase>>, NEW r \in Requests,
         \A s \in Requests \ {r} : pc'[s] = pc[s] /\ op'[s] = op[s] /\ seen'[s] = seen[s],
         pc'[r] # "created", Consistent(seen'[r]),
         Deciding(r)' => row[op'[r].case].job = "done"
  PROVE  Jobs'
<1>1. RowsAreConsistent'
  BY DEF Jobs, RowsAreConsistent, Deciding
<1>2. \A s \in Requests, c \in Cases : Submitting(s, c)' => Submitting(s, c)
  BY DEF Submitting
<1>3. \A s \in Requests : pc'[s] = "created" => pc[s] = "created" /\ op'[s] = op[s] /\ op[s].case \in Cases
  BY DEF Types, TypeOK, Op
<1>4. JobsAreDistinct'
  BY <1>2, <1>3 DEF Jobs, JobsAreDistinct, Types, TypeOK
<1>. QED
  BY <1>1, <1>4 DEF Jobs

LEMMA EndKeepsJobs ==
  ASSUME Types, Jobs, UNCHANGED <<row, queue, wpc, wcase>>, NEW r \in Requests, NEW a, End(r, a)
  PROVE  Jobs'
<1>1. /\ \A s \in Requests \ {r} : pc'[s] = pc[s] /\ op'[s] = op[s] /\ seen'[s] = seen[s]
      /\ pc'[r] = "done" /\ seen'[r] = NoRow
  BY DEF End, Types, TypeOK
<1>2. Consistent(NoRow)
  BY DEF Consistent, NoRow, NewState
<1>. QED
  BY <1>1, <1>2, RequestKeepsJobs DEF Deciding

LEMMA LoadKeepsJobs ==
  ASSUME Types, Jobs, NEW r \in Requests, NEW o \in Op, Load(r, o),
         o.kind \in {"sign_off", "confirm", "reject"} =>
           \E acknowledged \in BOOLEAN : Permitted(o, acknowledged, row[o.case])
  PROVE  Jobs'
<1>1. /\ \A s \in Requests \ {r} : pc'[s] = pc[s] /\ op'[s] = op[s] /\ seen'[s] = seen[s]
      /\ pc'[r] = "loaded" /\ op'[r] = o /\ seen'[r] = row[o.case]
      /\ UNCHANGED <<row, queue, wpc, wcase>>
  BY DEF Load, Arrive, Goto, Types, TypeOK, dbVars, workerVars
<1>2. Consistent(row[o.case])
  BY DEF Jobs, RowsAreConsistent, Op
<1>3. ASSUME o.kind \in {"sign_off", "confirm", "reject"}
      PROVE  row[o.case].job = "done"
  <2>1. row[o.case].status = "HUMAN_REVIEW" \/ row[o.case].pending.by # NoOne
    BY <1>3 DEF Permitted, SignOffPermitted, ConfirmPermitted, SecondReviewer
  <2>. QED
    BY <1>2, <2>1 DEF Consistent, NoProposal
<1>. QED
  BY <1>1, <1>2, <1>3, RequestKeepsJobs DEF Deciding

\* A write of a consistent row keeps the rows consistent, if it does not
\* take a finished job back.
LEMMA RowWriteKeepsRows ==
  ASSUME Types, Jobs, NEW c \in Cases, NEW w \in Row, row' = [row EXCEPT ![c] = w],
         Consistent(w), row[c].job = "done" => w.job = "done",
         UNCHANGED <<queue, pc, op, seen>>
  PROVE  RowsAreConsistent'
<1>1. \A d \in Cases : row'[d] = IF d = c THEN w ELSE row[d]
  BY DEF Types, TypeOK
<1>2. \A r \in Requests : op[r].case \in Cases
  BY DEF Types, TypeOK, Op
<1>. QED
  BY <1>1, <1>2 DEF Jobs, RowsAreConsistent, Deciding

LEMMA JobsStep == Types /\ Types' /\ Jobs /\ [Next]_vars => Jobs'
<1>. SUFFICES ASSUME Types, Types', Jobs, [Next]_vars PROVE Jobs'
  OBVIOUS
<1>. USE DEF dbVars, workerVars, reqVars, boundVars
<1>1. /\ row \in [Cases -> Row] /\ queue \in Seq(Cases) /\ wcase \in Cases
      /\ pc \in [Requests -> RequestPC] /\ op \in [Requests -> Op] /\ seen \in [Requests -> Row]
      /\ \A r \in Requests : op[r].case \in Cases
      /\ DecisionsArePermitted
  BY DEF Types, TypeOK, Op
<1>2. RowsAreConsistent /\ JobsAreDistinct
  BY DEF Jobs
<1>3. ASSUME NEW r \in Requests, Refuse(r)
      PROVE  Jobs'
  BY <1>3, EndKeepsJobs DEF Refuse
<1>4. ASSUME NEW r \in Requests, NEW u \in Analysts, NEW c \in Cases, CreateCheck(r, u, c)
      PROVE  Jobs'
  <2>1. CASE Arrive(r, CreateOp(u, c)) /\ Goto(r, "checked")
             /\ UNCHANGED <<dbVars, engine, queue, workerVars, seen, base, shown, boundVars>>
    <3>1. /\ \A s \in Requests \ {r} : pc'[s] = pc[s] /\ op'[s] = op[s] /\ seen'[s] = seen[s]
          /\ pc'[r] = "checked" /\ seen'[r] = seen[r]
      BY <1>1, <2>1 DEF Arrive, Goto
    <3>. QED
      BY <1>2, <2>1, <3>1, RequestKeepsJobs DEF RowsAreConsistent, Deciding
  <2>. QED
    BY <1>3, <1>4, <2>1 DEF CreateCheck
<1>5. ASSUME NEW r \in Requests, NEW k \in {"view", "audit"}, NEW u \in Users, NEW c \in Cases,
             ReadCase(r, k, u, c)
      PROVE  Jobs'
  <2>1. ReadOp(k, u, c) \in Op /\ ReadOp(k, u, c).kind = k
    BY NullTypes DEF ReadOp, Op, Kind
  <2>. QED
    BY <1>3, <1>5, <2>1, LoadKeepsJobs DEF ReadCase
<1>6. ASSUME NEW r \in Requests, NEW u \in Analysts, NEW c \in Cases, Decide(r, u, c)
      PROVE  Jobs'
  <2>1. ASSUME NEW o \in DecisionOps(u, c), NEW acknowledged \in BOOLEAN,
               Permitted(o, acknowledged, row[c]), Load(r, o)
        PROVE  Jobs'
    <3>1. o \in Op /\ o.user = u /\ o.case = c
      BY DEF DecisionOps, Op, Kind, Users, Advisory
    <3>. QED
      BY <2>1, <3>1, LoadKeepsJobs
  <2>. QED
    BY <1>3, <1>6, <2>1 DEF Decide
<1>7. ASSUME NEW r \in Requests, CreateInsert(r)
      PROVE  Jobs'
  <2>. DEFINE c == op[r].case
              w == [NoRow EXCEPT !.job = "queued"]
  <2>1. CASE End(r, "duplicate") /\ UNCHANGED dbVars
    BY <1>7, <2>1, EndKeepsJobs DEF CreateInsert
  <2>2. CASE KeyFree(c) /\ row' = [row EXCEPT ![c] = w] /\ Goto(r, "created")
             /\ UNCHANGED <<op, seen, base>>
    <3>1. row[c].job = "none" /\ c \in Cases /\ pc[r] = "checked"
      BY <1>1, <1>7, <2>2 DEF KeyFree, Exists, CreateInsert
    <3>2. Consistent(w) /\ w.job = "queued"
      BY DEF Consistent, NoRow, NewState
    <3>3. /\ \A d \in Cases : row'[d] = IF d = c THEN w ELSE row[d]
          /\ \A s \in Requests : pc'[s] = IF s = r THEN "created" ELSE pc[s]
          /\ UNCHANGED <<op, seen, queue, wpc, wcase>>
      BY <1>1, <1>7, <2>2 DEF Goto, CreateInsert
    <3>4. RowsAreConsistent'
      BY <1>1, <1>2, <3>1, <3>2, <3>3 DEF RowsAreConsistent, Deciding
    <3>5. \A i \in DOMAIN queue : queue[i] \in Cases /\ queue[i] # c
      BY <1>1, <1>2, <3>1 DEF JobsAreDistinct
    <3>6. \A s \in Requests : pc[s] = "created" => op[s].case # c
      BY <1>2, <3>1 DEF JobsAreDistinct
    <3>7. wpc # "idle" => wcase # c
      BY <1>2, <3>1 DEF JobsAreDistinct
    <3>8. ASSUME NEW s \in Requests, pc'[s] = "created"
          PROVE  /\ row'[op[s].case].job = "queued"
                 /\ \A i \in DOMAIN queue : queue[i] # op[s].case
                 /\ \A t \in Requests : Submitting(t, op[s].case)' => t = s
      <4>1. CASE s = r
        BY <3>1, <3>2, <3>3, <3>5, <3>6, <4>1, ZenonT(60) DEF Submitting
      <4>2. CASE s # r
        <5>1. pc[s] = "created" /\ op[s].case # c /\ op[s].case \in Cases
          BY <1>1, <3>3, <3>6, <3>8, <4>2
        <5>. QED
          BY <1>2, <3>3, <4>2, <5>1 DEF JobsAreDistinct, Submitting
      <4>. QED
        BY <4>1, <4>2
    <3>9. \A i \in DOMAIN queue : row'[queue[i]].job = "queued"
      BY <1>1, <1>2, <3>3, <3>5 DEF JobsAreDistinct
    <3>10. ASSUME wpc # "idle"
           PROVE  /\ row'[wcase] = row[wcase]
                  /\ \A s \in Requests : ~Submitting(s, wcase)'
      BY <1>1, <1>2, <3>3, <3>7, <3>10 DEF JobsAreDistinct, Submitting
    <3>11. JobsAreDistinct'
      BY <1>2, <3>3, <3>8, <3>9, <3>10 DEF JobsAreDistinct
    <3>. QED
      BY <3>4, <3>11 DEF Jobs
  <2>. QED
    BY <1>7, <2>1, <2>2 DEF CreateInsert
<1>8. ASSUME NEW r \in Requests, CreateSubmit(r)
      PROVE  Jobs'
  <2>. DEFINE c == op[r].case
  <2>1. /\ c \in Cases /\ pc[r] = "created" /\ queue' = Append(queue, c)
        /\ UNCHANGED <<row, wpc, wcase>>
        /\ \A s \in Requests : IF s = r THEN pc'[s] = "done" /\ seen'[s] = NoRow
                               ELSE pc'[s] = pc[s] /\ op'[s] = op[s] /\ seen'[s] = seen[s]
    BY <1>1, <1>8 DEF CreateSubmit, End
  <2>2. RowsAreConsistent'
    <3>1. Consistent(NoRow)
      BY DEF Consistent, NoRow, NewState
    <3>. QED
      BY <1>2, <2>1, <3>1 DEF RowsAreConsistent, Deciding
  <2>3. /\ DOMAIN queue' = DOMAIN queue \cup {Len(queue) + 1}
        /\ \A i \in DOMAIN queue : queue'[i] = queue[i]
        /\ queue'[Len(queue) + 1] = c /\ Len(queue) + 1 \notin DOMAIN queue
    BY <1>1, <2>1
  <2>4. /\ row[c].job = "queued" /\ (\A i \in DOMAIN queue : queue[i] # c)
        /\ (\A s \in Requests : pc[s] = "created" /\ op[s].case = c => s = r)
        /\ (wpc # "idle" => wcase # c)
    BY <1>2, <2>1 DEF JobsAreDistinct, Submitting
  <2>5. JobsAreDistinct'
    BY <1>2, <2>1, <2>3, <2>4 DEF JobsAreDistinct, Submitting
  <2>. QED
    BY <2>2, <2>5 DEF Jobs
<1>9. ASSUME NEW r \in Requests, ReadLast(r) \/ FlushDecision(r)
      PROVE  Jobs'
  <2>1. /\ \A s \in Requests \ {r} : pc'[s] = pc[s] /\ op'[s] = op[s] /\ seen'[s] = seen[s]
        /\ pc[r] = "loaded" /\ pc'[r] \in {"read", "flushed"}
        /\ UNCHANGED <<op, seen, row, queue, wpc, wcase>>
    BY <1>1, <1>9 DEF ReadLast, FlushDecision, Goto
  <2>2. Consistent(seen'[r]) /\ (Deciding(r)' => row[op'[r].case].job = "done")
    BY <1>2, <2>1 DEF RowsAreConsistent, Deciding
  <2>. QED
    BY <2>1, <2>2, RequestKeepsJobs
<1>10. ASSUME NEW r \in Requests, CommitRead(r) \/ RequestFault(r)
       PROVE  Jobs'
  BY <1>10, EndKeepsJobs DEF CommitRead, RequestFault
<1>11. ASSUME NEW r \in Requests, CommitDecision(r)
       PROVE  Jobs'
  <2>. DEFINE c == op[r].case
              w == Written(row[c], seen[r], Decided(op[r], seen[r]))
  <2>1. CASE End(r, "conflict") /\ UNCHANGED <<dbVars, shown>>
    BY <1>11, <2>1, EndKeepsJobs DEF CommitDecision
  <2>2. CASE row' = [row EXCEPT ![c] = w] /\ End(r, "ok")
    <3>1. /\ Deciding(r) /\ op[r] \in DecisionOps(op[r].user, c) /\ op[r].user \in Analysts
          /\ \E acknowledged \in BOOLEAN : Permitted(op[r], acknowledged, seen[r])
      BY <1>1, <1>11 DEF CommitDecision, DecisionsArePermitted
    <3>2. /\ c \in Cases /\ seen[r] \in Row /\ row[c] \in Row
          /\ Consistent(seen[r]) /\ Consistent(row[c]) /\ row[c].job = "done"
      BY <1>1, <1>2, <3>1 DEF RowsAreConsistent
    <3>3. /\ w.job = row[c].job
          /\ \/ Proposes(op[r], w, row[c]) \/ Closes(op[r], seen[r], w, row[c])
             \/ Confirms(op[r], seen[r], w) \/ Rejects(op[r], w, row[c])
      BY <3>1, <3>2, DecisionEffect
    <3>4. Consistent(w)
      <4>1. \A d : \A u \in Analysts : [by |-> u, second |-> NoOne, decision |-> d] # NoSignOff
        BY PeopleAssumption DEF NoSignOff, Users
      <4>2. \A u, v \in Analysts : [by |-> u, second |-> v, decision |-> "ESCALATE"] # NoSignOff
        BY PeopleAssumption DEF NoSignOff, Users
      <4>. QED
        BY <3>1, <3>2, <3>3, <4>1, <4>2 DEF Consistent, Proposes, Closes, Confirms, Rejects
    <3>5. /\ \A d \in Cases : row'[d] = IF d = c THEN w ELSE row[d]
          /\ \A s \in Requests : IF s = r THEN pc'[s] = "done" /\ seen'[s] = NoRow
                                 ELSE pc'[s] = pc[s] /\ op'[s] = op[s] /\ seen'[s] = seen[s]
          /\ UNCHANGED <<queue, wpc, wcase>>
      BY <1>1, <1>11, <2>2 DEF End, CommitDecision
    <3>6. \A d \in Cases : row'[d].job = row[d].job /\ Consistent(row'[d])
      BY <1>2, <3>3, <3>4, <3>5 DEF RowsAreConsistent
    <3>7. RowsAreConsistent'
      <4>1. Consistent(NoRow)
        BY DEF Consistent, NoRow, NewState
      <4>. QED
        BY <1>1, <1>2, <3>5, <3>6, <4>1 DEF RowsAreConsistent, Deciding
    <3>8. /\ \A i \in DOMAIN queue : queue[i] \in Cases
          /\ \A s \in Requests : pc'[s] = "created" => pc[s] = "created" /\ op'[s] = op[s]
          /\ \A s \in Requests, d \in Cases : Submitting(s, d)' => Submitting(s, d)
      BY <1>1, <3>5 DEF Submitting
    <3>9. JobsAreDistinct'
      BY <1>1, <1>2, <3>5, <3>6, <3>8 DEF JobsAreDistinct
    <3>. QED
      BY <3>7, <3>9 DEF Jobs
  <2>. QED
    BY <1>11, <2>1, <2>2 DEF CommitDecision
<1>12. CASE StartJob
  <2>1. /\ queue' = Tail(queue) /\ wpc = "idle" /\ wpc' = "starting" /\ wcase' = queue[1]
        /\ UNCHANGED <<row, pc, op, seen>> /\ 1 \in DOMAIN queue
    BY <1>1, <1>12 DEF StartJob
  <2>2. \A i \in DOMAIN queue' : i + 1 \in DOMAIN queue /\ queue'[i] = queue[i+1] /\ i + 1 # 1
    BY <1>1, <2>1
  <2>3. RowsAreConsistent'
    BY <1>2, <2>1 DEF RowsAreConsistent, Deciding
  <2>4. \A i, j \in DOMAIN queue' : queue'[i] = queue'[j] => i = j
    <3>. SUFFICES ASSUME NEW i \in DOMAIN queue', NEW j \in DOMAIN queue', queue'[i] = queue'[j]
                  PROVE  i = j
      OBVIOUS
    <3>1. i + 1 = j + 1
      BY <1>2, <2>2 DEF JobsAreDistinct
    <3>2. i \in Nat /\ j \in Nat
      BY <1>1, <2>1
    <3>. QED
      BY <3>1, <3>2
  <2>5. /\ \A i \in DOMAIN queue' : queue'[i] # wcase' /\ row[queue'[i]].job = "queued"
        /\ row[wcase'].job = "queued"
        /\ \A r \in Requests : ~Submitting(r, wcase')
        /\ \A r \in Requests : pc[r] = "created" => \A i \in DOMAIN queue' : queue'[i] # op[r].case
    BY <1>2, <2>1, <2>2 DEF JobsAreDistinct, Submitting
  <2>6. JobsAreDistinct'
    BY <1>2, <2>1, <2>4, <2>5 DEF JobsAreDistinct, Submitting
  <2>. QED
    BY <2>3, <2>6 DEF Jobs
\* The worker writes its row: the case is no one else's.
<1>13. ASSUME wpc # "idle", NEW w \in Row, Consistent(w), row' = [row EXCEPT ![wcase] = w],
              UNCHANGED <<queue, pc, op, seen>>,
              \/ wpc' = "idle"
              \/ wpc' = "analysing" /\ wcase' = wcase /\ w.job = "running"
       PROVE  Jobs'
  <2>1. \A d \in Cases : row'[d] = IF d = wcase THEN w ELSE row[d]
    BY <1>1, <1>13
  <2>2. /\ row[wcase].job \in {"queued", "running"}
        /\ \A r \in Requests : ~Submitting(r, wcase)
        /\ \A i \in DOMAIN queue : queue[i] \in Cases /\ queue[i] # wcase
    BY <1>1, <1>2, <1>13 DEF JobsAreDistinct
  <2>3. RowsAreConsistent'
    BY <1>13, <2>2, RowWriteKeepsRows, <1>1
  <2>4. /\ \A i \in DOMAIN queue : row'[queue[i]].job = "queued"
        /\ \A r \in Requests : pc[r] = "created" => op[r].case # wcase /\ row'[op[r].case].job = "queued"
    BY <1>1, <1>2, <2>1, <2>2 DEF JobsAreDistinct, Submitting
  <2>5. wpc' # "idle" => wpc' = "analysing" /\ wcase' = wcase /\ row'[wcase].job = "running"
    BY <1>1, <1>13, <2>1
  <2>6. JobsAreDistinct'
    BY <1>2, <1>13, <2>2, <2>4, <2>5 DEF JobsAreDistinct, Submitting
  <2>. QED
    BY <2>3, <2>6 DEF Jobs
<1>14. ASSUME UNCHANGED <<row, pc, op, seen>>, queue' = queue \/ queue' = <<>>,
              \/ wpc' = "idle"
              \/ wpc # "idle" /\ wpc' # "starting" /\ wcase' = wcase
              \/ UNCHANGED <<wpc, wcase>>
       PROVE  Jobs'
  <2>1. RowsAreConsistent'
    BY <1>2, <1>14 DEF RowsAreConsistent, Deciding
  <2>2. /\ \A i \in DOMAIN queue' : i \in DOMAIN queue /\ queue'[i] = queue[i]
        /\ \A r \in Requests, c \in Cases : Submitting(r, c)' = Submitting(r, c)
    BY <1>1, <1>14 DEF Submitting
  <2>3. JobsAreDistinct'
    BY <1>1, <1>2, <1>14, <2>2 DEF JobsAreDistinct
  <2>. QED
    BY <2>1, <2>3 DEF Jobs
<1>15. row[wcase] \in Row /\ Consistent(row[wcase])
  BY <1>1, <1>2 DEF RowsAreConsistent
<1>16. CASE SaveRunning
  <2>. DEFINE w == RunningRow(row[wcase])
  <2>1. wpc # "idle" /\ row[wcase].job = "queued"
    BY <1>2, <1>16 DEF SaveRunning, JobsAreDistinct
  <2>2. /\ w \in Row /\ w.job = "running" /\ w.status = "CASE_CREATED" /\ w.state = NewState
        /\ w.pending = row[wcase].pending
    <3>1. \E result : result \in Result
      BY NullTypes
    <3>. QED
      BY <1>15, <3>1, JobRowsType DEF RunningRow, Row
  <2>3. Consistent(w)
    BY <1>15, <2>1, <2>2 DEF Consistent, NewState
  <2>. QED
    BY <1>13, <1>16, <2>1, <2>2, <2>3 DEF SaveRunning
<1>17. CASE FlushResult
  BY <1>14, <1>17 DEF FlushResult
<1>18. CASE CommitResult
  <2>1. CASE row' = [row EXCEPT ![wcase] = DoneRow(@, wresult)] /\ Idle
    <3>. DEFINE w == DoneRow(row[wcase], wresult)
    <3>1. w \in Row
      BY <1>15, JobRowsType DEF Types, TypeOK
    <3>2. /\ w.job = "done" /\ w.status = "HUMAN_REVIEW" /\ w.state.signOff = NoSignOff
      <4>1. \A n : [row[wcase] EXCEPT !.job = "done", !.status = "HUMAN_REVIEW",
                                      !.state = n, !.details = wresult.details].state = n
        BY <1>15 DEF Row
      <4>2. w.state = [NewState EXCEPT !.advisory = wresult.advisory]
        BY <4>1 DEF DoneRow
      <4>3. w.job = "done" /\ w.status = "HUMAN_REVIEW"
        BY <1>15 DEF DoneRow, Row
      <4>. QED
        BY <4>2, <4>3 DEF NewState
    <3>3. Consistent(w)
      BY <3>2 DEF Consistent
    <3>. QED
      BY <1>13, <1>18, <2>1, <3>1, <3>3 DEF CommitResult, Idle
  <2>2. CASE wpc' = "failing" /\ UNCHANGED <<dbVars, wcase, wbase, wresult>>
    BY <1>14, <1>18, <2>2 DEF CommitResult
  <2>. QED
    BY <1>18, <2>1, <2>2 DEF CommitResult
<1>19. CASE MarkFailed
  <2>. DEFINE w == FailedRow(row[wcase])
  <2>1. wpc # "idle" /\ row[wcase].job \in {"queued", "running"}
    BY <1>2, <1>19 DEF MarkFailed, JobsAreDistinct
  <2>2. /\ w \in Row /\ w.job = "failed" /\ w.status = row[wcase].status
        /\ w.state = row[wcase].state /\ w.pending = row[wcase].pending
    <3>1. \E result : result \in Result
      BY NullTypes
    <3>. QED
      BY <1>15, <3>1, JobRowsType DEF FailedRow, Row
  <2>3. Consistent(w)
    BY <1>15, <2>1, <2>2 DEF Consistent
  <2>. QED
    BY <1>13, <1>19, <2>1, <2>2, <2>3 DEF MarkFailed, Idle
<1>20. CASE JobFault
  BY <1>14, <1>20 DEF JobFault, Idle
<1>21. CASE Stop \/ Restart \/ EngineLoaded \/ UNCHANGED vars
  BY <1>14, <1>21 DEF Stop, Restart, EngineLoaded, vars
<1>22. CASE Crash
  <2>1. /\ \A r \in Requests : pc'[r] \in {"idle", "done"} /\ seen'[r] = NoRow
        /\ row' = row /\ queue' = <<>> /\ wpc' = "idle"
    BY <1>1, <1>22 DEF Crash, Idle, RequestPC
  <2>2. Consistent(NoRow)
    BY DEF Consistent, NoRow, NewState
  <2>3. RowsAreConsistent'
    BY <1>2, <2>1, <2>2 DEF RowsAreConsistent, Deciding
  <2>4. JobsAreDistinct'
    BY <2>1 DEF JobsAreDistinct
  <2>. QED
    BY <2>3, <2>4 DEF Jobs
<1>23. ASSUME NEW r \in Requests, Arrives(r) \/ Proceeds(r) \/ RequestFault(r)
       PROVE  Jobs'
  BY <1>4, <1>5, <1>6, <1>7, <1>8, <1>9, <1>10, <1>11, <1>23 DEF Arrives, Proceeds
<1>. QED
  BY <1>12, <1>16, <1>17, <1>18, <1>19, <1>20, <1>21, <1>22, <1>23 DEF Next, Worker

LEMMA InitJobs == Init => Jobs
BY DEF Init, Jobs, RowsAreConsistent, JobsAreDistinct, Consistent, NoRow, NewState, Deciding, Submitting

LEMMA TypesAndJobs == Spec => [](Types /\ Jobs)
<1>1. Types /\ Jobs /\ [Next]_vars => Types' /\ Jobs'
  BY TypesStep, JobsStep
<1>. QED
  BY <1>1, InitTypes, InitJobs, PTL DEF Spec

\* People only ever decide about an analysis that is finished and stored,
\* so the job's last save, which does not look, never writes over a decision.
THEOREM DecisionsFollowAnalyses == Spec => []DecisionFollowsAnalysis
<1>1. Types /\ Jobs => DecisionFollowsAnalysis
  BY DEF Types, TypeOK, Jobs, RowsAreConsistent, JobsAreDistinct, Consistent,
         DecisionFollowsAnalysis, NoProposal, NewState
<1>. QED
  BY <1>1, TypesAndJobs, PTL

-----------------------------------------------------------------------------
(* What a step does to the rows.                                           *)

Opened(c) ==
    /\ row[c].job = "none"
    /\ row'[c] = [NoRow EXCEPT !.job = "queued"]
Worked(c) ==
    /\ row[c].job \in {"queued", "running"}
    /\ \/ row[c].job = "queued" /\ row'[c] = RunningRow(row[c])
       \/ \E result \in Result : row'[c] = DoneRow(row[c], result)
       \/ row'[c] = FailedRow(row[c])
DecidedBy(r, c) ==
    /\ Deciding(r) /\ op[r].case = c /\ op[r].user \in Analysts
    /\ op[r] \in DecisionOps(op[r].user, c)
    /\ row[c].job = "done" /\ row'[c].job = "done"
    /\ \/ Proposes(op[r], row'[c], row[c]) \/ Closes(op[r], seen[r], row'[c], row[c])
       \/ Confirms(op[r], seen[r], row'[c]) \/ Rejects(op[r], row'[c], row[c])
    /\ trail'[c] = trail[c] \o Numbered(DecisionEvents(op[r], seen[r]), Len(trail[c]))

OnlyRow(c) == \A d \in Cases \ {c} : row'[d] = row[d]

\* A decision that is committed leaves its row and its events, or nothing.
LEMMA DecisionStep ==
  ASSUME Types, Jobs, NEW r \in Requests, CommitDecision(r)
  PROVE  \/ UNCHANGED dbVars
         \/ /\ OnlyRow(op[r].case) /\ DecidedBy(r, op[r].case)
            /\ \A d \in Cases \ {op[r].case} : trail'[d] = trail[d]
<1>. DEFINE c == op[r].case
            w == Written(row[c], seen[r], Decided(op[r], seen[r]))
<1>1. /\ row \in [Cases -> Row] /\ trail \in [Cases -> Seq(AuditRow)]
      /\ op[r].case \in Cases /\ seen[r] \in Row
  BY DEF Types, TypeOK, Op
<1>2. CASE /\ SeqFree(c, base[r]) /\ row' = [row EXCEPT ![c] = w]
           /\ Append_events(c, DecisionEvents(op[r], seen[r]), base[r])
  <2>1. row'[c] = w /\ OnlyRow(c)
    BY <1>1, <1>2 DEF OnlyRow
  <2>2. /\ trail'[c] = trail[c] \o Numbered(DecisionEvents(op[r], seen[r]), Len(trail[c]))
        /\ \A d \in Cases \ {op[r].case} : trail'[d] = trail[d]
    BY <1>1, <1>2 DEF SeqFree, Append_events
  <2>3. /\ Deciding(r) /\ op[r] \in DecisionOps(op[r].user, c) /\ op[r].user \in Analysts
        /\ \E acknowledged \in BOOLEAN : Permitted(op[r], acknowledged, seen[r])
    BY DEF CommitDecision, Types, DecisionsArePermitted
  <2>4. Consistent(seen[r]) /\ row[c] \in Row /\ row[c].job = "done"
    BY <1>1, <2>3 DEF Jobs, RowsAreConsistent
  <2>5. /\ w.job = row[c].job
        /\ \/ Proposes(op[r], w, row[c]) \/ Closes(op[r], seen[r], w, row[c])
           \/ Confirms(op[r], seen[r], w) \/ Rejects(op[r], w, row[c])
    BY <1>1, <2>3, <2>4, DecisionEffect
  <2>. QED
    BY <2>1, <2>2, <2>3, <2>4, <2>5 DEF DecidedBy
<1>. QED
  BY <1>2 DEF CommitDecision

LEMMA StepOfOneCase ==
  Types /\ Jobs /\ [Next]_vars =>
    \/ row' = row
    \/ \E c \in Cases : OnlyRow(c) /\ (Opened(c) \/ Worked(c) \/ \E r \in Requests : DecidedBy(r, c))
<1>. SUFFICES ASSUME Types, Jobs, [Next]_vars, row' # row
              PROVE  \E c \in Cases : /\ OnlyRow(c)
                                      /\ Opened(c) \/ Worked(c) \/ \E r \in Requests : DecidedBy(r, c)
  OBVIOUS
<1>. USE DEF dbVars
<1>1. /\ row \in [Cases -> Row] /\ wcase \in Cases /\ wresult \in Result
      /\ trail \in [Cases -> Seq(AuditRow)]
      /\ \A r \in Requests : op[r].case \in Cases /\ seen[r] \in Row
  BY DEF Types, TypeOK, Op
<1>2. ASSUME NEW r \in Requests, CreateInsert(r)
      PROVE  OnlyRow(op[r].case) /\ Opened(op[r].case)
  BY <1>1, <1>2 DEF CreateInsert, KeyFree, Exists, OnlyRow, Opened
<1>3. ASSUME NEW r \in Requests, CommitDecision(r)
      PROVE  OnlyRow(op[r].case) /\ DecidedBy(r, op[r].case)
  BY <1>3, DecisionStep
<1>4. CASE SaveRunning \/ CommitResult \/ MarkFailed
  <2>1. /\ row[wcase].job \in {"queued", "running"}
        /\ SaveRunning => row[wcase].job = "queued"
    BY <1>4 DEF SaveRunning, CommitResult, MarkFailed, Jobs, JobsAreDistinct
  <2>2. OnlyRow(wcase) /\ Worked(wcase)
    BY <1>1, <1>4, <2>1 DEF SaveRunning, CommitResult, MarkFailed, OnlyRow, Worked
  <2>. QED
    BY <1>1, <2>2
<1>5. ASSUME NEW r \in Requests, Arrives(r) \/ RequestFault(r)
      PROVE  FALSE
  BY <1>5 DEF Arrives, CreateCheck, ReadCase, Decide, Load, Refuse, RequestFault
<1>6. ASSUME NEW r \in Requests, Proceeds(r)
      PROVE  CreateInsert(r) \/ CommitDecision(r)
  BY <1>6 DEF Proceeds, CreateSubmit, ReadLast, CommitRead, FlushDecision
<1>7. ~(StartJob \/ FlushResult \/ JobFault \/ Crash \/ Stop \/ Restart \/ EngineLoaded \/ UNCHANGED vars)
  BY DEF StartJob, FlushResult, JobFault, Crash, Stop, Restart, EngineLoaded, vars
<1>. QED
  BY <1>1, <1>2, <1>3, <1>4, <1>5, <1>6, <1>7 DEF Next, Worker

-----------------------------------------------------------------------------
(* A job goes queued -> running -> done or failed, and a closed case stays *)
(* closed.                                                                 *)

LEMMA RowConsistent ==
  ASSUME Types, Jobs, NEW c \in Cases
  PROVE  row[c] \in Row /\ Consistent(row[c])
BY DEF Types, TypeOK, Jobs, RowsAreConsistent

LEMMA JobRowsJob ==
  ASSUME NEW s \in Row, NEW result \in Result
  PROVE  /\ RunningRow(s).job = "running" /\ DoneRow(s, result).job = "done" /\ FailedRow(s).job = "failed"
         /\ [NoRow EXCEPT !.job = "queued"].job = "queued"
<1>1. ASSUME NEW n, NEW d
      PROVE  [s EXCEPT !.job = "done", !.status = "HUMAN_REVIEW", !.state = n, !.details = d].job = "done"
  BY DEF Row
<1>. QED
  BY <1>1 DEF RunningRow, DoneRow, FailedRow, Row, NoRow

\* A job never goes back, whatever requests, faults, crashes and restarts do.
THEOREM JobsOnlyAdvance == Spec => JobOnlyAdvances
<1>1. ASSUME Types, Jobs, [Next]_vars, NEW c \in Cases, row'[c].job # row[c].job
      PROVE  Rank(row[c].job) < Rank(row'[c].job)
  <2>1. Opened(c) \/ Worked(c)
    <3>1. PICK d \in Cases : OnlyRow(d) /\ (Opened(d) \/ Worked(d) \/ \E r \in Requests : DecidedBy(r, d))
      BY <1>1, StepOfOneCase
    <3>. QED
      BY <1>1, <3>1 DEF OnlyRow, DecidedBy
  <2>2. CASE Opened(c)
    BY <2>2, JobRowsJob DEF Opened, Rank, NoRow
  <2>3. CASE Worked(c)
    <3>1. row[c] \in Row
      BY <1>1, RowConsistent
    <3>2. row'[c].job \in {"running", "done", "failed"} /\ (row'[c].job = "running" => row[c].job = "queued")
      <4>1. \E result : result \in Result
        BY NullTypes
      <4>. QED
        BY <2>3, <3>1, <4>1, JobRowsJob DEF Worked
    <3>. QED
      BY <2>3, <3>2 DEF Worked, Rank
  <2>. QED
    BY <2>1, <2>2, <2>3
<1>2. Types /\ Jobs /\ [Next]_vars =>
        [\A c \in Cases : row'[c].job # row[c].job => Rank(row[c].job) < Rank(row'[c].job)]_vars
  BY <1>1
<1>. QED
  BY <1>2, TypesAndJobs, PTL DEF Spec, JobOnlyAdvances

\* No step reopens a closed case or takes its decision away.
THEOREM ClosedStaysClosed == Spec => ClosedIsFinal
<1>1. ASSUME Types, Jobs, Types', Jobs', [Next]_vars, NEW c \in Cases, row[c].status = "CLOSED"
      PROVE  row'[c].status = "CLOSED" /\ row'[c].state.signOff # NoSignOff
  <2>1. Consistent(row[c]) /\ Consistent(row[c])'
    BY <1>1, RowConsistent DEF Types, TypeOK, Jobs, RowsAreConsistent
  <2>2. row[c].job = "done"
    BY <1>1, <2>1 DEF Consistent
  <2>3. row'[c] = row[c] \/ \E r \in Requests : DecidedBy(r, c)
    <3>1. CASE row' = row
      BY <3>1
    <3>2. ASSUME NEW d \in Cases, OnlyRow(d),
                 Opened(d) \/ Worked(d) \/ \E r \in Requests : DecidedBy(r, d)
          PROVE  row'[c] = row[c] \/ \E r \in Requests : DecidedBy(r, c)
      BY <2>2, <3>2 DEF OnlyRow, Opened, Worked
    <3>. QED
      BY <1>1, <3>1, <3>2, StepOfOneCase
  <2>4. row'[c].status = "CLOSED"
    BY <1>1, <2>3 DEF DecidedBy, Proposes, Closes, Confirms, Rejects
  <2>. QED
    BY <2>1, <2>4 DEF Consistent
<1>2. Types /\ Jobs /\ Types' /\ Jobs' /\ [Next]_vars =>
        [\A c \in Cases : row[c].status = "CLOSED" =>
            row'[c].status = "CLOSED" /\ row'[c].state.signOff # NoSignOff]_vars
  BY <1>1
<1>. QED
  BY <1>2, TypesAndJobs, PTL DEF Spec, ClosedIsFinal

-----------------------------------------------------------------------------
(* Trails only grow, at the end, by events numbered on from the last.      *)

Grows(c) == \E events \in Seq(Event) : trail'[c] = trail[c] \o Numbered(events, Len(trail[c]))

LEMMA TrailWriters ==
  ASSUME [Next]_vars
  PROVE  trail' = trail \/ CommitResult
         \/ \E r \in Requests : CreateInsert(r) \/ CommitRead(r) \/ CommitDecision(r)
<1>. USE DEF dbVars
<1>1. ASSUME NEW r \in Requests, Arrives(r) \/ Proceeds(r) \/ RequestFault(r)
      PROVE  trail' = trail \/ CreateInsert(r) \/ CommitRead(r) \/ CommitDecision(r)
  BY <1>1 DEF Arrives, CreateCheck, ReadCase, Decide, Load, Refuse, RequestFault,
              Proceeds, CreateSubmit, ReadLast, FlushDecision
<1>. QED
  BY <1>1 DEF Next, Worker, StartJob, SaveRunning, FlushResult, MarkFailed, JobFault, Crash, Stop,
              Restart, EngineLoaded, vars

LEMMA TrailStep ==
  ASSUME Types, TrailNeedsRow, [Next]_vars, NEW c \in Cases
  PROVE  trail'[c] = trail[c] \/ Grows(c)
<1>. USE DEF dbVars
<1>1. /\ row \in [Cases -> Row] /\ wcase \in Cases /\ trail \in [Cases -> Seq(AuditRow)]
      /\ \A r \in Requests : op[r] \in Op /\ op[r].case \in Cases /\ seen[r] \in Row
  BY DEF Types, TypeOK, Op
<1>2. ASSUME NEW d \in Cases, NEW events \in Seq(Event), NEW last, SeqFree(d, last),
             Append_events(d, events, last)
      PROVE  trail'[c] = trail[c] \/ Grows(c)
  BY <1>1, <1>2 DEF SeqFree, Append_events, Grows
<1>3. ASSUME NEW r \in Requests, CreateInsert(r)
      PROVE  trail'[c] = trail[c] \/ Grows(c)
  <2>. DEFINE d == op[r].case
              events == <<Ev(NoOne, "create_case"), Ev(op[r].user, "request_case")>>
  <2>1. CASE KeyFree(d) /\ Append_events(d, events, 0)
    <3>1. events \in Seq(Event)
      BY <1>1 DEF Op, Ev, Event, Action, Advisory
    <3>2. trail[d] = <<>>
      BY <1>1, <2>1 DEF KeyFree, TrailNeedsRow
    <3>3. SeqFree(d, 0)
      BY <3>2 DEF SeqFree
    <3>. QED
      BY <1>1, <1>2, <2>1, <3>1, <3>3
  <2>. QED
    BY <1>3, <2>1 DEF CreateInsert
<1>4. ASSUME NEW r \in Requests, CommitRead(r)
      PROVE  trail'[c] = trail[c] \/ Grows(c)
  BY <1>1, <1>2, <1>4, EventsType DEF CommitRead
<1>5. ASSUME NEW r \in Requests, CommitDecision(r)
      PROVE  trail'[c] = trail[c] \/ Grows(c)
  <2>1. op[r].kind \in {"sign_off", "confirm", "reject"}
    BY <1>5 DEF CommitDecision, Types, DecisionsArePermitted, Deciding
  <2>. QED
    BY <1>1, <1>2, <1>5, <2>1, EventsType DEF CommitDecision
<1>6. CASE CommitResult
  <2>1. <<Ev(NoOne, "analysis")>> \in Seq(Event)
    BY DEF Ev, Event, Action, Advisory
  <2>. QED
    BY <1>1, <1>2, <1>6, <2>1 DEF CommitResult
<1>7. trail' = trail \/ CommitResult \/ \E r \in Requests : CreateInsert(r) \/ CommitRead(r) \/ CommitDecision(r)
  BY TrailWriters
<1>. QED
  BY <1>3, <1>4, <1>5, <1>6, <1>7

\* A row never disappears.
LEMMA RowsStay ==
  ASSUME Types, Jobs, [Next]_vars, NEW c \in Cases, Exists(c)
  PROVE  Exists(c)'
<1>1. row[c] \in Row
  BY RowConsistent
<1>2. \E result : result \in Result
  BY NullTypes
<1>3. ASSUME NEW d \in Cases, OnlyRow(d), Opened(d) \/ Worked(d) \/ \E r \in Requests : DecidedBy(r, d)
      PROVE  row'[c].job # "none"
  <2>1. CASE d # c
    BY <1>3, <2>1 DEF OnlyRow, Exists
  <2>2. CASE d = c
    <3>1. ~Opened(c)
      BY DEF Opened, Exists
    <3>2. ASSUME Worked(c) PROVE row'[c].job # "none"
      <4>1. PICK result \in Result : \/ row'[c] = RunningRow(row[c])
                                     \/ row'[c] = DoneRow(row[c], result)
                                     \/ row'[c] = FailedRow(row[c])
        BY <1>2, <3>2 DEF Worked
      <4>2. row'[c].job \in {"running", "done", "failed"}
        BY <1>1, <4>1, JobRowsJob
      <4>. QED
        BY <4>2
    <3>3. ASSUME NEW r \in Requests, DecidedBy(r, c) PROVE row'[c].job # "none"
      BY <3>3 DEF DecidedBy
    <3>. QED
      BY <1>3, <2>2, <3>1, <3>2, <3>3
  <2>. QED
    BY <2>1, <2>2
<1>. QED
  BY <1>3, StepOfOneCase DEF Exists

\* A request that reads goes on with what it has loaded, or loads it now.
LEMMA RequestStep ==
  ASSUME Types, [Next]_vars, NEW r \in Requests, Reading(r)'
  PROVE  \/ Reading(r) /\ op'[r] = op[r] /\ seen'[r] = seen[r] /\ (Deciding(r)' => Deciding(r))
         \/ op'[r].case \in Cases /\ Exists(op'[r].case) /\ seen'[r] = row[op'[r].case]
<1>. USE DEF reqVars
<1>1. /\ pc \in [Requests -> RequestPC] /\ op \in [Requests -> Op] /\ seen \in [Requests -> Row]
  BY DEF Types, TypeOK
<1>2. pc'[r] \in {"loaded", "read", "flushed"}
  BY DEF Reading
<1>3. ASSUME NEW s \in Requests, NEW a, End(s, a)
      PROVE  s # r /\ pc'[r] = pc[r] /\ op'[r] = op[r] /\ seen'[r] = seen[r]
  BY <1>1, <1>2, <1>3 DEF End
<1>4. ASSUME NEW s \in Requests, NEW o, o.case \in Cases, Exists(o.case), Load(s, o)
      PROVE  \/ pc'[r] = pc[r] /\ op'[r] = op[r] /\ seen'[r] = seen[r]
             \/ op'[r].case \in Cases /\ Exists(op'[r].case) /\ seen'[r] = row[op'[r].case]
  BY <1>1, <1>4 DEF Load, Arrive, Goto
<1>5. ASSUME NEW s \in Requests, Arrives(s)
      PROVE  \/ pc'[r] = pc[r] /\ op'[r] = op[r] /\ seen'[r] = seen[r]
             \/ op'[r].case \in Cases /\ Exists(op'[r].case) /\ seen'[r] = row[op'[r].case]
  <2>1. ASSUME NEW c \in Cases, NEW u, CreateCheck(s, u, c)
        PROVE  pc'[r] = pc[r] /\ op'[r] = op[r] /\ seen'[r] = seen[r]
    BY <1>1, <1>2, <1>3, <2>1 DEF CreateCheck, Refuse, Goto, Arrive
  <2>2. ASSUME NEW c \in Cases, NEW u \in Users, NEW k, ReadCase(s, k, u, c)
        PROVE  \/ pc'[r] = pc[r] /\ op'[r] = op[r] /\ seen'[r] = seen[r]
               \/ op'[r].case \in Cases /\ Exists(op'[r].case) /\ seen'[r] = row[op'[r].case]
    <3>1. ReadOp(k, u, c).case = c
      BY DEF ReadOp, NoOp
    <3>. QED
      BY <1>3, <1>4, <2>2, <3>1 DEF ReadCase, Refuse
  <2>3. ASSUME NEW c \in Cases, NEW u \in Analysts, Decide(s, u, c)
        PROVE  \/ pc'[r] = pc[r] /\ op'[r] = op[r] /\ seen'[r] = seen[r]
               \/ op'[r].case \in Cases /\ Exists(op'[r].case) /\ seen'[r] = row[op'[r].case]
    <3>1. \A o \in DecisionOps(u, c) : o.case = c
      BY DEF DecisionOps
    <3>. QED
      BY <1>3, <1>4, <2>3, <3>1 DEF Decide, Refuse
  <2>. QED
    BY <1>5, <2>1, <2>2, <2>3 DEF Arrives
<1>6. ASSUME NEW s \in Requests, Proceeds(s)
      PROVE  Reading(r) /\ op'[r] = op[r] /\ seen'[r] = seen[r] /\ (Deciding(r)' => Deciding(r))
  <2>1. CASE CreateInsert(s) \/ CreateSubmit(s) \/ CommitRead(s) \/ CommitDecision(s)
    <3>1. pc'[r] = pc[r] /\ op'[r] = op[r] /\ seen'[r] = seen[r]
      BY <1>1, <1>2, <1>3, <2>1 DEF CreateInsert, CreateSubmit, CommitRead, CommitDecision, Goto
    <3>. QED
      BY <1>2, <3>1 DEF Reading, Deciding
  <2>2. CASE ReadLast(s) \/ FlushDecision(s)
    BY <1>1, <1>2, <2>2 DEF ReadLast, FlushDecision, Goto, Reading, Deciding
  <2>. QED
    BY <1>6, <2>1, <2>2 DEF Proceeds
<1>7. ASSUME NEW s \in Requests, RequestFault(s)
      PROVE  pc'[r] = pc[r] /\ op'[r] = op[r] /\ seen'[r] = seen[r]
  BY <1>3, <1>7 DEF RequestFault
<1>8. ~Crash
  BY <1>1, <1>2 DEF Crash, RequestPC
<1>9. CASE UNCHANGED <<pc, op, seen>>
  BY <1>2, <1>9 DEF Reading, Deciding
<1>10. Worker \/ JobFault \/ Stop \/ Restart \/ EngineLoaded \/ UNCHANGED vars => UNCHANGED <<pc, op, seen>>
  BY DEF Worker, StartJob, SaveRunning, FlushResult, CommitResult, MarkFailed, JobFault, Stop, Restart,
         EngineLoaded, vars
<1>11. pc'[r] = pc[r] /\ op'[r] = op[r] /\ seen'[r] = seen[r] =>
         Reading(r) /\ op'[r] = op[r] /\ seen'[r] = seen[r] /\ (Deciding(r)' => Deciding(r))
  BY <1>2 DEF Reading, Deciding
<1>. QED
  BY <1>5, <1>6, <1>7, <1>8, <1>9, <1>10, <1>11 DEF Next

-----------------------------------------------------------------------------
(* Trails have no gaps.                                                    *)

LEMMA Contiguous ==
  ASSUME NEW t \in Seq(AuditRow), \A i \in DOMAIN t : t[i].seq = i, NEW events \in Seq(Event)
  PROVE  \A i \in DOMAIN (t \o Numbered(events, Len(t))) : (t \o Numbered(events, Len(t)))[i].seq = i
<1>. DEFINE n == Numbered(events, Len(t))
<1>1. n \in Seq(AuditRow) /\ Len(n) = Len(events) /\ \A i \in 1..Len(events) : n[i].seq = Len(t) + i
  <2>1. n \in [1..Len(events) -> AuditRow]
    BY DEF Numbered, AuditRow
  <2>. QED
    BY <2>1 DEF Numbered
<1>. HIDE DEF n
<1>2. ASSUME NEW i \in DOMAIN (t \o n)
      PROVE  (t \o n)[i].seq = i
  <2>1. CASE i <= Len(t)
    BY <1>1, <2>1
  <2>2. CASE i > Len(t)
    <3>1. (t \o n)[i] = n[i - Len(t)] /\ i - Len(t) \in 1..Len(events)
      BY <1>1, <2>2
    <3>. QED
      BY <1>1, <3>1
  <2>. QED
    BY <1>1, <2>1, <2>2
<1>. QED
  BY <1>2 DEF n

Trails == TrailNeedsRow /\ TrailIsContiguous

LEMMA TrailNeedsRowStep ==
  ASSUME Types, Jobs, TrailNeedsRow, [Next]_vars
  PROVE  TrailNeedsRow'
<1>. USE DEF dbVars
<1>1. /\ row \in [Cases -> Row] /\ wcase \in Cases /\ trail \in [Cases -> Seq(AuditRow)]
      /\ \A r \in Requests : op[r] \in Op /\ op[r].case \in Cases
  BY DEF Types, TypeOK, Op
<1>2. ASSUME NEW c \in Cases, ~Exists(c)'
      PROVE  trail'[c] = <<>>
  <2>1. ~Exists(c) /\ trail[c] = <<>>
    BY <1>2, RowsStay DEF TrailNeedsRow
  <2>2. CASE CommitResult
    BY <1>1, <2>1, <2>2 DEF CommitResult, Append_events, Jobs, JobsAreDistinct, Exists
  <2>3. ASSUME NEW r \in Requests, CreateInsert(r)
        PROVE  trail'[c] = trail[c]
    <3>1. row' = [row EXCEPT ![op[r].case] = [NoRow EXCEPT !.job = "queued"]] \/ row' = row
      BY <2>3 DEF CreateInsert
    <3>2. c # op[r].case \/ trail' = trail
      BY <1>1, <1>2, <2>3 DEF CreateInsert, Exists, NoRow
    <3>. QED
      BY <1>1, <2>3, <3>2 DEF CreateInsert, Append_events
  <2>4. ASSUME NEW r \in Requests, CommitRead(r) \/ CommitDecision(r)
        PROVE  trail'[c] = trail[c]
    <3>1. c # op[r].case
      BY <2>1, <2>4 DEF CommitRead, CommitDecision, TrailNeedsRow, Reading
    <3>. QED
      BY <1>1, <2>4, <3>1 DEF CommitRead, CommitDecision, Append_events
  <2>. QED
    BY <2>1, <2>2, <2>3, <2>4, TrailWriters
<1>3. ASSUME NEW r \in Requests, Reading(r)'
      PROVE  Exists(op[r].case)'
  <2>1. op'[r].case \in Cases /\ Exists(op'[r].case)
    BY <1>1, <1>3, RequestStep DEF TrailNeedsRow
  <2>. QED
    BY <2>1, RowsStay DEF Exists
<1>. QED
  BY <1>2, <1>3 DEF TrailNeedsRow

LEMMA TrailsStep ==
  ASSUME Types, Jobs, Trails, [Next]_vars
  PROVE  Trails'
<1>1. ASSUME NEW c \in Cases
      PROVE  \A i \in DOMAIN trail'[c] : trail'[c][i].seq = i
  <2>1. trail[c] \in Seq(AuditRow) /\ \A i \in DOMAIN trail[c] : trail[c][i].seq = i
    BY DEF Types, TypeOK, Trails, TrailIsContiguous
  <2>2. CASE Grows(c)
    BY <2>1, <2>2, Contiguous DEF Grows
  <2>3. CASE trail'[c] = trail[c]
    BY <2>1, <2>3
  <2>. QED
    BY <2>2, <2>3, TrailStep DEF Trails
<1>. QED
  BY <1>1, TrailNeedsRowStep DEF Trails, TrailIsContiguous

LEMMA InitTrails == Init => Trails
BY DEF Init, Trails, TrailNeedsRow, TrailIsContiguous, Reading

LEMMA TypesJobsAndTrails == Spec => [](Types /\ Jobs /\ Trails)
<1>1. Types /\ Jobs /\ Trails /\ [Next]_vars => Trails'
  BY TrailsStep
<1>. QED
  BY <1>1, TypesAndJobs, InitTrails, PTL DEF Spec

\* Sequence numbers of a trail are 1, 2, 3, ... without gap or repetition.
THEOREM TrailsAreContiguous == Spec => []TrailIsContiguous
<1>. QED
  BY TypesJobsAndTrails, PTL DEF Trails

-----------------------------------------------------------------------------
(* Escalations have four eyes.                                             *)

LEMMA NumberedType ==
  ASSUME NEW events \in Seq(Event), NEW last \in Nat
  PROVE  /\ Numbered(events, last) \in Seq(AuditRow)
         /\ Len(Numbered(events, last)) = Len(events)
         /\ \A i \in 1..Len(events) : Numbered(events, last)[i].event = events[i]
<1>1. Numbered(events, last) \in [1..Len(events) -> AuditRow]
  BY DEF Numbered, AuditRow
<1>. QED
  BY <1>1 DEF Numbered

\* What has happened stays in the trail, at its place.
LEMMA StaysHappened ==
  ASSUME NEW c \in Cases, trail[c] \in Seq(AuditRow), trail'[c] = trail[c] \/ Grows(c),
         NEW i, NEW who, NEW what, HappenedAt(trail[c], i, who, what)
  PROVE  i \in DOMAIN trail'[c] /\ HappenedAt(trail'[c], i, who, what)
<1>1. CASE Grows(c)
  <2>1. PICK events \in Seq(Event) : trail'[c] = trail[c] \o Numbered(events, Len(trail[c]))
    BY <1>1 DEF Grows
  <2>. DEFINE added == Numbered(events, Len(trail[c]))
  <2>2. added \in Seq(AuditRow)
    BY NumberedType
  <2>. HIDE DEF added
  <2>3. i \in DOMAIN (trail[c] \o added) /\ (trail[c] \o added)[i] = trail[c][i]
    BY <2>2 DEF HappenedAt
  <2>. QED
    BY <2>1, <2>3 DEF HappenedAt, added
<1>. QED
  BY <1>1 DEF HappenedAt

\* The event of a decision is in the trail, after all that was there.
LEMMA HappensNow ==
  ASSUME Types, NEW r \in Requests, NEW c \in Cases, DecidedBy(r, c)
  PROVE  /\ op[r].kind = "confirm" =>
              HappenedAt(trail'[c], Len(trail[c]) + 1, op[r].user, "escalation_confirmed")
         /\ op[r].kind = "sign_off" /\ op[r].decision = "ESCALATE" =>
              HappenedAt(trail'[c], Len(trail[c]) + 1, op[r].user, "escalation_proposed")
<1>. DEFINE events == DecisionEvents(op[r], seen[r])
            added == Numbered(events, Len(trail[c]))
<1>1. events \in Seq(Event) /\ trail[c] \in Seq(AuditRow)
  <2>1. op[r] \in Op /\ seen[r] \in Row /\ op[r].kind \in {"sign_off", "confirm", "reject"}
    BY DEF Types, TypeOK, DecidedBy, Deciding
  <2>. QED
    BY <2>1, EventsType DEF Types, TypeOK
<1>2. added \in Seq(AuditRow) /\ Len(added) = Len(events) /\ \A i \in 1..Len(events) : added[i].event = events[i]
  BY <1>1, NumberedType
<1>3. ASSUME events # <<>>
      PROVE  Len(trail[c]) + 1 \in DOMAIN trail'[c] /\ trail'[c][Len(trail[c]) + 1].event = events[1]
  <2>1. trail'[c] = trail[c] \o added
    BY DEF DecidedBy
  <2>. HIDE DEF added, events
  <2>2. Len(trail[c]) + 1 \in DOMAIN trail'[c] /\ trail'[c][Len(trail[c]) + 1] = added[1] /\ 1 \in 1..Len(events)
    BY <1>1, <1>2, <1>3, <2>1
  <2>. QED
    BY <1>2, <2>2
<1>4. CASE op[r].kind = "confirm"
  <2>1. events = <<Ev(op[r].user, "escalation_confirmed"), SignOffEvent(seen[r].pending.by, "ESCALATE")>>
    BY <1>4 DEF DecisionEvents
  <2>. QED
    BY <1>3, <1>4, <2>1 DEF Ev, HappenedAt
<1>5. CASE op[r].kind = "sign_off" /\ op[r].decision = "ESCALATE"
  <2>1. events = <<Ev(op[r].user, "escalation_proposed")>>
    BY <1>5 DEF DecisionEvents
  <2>. QED
    BY <1>3, <1>5, <2>1 DEF Ev, HappenedAt
<1>. QED
  BY <1>4, <1>5

\* Rows the worker writes carry neither a decision nor a proposal.
LEMMA WorkedRow ==
  ASSUME Types, Jobs, Types', Jobs', NEW c \in Cases, Opened(c) \/ Worked(c)
  PROVE  row'[c].pending = NoProposal /\ row'[c].state.signOff = NoSignOff
<1>1. /\ row[c] \in Row /\ Consistent(row[c]) /\ Consistent(row[c])'
  BY RowConsistent DEF Types, TypeOK, Jobs, RowsAreConsistent
<1>2. \E result : result \in Result
  BY NullTypes
<1>3. CASE row'[c].job # "done"
  BY <1>1, <1>3 DEF Consistent, NewState
<1>4. ASSUME NEW result \in Result, row[c].job \in {"queued", "running"}, row'[c] = DoneRow(row[c], result)
      PROVE  row'[c].pending = NoProposal /\ row'[c].state.signOff = NoSignOff
  <2>1. row[c].pending = NoProposal
    BY <1>1, <1>4 DEF Consistent
  <2>2. \A n : /\ [row[c] EXCEPT !.job = "done", !.status = "HUMAN_REVIEW", !.state = n,
                                 !.details = result.details].pending = row[c].pending
               /\ [row[c] EXCEPT !.job = "done", !.status = "HUMAN_REVIEW", !.state = n,
                                 !.details = result.details].state = n
    BY <1>1 DEF Row
  <2>. QED
    BY <1>4, <2>1, <2>2 DEF DoneRow, NewState
<1>. QED
  BY <1>1, <1>2, <1>3, <1>4, JobRowsJob DEF Opened, Worked

Escalations == ProposalsAreRecorded /\ FourEyes

LEMMA EscalationsStep ==
  ASSUME Types, Jobs, Trails, Types', Jobs', Escalations, [Next]_vars
  PROVE  Escalations'
<1>1. \A c \in Cases : trail[c] \in Seq(AuditRow) /\ (trail'[c] = trail[c] \/ Grows(c))
  BY TrailStep DEF Types, TypeOK, Trails
<1>2. ASSUME NEW c \in Cases, NEW who, NEW what, Happened(trail[c], who, what)
      PROVE  Happened(trail'[c], who, what)
  BY <1>1, <1>2, StaysHappened DEF Happened
<1>3. ASSUME NEW c \in Cases
      PROVE  row'[c] = row[c] \/ Opened(c) \/ Worked(c) \/ \E r \in Requests : DecidedBy(r, c)
  BY StepOfOneCase DEF OnlyRow
<1>4. ASSUME NEW c \in Cases, row'[c].pending.by # NoOne
      PROVE  Happened(trail'[c], row'[c].pending.by, "escalation_proposed")
  <2>1. CASE row'[c].pending.by = row[c].pending.by
    BY <1>2, <1>4, <2>1 DEF Escalations, ProposalsAreRecorded
  <2>2. ~(Opened(c) \/ Worked(c))
    BY <1>4, WorkedRow DEF NoProposal
  <2>3. ASSUME NEW r \in Requests, DecidedBy(r, c), row'[c].pending.by # row[c].pending.by
        PROVE  Happened(trail'[c], row'[c].pending.by, "escalation_proposed")
    <3>1. Proposes(op[r], row'[c], row[c])
      BY <1>4, <2>3 DEF DecidedBy, Closes, Confirms, Rejects, NoProposal
    <3>. QED
      BY <2>3, <3>1, HappensNow DEF Proposes, Happened, HappenedAt
  <2>. QED
    BY <1>3, <2>1, <2>2, <2>3
<1>5. ASSUME NEW r \in Requests, Deciding(r)', seen'[r].pending.by # NoOne
      PROVE  Happened(trail'[op'[r].case], seen'[r].pending.by, "escalation_proposed")
  <2>1. Reading(r)'
    BY <1>5 DEF Deciding, Reading
  <2>2. CASE Deciding(r) /\ op'[r] = op[r] /\ seen'[r] = seen[r]
    <3>1. op[r].case \in Cases /\ Happened(trail[op[r].case], seen[r].pending.by, "escalation_proposed")
      BY <1>5, <2>2 DEF Escalations, ProposalsAreRecorded, Types, TypeOK, Op
    <3>. QED
      BY <1>2, <2>2, <3>1
  <2>3. CASE op'[r].case \in Cases /\ Exists(op'[r].case) /\ seen'[r] = row[op'[r].case]
    BY <1>2, <1>5, <2>3 DEF Escalations, ProposalsAreRecorded
  <2>. QED
    BY <1>5, <2>1, <2>2, <2>3, RequestStep
<1>6. ASSUME NEW c \in Cases, row'[c].state.signOff.decision = "ESCALATE"
      PROVE  LET v == row'[c].state.signOff IN
             /\ v.by # v.second
             /\ \E i, j \in DOMAIN trail'[c] :
                  /\ i < j
                  /\ HappenedAt(trail'[c], i, v.by, "escalation_proposed")
                  /\ HappenedAt(trail'[c], j, v.second, "escalation_confirmed")
  <2>. DEFINE v == row'[c].state.signOff
  <2>1. CASE row'[c].state = row[c].state
    <3>1. v.by # v.second
      BY <1>6, <2>1 DEF Escalations, FourEyes
    <3>2. PICK i, j \in DOMAIN trail[c] :
            /\ i < j
            /\ HappenedAt(trail[c], i, v.by, "escalation_proposed")
            /\ HappenedAt(trail[c], j, v.second, "escalation_confirmed")
      BY <1>6, <2>1 DEF Escalations, FourEyes
    <3>3. /\ i \in DOMAIN trail'[c] /\ HappenedAt(trail'[c], i, v.by, "escalation_proposed")
          /\ j \in DOMAIN trail'[c] /\ HappenedAt(trail'[c], j, v.second, "escalation_confirmed")
      BY <1>1, <3>2, StaysHappened
    <3>. QED
      BY <3>1, <3>2, <3>3
  <2>2. ~(Opened(c) \/ Worked(c))
    BY <1>6, WorkedRow DEF NoSignOff
  <2>3. ASSUME NEW r \in Requests, DecidedBy(r, c), row'[c].state # row[c].state
        PROVE  /\ v.by # v.second
               /\ \E i, j \in DOMAIN trail'[c] :
                    /\ i < j
                    /\ HappenedAt(trail'[c], i, v.by, "escalation_proposed")
                    /\ HappenedAt(trail'[c], j, v.second, "escalation_confirmed")
    <3>1. Confirms(op[r], seen[r], row'[c])
      BY <1>6, <2>3 DEF DecidedBy, Closes, Proposes, Rejects
    <3>2. v.by = seen[r].pending.by /\ v.second = op[r].user /\ v.by # v.second /\ v.by # NoOne
      BY <3>1, PeopleAssumption DEF Confirms, Users
    <3>3. PICK i \in DOMAIN trail[c] : HappenedAt(trail[c], i, v.by, "escalation_proposed")
      BY <2>3, <3>2 DEF DecidedBy, Escalations, ProposalsAreRecorded, Happened
    <3>4. i \in DOMAIN trail'[c] /\ HappenedAt(trail'[c], i, v.by, "escalation_proposed") /\ i < Len(trail[c]) + 1
      <4>1. i \in 1..Len(trail[c])
        BY <1>1
      <4>. QED
        BY <1>1, <3>3, <4>1, StaysHappened
    <3>5. HappenedAt(trail'[c], Len(trail[c]) + 1, op[r].user, "escalation_confirmed")
      BY <2>3, <3>1, HappensNow DEF Confirms
    <3>. QED
      BY <3>2, <3>4, <3>5 DEF HappenedAt
  <2>. QED
    BY <1>3, <2>1, <2>2, <2>3
<1>7. ProposalsAreRecorded'
  BY <1>4, <1>5 DEF ProposalsAreRecorded
<1>8. FourEyes'
  BY <1>6 DEF FourEyes
<1>. QED
  BY <1>7, <1>8 DEF Escalations

LEMMA InitEscalations == Init => Escalations
BY DEF Init, Escalations, ProposalsAreRecorded, FourEyes, NoRow, NewState, NoProposal, NoSignOff, Deciding

\* A case escalated in the database was proposed by one analyst and then
\* confirmed by another, and both events are in its trail.
THEOREM EscalationsHaveFourEyes == Spec => []FourEyes
<1>1. Types /\ Jobs /\ Trails /\ Types' /\ Jobs' /\ Escalations /\ [Next]_vars => Escalations'
  BY EscalationsStep
<1>2. Escalations => FourEyes
  BY DEF Escalations
<1>. QED
  BY <1>1, <1>2, TypesJobsAndTrails, InitEscalations, PTL DEF Spec

\* All parts of the invariant together.
THEOREM InvariantHolds == Spec => []ServiceInvariant
<1>1. Types /\ Jobs /\ Trails /\ Types' /\ Jobs' /\ Escalations /\ [Next]_vars => Escalations'
  BY EscalationsStep
<1>2. Types /\ Jobs /\ Trails /\ Escalations => ServiceInvariant
  BY DEF Types, Jobs, Trails, Escalations, ServiceInvariant
<1>. QED
  BY <1>1, <1>2, TypesJobsAndTrails, InitEscalations, PTL DEF Spec

-----------------------------------------------------------------------------
(* What the trail tells: the stored decision and the pending escalation    *)
(* are the last that the trail tells of.                                   *)

Extended(t, events) == t \o Numbered(events, Len(t))

EventsOf(t, kinds) == {i \in DOMAIN t : t[i].event.what \in kinds}

LEMMA AddedRows ==
  ASSUME NEW t \in Seq(AuditRow), NEW events \in Seq(Event),
         NEW u, u = Extended(t, events)
  PROVE  /\ DOMAIN t = 1..Len(t) /\ DOMAIN u = 1..(Len(t) + Len(events))
         /\ \A i \in 1..Len(t) : u[i] = t[i]
         /\ \A i \in 1..Len(events) : u[Len(t) + i].event = events[i]
<1>. DEFINE n == Numbered(events, Len(t))
<1>1. n \in Seq(AuditRow) /\ Len(n) = Len(events) /\ \A i \in 1..Len(events) : n[i].event = events[i]
  BY NumberedType
<1>. HIDE DEF n
<1>2. u = t \o n
  BY DEF n, Extended
<1>3. u \in Seq(AuditRow) /\ Len(u) = Len(t) + Len(events)
  BY AppendType DEF Extended
<1>4. \A i \in 1..Len(events) : u[Len(t) + i] = n[i]
  BY <1>1, <1>2
<1>5. \A i \in 1..Len(t) : u[i] = t[i]
  BY <1>1, <1>2
<1>6. DOMAIN t = 1..Len(t) /\ DOMAIN u = 1..(Len(t) + Len(events))
  BY <1>3
<1>7. \A i \in 1..Len(events) : u[Len(t) + i].event = events[i]
  BY <1>1, <1>4
<1>. QED
  BY ONLY <1>5, <1>6, <1>7

\* Events of other kinds change nothing of these kinds.
LEMMA OtherEvents ==
  ASSUME NEW t \in Seq(AuditRow), NEW events \in Seq(Event),
         NEW u, u = Extended(t, events), NEW kinds,
         \A i \in 1..Len(events) : events[i].what \notin kinds
  PROVE  EventsOf(u, kinds) = EventsOf(t, kinds) /\ \A i \in EventsOf(t, kinds) : u[i] = t[i]
<1>1. /\ DOMAIN t = 1..Len(t) /\ DOMAIN u = 1..(Len(t) + Len(events))
      /\ \A i \in 1..Len(t) : u[i] = t[i]
      /\ \A i \in 1..Len(events) : u[Len(t) + i].event = events[i]
  BY AddedRows
<1>2. Len(t) \in Nat /\ Len(events) \in Nat
  OBVIOUS
<1>3. ASSUME NEW i \in 1..(Len(t) + Len(events)), u[i].event.what \in kinds
      PROVE  i \in 1..Len(t)
  <2>1. CASE i > Len(t)
    <3>1. i - Len(t) \in 1..Len(events) /\ Len(t) + (i - Len(t)) = i
      BY <1>2, <2>1
    <3>. QED
      BY <1>1, <1>3, <3>1
  <2>. QED
    BY <1>2, <2>1
<1>. QED
  BY <1>1, <1>2, <1>3 DEF EventsOf

\* The last event of these kinds among the new ones is the last of all.
LEMMA LastEvent ==
  ASSUME NEW t \in Seq(AuditRow), NEW events \in Seq(Event),
         NEW u, u = Extended(t, events), NEW kinds,
         NEW k \in 1..Len(events), events[k].what \in kinds,
         \A i \in 1..Len(events) : i > k => events[i].what \notin kinds
  PROVE  /\ Len(t) + k \in EventsOf(u, kinds) /\ u[Len(t) + k].event = events[k]
         /\ \A j \in EventsOf(u, kinds) : j <= Len(t) + k
<1>1. /\ DOMAIN t = 1..Len(t) /\ DOMAIN u = 1..(Len(t) + Len(events))
      /\ \A i \in 1..Len(t) : u[i] = t[i]
      /\ \A i \in 1..Len(events) : u[Len(t) + i].event = events[i]
  BY AddedRows
<1>2. Len(t) \in Nat /\ Len(events) \in Nat
  OBVIOUS
<1>3. ASSUME NEW j \in 1..(Len(t) + Len(events)), u[j].event.what \in kinds
      PROVE  j <= Len(t) + k
  <2>1. CASE j > Len(t) + k
    <3>1. j - Len(t) \in 1..Len(events) /\ j - Len(t) > k /\ Len(t) + (j - Len(t)) = j
      BY <1>2, <2>1
    <3>. QED
      BY <1>1, <1>3, <3>1
  <2>. QED
    BY <1>2, <2>1
<1>. QED
  BY <1>1, <1>2, <1>3 DEF EventsOf

\* What the trail t tells of a case with row s.
SignOffKinds    == {"sign_off"}
EscalationKinds == {"escalation_proposed", "escalation_confirmed", "escalation_rejected"}

OverrideTold(s, t) ==
    Overrides(s.state.signOff.decision, s) =>
      \E i \in DOMAIN t : /\ HappenedAt(t, i, s.state.signOff.by, "advisory_override_acknowledged")
                          /\ HappenedAt(t, i + 1, s.state.signOff.by, "sign_off")
                          /\ t[i+1].event.decision = "CLEAR"
VerdictTold(s, t) ==
    /\ (s.status = "CLOSED") <=> (EventsOf(t, SignOffKinds) # {})
    /\ \A i \in EventsOf(t, SignOffKinds) : (\A j \in EventsOf(t, SignOffKinds) : j <= i) =>
          t[i].event = SignOffEvent(s.state.signOff.by, s.state.signOff.decision)
ProposalTold(s, t) ==
    IF EventsOf(t, EscalationKinds) = {} THEN s.pending.by = NoOne
    ELSE \E i \in EventsOf(t, EscalationKinds) :
           /\ \A j \in EventsOf(t, EscalationKinds) : j <= i
           /\ s.pending.by = IF t[i].event.what = "escalation_proposed" THEN t[i].event.who ELSE NoOne

\* A later trail still tells of an override that has been acknowledged.
LEMMA OverrideStaysTold ==
  ASSUME NEW t \in Seq(AuditRow), NEW events \in Seq(Event), NEW u, u = Extended(t, events),
         NEW s, OverrideTold(s, t), NEW w,
         w.state = s.state \/ w.state.signOff.decision # "CLEAR"
  PROVE  OverrideTold(w, u)
<1>. SUFFICES ASSUME Overrides(w.state.signOff.decision, w)
              PROVE  \E i \in DOMAIN u : /\ HappenedAt(u, i, w.state.signOff.by, "advisory_override_acknowledged")
                                         /\ HappenedAt(u, i + 1, w.state.signOff.by, "sign_off")
                                         /\ u[i+1].event.decision = "CLEAR"
  BY DEF OverrideTold
<1>1. w.state = s.state /\ Overrides(s.state.signOff.decision, s)
  BY DEF Overrides
<1>2. PICK i \in DOMAIN t : /\ HappenedAt(t, i, s.state.signOff.by, "advisory_override_acknowledged")
                            /\ HappenedAt(t, i + 1, s.state.signOff.by, "sign_off")
                            /\ t[i+1].event.decision = "CLEAR"
  BY <1>1 DEF OverrideTold
<1>3. DOMAIN t \subseteq DOMAIN u /\ \A j \in DOMAIN t : u[j] = t[j]
  <2>1. /\ DOMAIN t = 1..Len(t) /\ DOMAIN u = 1..(Len(t) + Len(events))
        /\ \A j \in 1..Len(t) : u[j] = t[j]
        /\ \A j \in 1..Len(events) : u[Len(t) + j].event = events[j]
    BY AddedRows
  <2>. QED
    BY <2>1
<1>. QED
  BY <1>1, <1>2, <1>3 DEF HappenedAt

\* A sign-off that is the last event of its kind is what the row says.
LEMMA VerdictIsTold ==
  ASSUME NEW u, NEW w, w.status = "CLOSED", NEW k \in EventsOf(u, SignOffKinds), k \in Nat,
         EventsOf(u, SignOffKinds) \subseteq Nat,
         \A j \in EventsOf(u, SignOffKinds) : j <= k,
         u[k].event = SignOffEvent(w.state.signOff.by, w.state.signOff.decision)
  PROVE  VerdictTold(w, u)
<1>1. ASSUME NEW i \in EventsOf(u, SignOffKinds), \A j \in EventsOf(u, SignOffKinds) : j <= i
      PROVE  i = k
  <2>1. i <= k /\ k <= i /\ i \in Nat
    BY <1>1
  <2>. QED
    BY <2>1
<1>. QED
  BY <1>1 DEF VerdictTold

Told(s, t) == OverrideTold(s, t) /\ VerdictTold(s, t) /\ ProposalTold(s, t)

\* Events that are neither sign-offs nor escalations tell nothing new.
Quiet(events) == \A i \in 1..Len(events) : events[i].what \notin SignOffKinds \cup EscalationKinds

LEMMA QuietlyTold ==
  ASSUME NEW t \in Seq(AuditRow), NEW u, NEW s, Told(s, t), NEW w,
         u = t \/ \E events \in Seq(Event) : Quiet(events) /\ u = Extended(t, events),
         \/ w.state = s.state
         \/ w.state.signOff = NoSignOff /\ s.state.signOff = NoSignOff,
         (w.status = "CLOSED") <=> (s.status = "CLOSED"), w.pending.by = s.pending.by
  PROVE  Told(w, u)
<1>1. OverrideTold(w, u)
  <2>1. CASE u = t
    BY <2>1 DEF Told, OverrideTold, Overrides, NoSignOff
  <2>. QED
    BY <2>1, OverrideStaysTold DEF Told, NoSignOff
<1>2. ASSUME NEW kinds, kinds \in {SignOffKinds, EscalationKinds}
      PROVE  EventsOf(u, kinds) = EventsOf(t, kinds) /\ \A i \in EventsOf(t, kinds) : u[i] = t[i]
  BY <1>2, OtherEvents DEF Quiet
<1>3. VerdictTold(w, u)
  BY <1>2 DEF Told, VerdictTold
<1>4. ProposalTold(w, u)
  BY <1>2 DEF Told, ProposalTold
<1>. QED
  BY <1>1, <1>3, <1>4 DEF Told

\* A proposal and its rejection tell of themselves, and of no sign-off.
LEMMA EscalationTold ==
  ASSUME NEW t \in Seq(AuditRow), NEW e \in Event, e.what \in EscalationKinds,
         NEW u, u = Extended(t, <<e>>), NEW s, Told(s, t), NEW w,
         w.status = s.status, w.state = s.state,
         w.pending.by = IF e.what = "escalation_proposed" THEN e.who ELSE NoOne
  PROVE  Told(w, u)
<1>1. PICK events \in Seq(Event) : events = <<e>>
  <2>1. <<e>> \in Seq(Event)
    OBVIOUS
  <2>. QED
    BY <2>1
<1>2. Len(events) = 1 /\ events[1] = e /\ u = Extended(t, events)
  BY <1>1
<1>3. OverrideTold(w, u)
  BY <1>2, OverrideStaysTold DEF Told
<1>4. VerdictTold(w, u)
  <2>1. \A i \in 1..Len(events) : events[i].what \notin SignOffKinds
    BY <1>2 DEF SignOffKinds, EscalationKinds
  <2>2. /\ EventsOf(u, SignOffKinds) = EventsOf(t, SignOffKinds)
        /\ \A i \in EventsOf(t, SignOffKinds) : u[i] = t[i]
    BY <1>2, <2>1, OtherEvents
  <2>. QED
    BY <2>2 DEF Told, VerdictTold
<1>5. ProposalTold(w, u)
  <2>1. PICK k \in 1..Len(events) : k = 1
    BY <1>2
  <2>2. events[k].what \in EscalationKinds /\ \A i \in 1..Len(events) : i > k => events[i].what \notin EscalationKinds
    BY <1>2, <2>1
  <2>3. /\ Len(t) + k \in EventsOf(u, EscalationKinds) /\ u[Len(t) + k].event = events[k]
        /\ \A j \in EventsOf(u, EscalationKinds) : j <= Len(t) + k
    BY <1>2, <2>2, LastEvent
  <2>. QED
    BY <1>2, <2>1, <2>3 DEF ProposalTold
<1>. QED
  BY <1>3, <1>4, <1>5 DEF Told

\* The sign-off of one reviewer, after the acknowledgement it may need.
LEMMA ClosesTold ==
  ASSUME NEW t \in Seq(AuditRow), NEW o \in Op, NEW l \in Row, NEW s, NEW w, Closes(o, l, w, s),
         NEW u, u = Extended(t, DecisionEvents(o, l)), Told(s, t)
  PROVE  Told(w, u)
<1>1. PICK events \in Seq(Event) : events = DecisionEvents(o, l)
  BY EventsType DEF Closes
<1>2. u = Extended(t, events)
  BY <1>1
<1>3. PICK ack, so : /\ ack = [who |-> o.user, what |-> "advisory_override_acknowledged", decision |-> "CLEAR"]
                     /\ so = SignOffEvent(o.user, o.decision)
  OBVIOUS
<1>4. /\ Len(events) \in {1, 2} /\ events[Len(events)] = so
      /\ \A i \in 1..Len(events) : events[i].what \notin EscalationKinds
      /\ Overrides(o.decision, l) => Len(events) = 2 /\ events[1] = ack
  <2>1. ack.what \notin EscalationKinds /\ so.what \notin EscalationKinds
    BY <1>3 DEF SignOffEvent, EscalationKinds
  <2>2. ack \in Event /\ so \in Event
    <3>1. o.user \in Users \cup {NoOne} /\ o.decision \in Advisory
      BY DEF Op
    <3>2. [who |-> o.user, what |-> "advisory_override_acknowledged", decision |-> "CLEAR"] \in Event
      BY <3>1 DEF Event, Action, Advisory, Decision
    <3>3. SignOffEvent(o.user, o.decision) \in Event
      BY <3>1 DEF SignOffEvent, Event, Action
    <3>. QED
      BY <1>3, <3>2, <3>3
  <2>3. PICK first \in Seq(Event) : first = IF Overrides(o.decision, l) THEN <<ack>> ELSE <<>>
    <3>1. <<ack>> \in Seq(Event) /\ <<>> \in Seq(Event)
      BY <2>2
    <3>. QED
      BY <3>1
  <2>4. /\ Overrides(o.decision, l) => Len(first) = 1 /\ first[1] = ack /\ Len(first) + 1 = 2
        /\ ~Overrides(o.decision, l) => Len(first) = 0 /\ Len(first) + 1 = 1
    BY <2>3
  <2>5. events = Append(first, so)
    BY <1>1, <1>3, <2>3 DEF Closes, DecisionEvents, OverrideEvents
  <2>6. /\ Len(events) = Len(first) + 1 /\ events[Len(first) + 1] = so
        /\ Len(first) = 1 => events[1] = first[1]
    BY <2>2, <2>5
  <2>7. CASE ~Overrides(o.decision, l)
    <3>1. Len(events) = 1 /\ events[1] = so
      BY <2>4, <2>6, <2>7
    <3>. QED
      BY <2>1, <2>7, <3>1
  <2>8. CASE Overrides(o.decision, l)
    <3>1. Len(first) = 1 /\ first[1] = ack /\ Len(first) + 1 = 2
      BY <2>4, <2>8
    <3>2. Len(events) = 2 /\ events[1] = ack /\ events[2] = so
      BY <2>6, <3>1
    <3>. QED
      BY <2>1, <3>2
  <2>. QED
    BY <2>7, <2>8
<1>5. PICK k \in 1..Len(events) : k = Len(events)
  <2>1. Len(events) = 1 \/ Len(events) = 2
    BY <1>4
  <2>2. PICK n \in {1, 2} : n = Len(events)
    BY <2>1
  <2>3. n \in 1..n
    OBVIOUS
  <2>. QED
    BY <2>2, <2>3
<1>6. /\ Len(t) + k \in EventsOf(u, SignOffKinds) /\ u[Len(t) + k].event = events[k]
      /\ \A j \in EventsOf(u, SignOffKinds) : j <= Len(t) + k
  <2>1. events[k].what \in SignOffKinds /\ \A i \in 1..Len(events) : i > k => events[i].what \notin SignOffKinds
    BY <1>3, <1>4, <1>5 DEF SignOffEvent, SignOffKinds
  <2>. QED
    BY <1>2, <2>1, LastEvent
<1>7. /\ DOMAIN t = 1..Len(t) /\ DOMAIN u = 1..(Len(t) + Len(events))
      /\ \A i \in 1..Len(t) : u[i] = t[i]
      /\ \A i \in 1..Len(events) : u[Len(t) + i].event = events[i]
  <2>1. t \in Seq(AuditRow) /\ events \in Seq(Event)
    OBVIOUS
  <2>. QED
    BY ONLY <1>2, <2>1, AddedRows
<1>8. w.state.signOff.by = o.user /\ w.state.signOff.decision = o.decision
  BY DEF Closes
<1>9. VerdictTold(w, u)
  <2>1. EventsOf(u, SignOffKinds) \subseteq Nat /\ Len(t) + k \in Nat
    BY <1>4, <1>5, <1>7 DEF EventsOf
  <2>. QED
    BY <1>3, <1>4, <1>5, <1>6, <1>8, <2>1, VerdictIsTold DEF Closes
<1>10. OverrideTold(w, u)
  <2>1. SUFFICES ASSUME Overrides(w.state.signOff.decision, w)
                 PROVE  \E i \in DOMAIN u :
                          /\ HappenedAt(u, i, w.state.signOff.by, "advisory_override_acknowledged")
                          /\ HappenedAt(u, i + 1, w.state.signOff.by, "sign_off")
                          /\ u[i+1].event.decision = "CLEAR"
    BY DEF OverrideTold
  <2>2. Overrides(o.decision, l) /\ o.decision = "CLEAR"
    BY <1>8, <2>1 DEF Overrides, Closes
  <2>3. /\ Len(t) + 1 \in DOMAIN u /\ u[Len(t) + 1].event = events[1]
        /\ (Len(t) + 1) + 1 \in DOMAIN u /\ u[(Len(t) + 1) + 1].event = events[2]
    <3>1. Len(events) = 2 /\ Len(t) \in Nat /\ (Len(t) + 1) + 1 = Len(t) + 2
      BY <1>4, <2>2
    <3>2. 1 \in 1..Len(events) /\ 2 \in 1..Len(events)
      BY <3>1
    <3>. QED
      BY <1>7, <3>1, <3>2
  <2>4. events[1] = ack /\ events[2] = so
    BY <1>4, <2>2
  <2>5. PICK i \in DOMAIN u : i = Len(t) + 1
    BY <2>3
  <2>6. u[i].event.who = o.user /\ u[i].event.what = "advisory_override_acknowledged"
    BY <1>3, <2>3, <2>4, <2>5
  <2>7. /\ i + 1 \in DOMAIN u /\ u[i+1].event.who = o.user /\ u[i+1].event.what = "sign_off"
        /\ u[i+1].event.decision = "CLEAR"
    BY <1>3, <2>2, <2>3, <2>4, <2>5 DEF SignOffEvent
  <2>. QED
    BY <1>8, <2>6, <2>7 DEF HappenedAt
<1>11. ProposalTold(w, u)
  <2>1. /\ EventsOf(u, EscalationKinds) = EventsOf(t, EscalationKinds)
        /\ \A i \in EventsOf(t, EscalationKinds) : u[i] = t[i]
    BY <1>2, <1>4, OtherEvents
  <2>. QED
    BY <2>1 DEF Told, ProposalTold, Closes
<1>. QED
  BY <1>9, <1>10, <1>11 DEF Told

\* The sign-off of the second reviewer.
LEMMA ConfirmsTold ==
  ASSUME NEW t \in Seq(AuditRow), NEW o \in Op, NEW l \in Row, NEW s, NEW w, Confirms(o, l, w),
         NEW u, u = Extended(t, DecisionEvents(o, l)), Told(s, t)
  PROVE  Told(w, u)
<1>1. PICK events \in Seq(Event) : events = DecisionEvents(o, l)
  BY EventsType DEF Confirms
<1>2. u = Extended(t, events)
  BY <1>1
<1>3. /\ Len(events) = 2 /\ events[1].what = "escalation_confirmed"
      /\ events[2] = SignOffEvent(l.pending.by, "ESCALATE") /\ events[2].what = "sign_off"
  BY <1>1 DEF Confirms, DecisionEvents, Ev, SignOffEvent
<1>4. PICK k \in 1..Len(events) : k = 1
  BY <1>3
<1>5. PICK n \in 1..Len(events) : n = 2
  BY <1>3
<1>6. /\ Len(t) + n \in EventsOf(u, SignOffKinds) /\ u[Len(t) + n].event = events[n]
      /\ \A j \in EventsOf(u, SignOffKinds) : j <= Len(t) + n
  <2>1. events[n].what \in SignOffKinds /\ \A i \in 1..Len(events) : i > n => events[i].what \notin SignOffKinds
    BY <1>3, <1>5 DEF SignOffKinds
  <2>. QED
    BY <1>2, <2>1, LastEvent
<1>7. /\ Len(t) + k \in EventsOf(u, EscalationKinds) /\ u[Len(t) + k].event = events[k]
      /\ \A j \in EventsOf(u, EscalationKinds) : j <= Len(t) + k
  <2>1. events[k].what \in EscalationKinds
    BY <1>3, <1>4 DEF EscalationKinds
  <2>2. \A i \in 1..Len(events) : i > k => events[i].what \notin EscalationKinds
    BY <1>3, <1>4 DEF EscalationKinds
  <2>. QED
    BY <1>2, <2>1, <2>2, LastEvent
<1>8. VerdictTold(w, u)
  <2>1. EventsOf(u, SignOffKinds) \subseteq Nat /\ Len(t) + n \in Nat
    <3>1. DOMAIN u = 1..(Len(t) + Len(events))
      BY <1>2, AddedRows
    <3>. QED
      BY <1>5, <3>1 DEF EventsOf
  <2>. QED
    BY <1>3, <1>5, <1>6, <2>1, VerdictIsTold DEF Confirms
<1>9. OverrideTold(w, u)
  BY DEF OverrideTold, Overrides, Confirms
<1>10. ProposalTold(w, u)
  BY <1>3, <1>4, <1>7 DEF ProposalTold, Confirms, NoProposal
<1>. QED
  BY <1>8, <1>9, <1>10 DEF Told

\* A step decides a case, or adds events that tell nothing new.
LEMMA WhatHappens ==
  ASSUME Types, Jobs, TrailNeedsRow, [Next]_vars, NEW c \in Cases
  PROVE  \/ \E r \in Requests : DecidedBy(r, c)
         \/ /\ row'[c] = row[c] \/ Opened(c) \/ Worked(c)
            /\ \/ trail'[c] = trail[c]
               \/ \E events \in Seq(Event) : Quiet(events) /\ trail'[c] = Extended(trail[c], events)
<1>. USE DEF dbVars
<1>1. /\ wcase \in Cases /\ trail \in [Cases -> Seq(AuditRow)]
      /\ \A r \in Requests : op[r] \in Op /\ op[r].case \in Cases /\ seen[r] \in Row
  BY DEF Types, TypeOK, Op
<1>2. CASE \E r \in Requests : CommitDecision(r)
  <2>1. PICK r \in Requests : CommitDecision(r)
    BY <1>2
  <2>2. DecidedBy(r, c) \/ (row'[c] = row[c] /\ trail'[c] = trail[c])
    BY <1>1, <2>1, DecisionStep DEF OnlyRow
  <2>. QED
    BY <2>2
<1>3. ASSUME NEW d \in Cases, NEW events \in Seq(Event), Quiet(events), NEW last, SeqFree(d, last),
             Append_events(d, events, last)
      PROVE  trail'[c] = trail[c] \/ trail'[c] = Extended(trail[c], events)
  BY <1>1, <1>3 DEF SeqFree, Append_events, Extended
<1>4. \/ trail'[c] = trail[c] \/ (\E r \in Requests : CommitDecision(r))
      \/ \E events \in Seq(Event) : Quiet(events) /\ trail'[c] = Extended(trail[c], events)
  <2>1. ASSUME NEW r \in Requests, CreateInsert(r)
        PROVE  \/ trail'[c] = trail[c]
               \/ \E events \in Seq(Event) : Quiet(events) /\ trail'[c] = Extended(trail[c], events)
    <3>1. PICK events : events = <<Ev(NoOne, "create_case"), Ev(op[r].user, "request_case")>>
      OBVIOUS
    <3>2. events \in Seq(Event) /\ Quiet(events)
      BY <1>1, <3>1 DEF Op, Ev, Event, Action, Advisory, Quiet, SignOffKinds, EscalationKinds
    <3>3. trail' = trail \/ (KeyFree(op[r].case) /\ Append_events(op[r].case, events, 0))
      BY <2>1, <3>1 DEF CreateInsert
    <3>4. KeyFree(op[r].case) => SeqFree(op[r].case, 0)
      BY <1>1 DEF KeyFree, TrailNeedsRow, SeqFree
    <3>. QED
      BY <1>1, <1>3, <3>2, <3>3, <3>4
  <2>2. ASSUME NEW r \in Requests, CommitRead(r)
        PROVE  \/ trail'[c] = trail[c]
               \/ \E events \in Seq(Event) : Quiet(events) /\ trail'[c] = Extended(trail[c], events)
    <3>1. PICK events : events = ReadEvents(op[r], seen[r])
      OBVIOUS
    <3>2. events \in Seq(Event)
      BY <1>1, <3>1, EventsType
    <3>3. Quiet(events)
      BY <3>1 DEF ReadEvents, Ev, Quiet, SignOffKinds, EscalationKinds
    <3>. QED
      BY <1>1, <1>3, <2>2, <3>1, <3>2, <3>3 DEF CommitRead
  <2>3. CASE CommitResult
    <3>1. PICK events : events = <<Ev(NoOne, "analysis")>>
      OBVIOUS
    <3>2. events \in Seq(Event) /\ Quiet(events)
      BY <3>1 DEF Ev, Event, Action, Advisory, Quiet, SignOffKinds, EscalationKinds
    <3>. QED
      BY <1>1, <1>3, <2>3, <3>1, <3>2 DEF CommitResult
  <2>. QED
    BY <2>1, <2>2, <2>3, TrailWriters
<1>5. row'[c] = row[c] \/ Opened(c) \/ Worked(c) \/ \E r \in Requests : DecidedBy(r, c)
  BY StepOfOneCase DEF OnlyRow
<1>. QED
  BY <1>1, <1>2, <1>4, <1>5

TrailsTell == \A c \in Cases : Told(row[c], trail[c])

LEMMA TrailsTellStep ==
  ASSUME Types, Jobs, Types', Jobs', TrailNeedsRow, TrailsTell, [Next]_vars
  PROVE  TrailsTell'
<1>. SUFFICES ASSUME NEW c \in Cases PROVE Told(row'[c], trail'[c])
  BY DEF TrailsTell
<1>1. /\ trail[c] \in Seq(AuditRow) /\ Told(row[c], trail[c])
      /\ row[c] \in Row /\ Consistent(row[c]) /\ Consistent(row[c])'
  BY RowConsistent DEF Types, TypeOK, TrailsTell, Jobs, RowsAreConsistent
<1>2. CASE /\ row'[c] = row[c] \/ Opened(c) \/ Worked(c)
           /\ \/ trail'[c] = trail[c]
              \/ \E events \in Seq(Event) : Quiet(events) /\ trail'[c] = Extended(trail[c], events)
  <2>1. CASE row'[c] = row[c]
    BY <1>1, <1>2, <2>1, QuietlyTold
  <2>2. CASE Opened(c) \/ Worked(c)
    <3>1. row'[c].pending = NoProposal /\ row'[c].state.signOff = NoSignOff
      BY <2>2, WorkedRow
    <3>2. row[c].pending = NoProposal /\ row[c].state.signOff = NoSignOff
      BY <1>1, <2>2 DEF Opened, Worked, Consistent, NewState
    <3>3. (row'[c].status = "CLOSED") <=> (row[c].status = "CLOSED")
      BY <1>1, <3>1, <3>2 DEF Consistent
    <3>. QED
      BY <1>1, <1>2, <3>1, <3>2, <3>3, QuietlyTold
  <2>. QED
    BY <1>2, <2>1, <2>2
<1>3. ASSUME NEW r \in Requests, DecidedBy(r, c)
      PROVE  Told(row'[c], trail'[c])
  <2>1. op[r] \in Op /\ seen[r] \in Row /\ op[r].user \in Analysts
    BY <1>3 DEF Types, TypeOK, DecidedBy
  <2>2. trail'[c] = Extended(trail[c], DecisionEvents(op[r], seen[r]))
    BY <1>3 DEF DecidedBy, Extended
  <2>3. CASE Closes(op[r], seen[r], row'[c], row[c])
    BY <1>1, <2>1, <2>2, <2>3, ClosesTold
  <2>4. CASE Confirms(op[r], seen[r], row'[c])
    BY <1>1, <2>1, <2>2, <2>4, ConfirmsTold
  <2>5. CASE Proposes(op[r], row'[c], row[c])
    <3>1. PICK e : e = Ev(op[r].user, "escalation_proposed")
      OBVIOUS
    <3>2. e.what = "escalation_proposed" /\ e.who = op[r].user /\ e \in Event
      BY <2>1, <3>1 DEF Ev, Event, Action, Advisory, Users
    <3>3. DecisionEvents(op[r], seen[r]) = <<e>>
      BY <2>5, <3>1 DEF DecisionEvents, Proposes
    <3>4. trail'[c] = Extended(trail[c], <<e>>)
      BY <2>2, <3>3
    <3>. QED
      BY <1>1, <2>5, <3>2, <3>4, EscalationTold DEF Proposes, EscalationKinds
  <2>6. CASE Rejects(op[r], row'[c], row[c])
    <3>1. PICK e : e = Ev(op[r].user, "escalation_rejected")
      OBVIOUS
    <3>2. e.what = "escalation_rejected" /\ e \in Event
      BY <2>1, <3>1 DEF Ev, Event, Action, Advisory, Users
    <3>3. DecisionEvents(op[r], seen[r]) = <<e>>
      BY <2>6, <3>1 DEF DecisionEvents, Rejects
    <3>4. trail'[c] = Extended(trail[c], <<e>>)
      BY <2>2, <3>3
    <3>. QED
      BY <1>1, <2>6, <3>2, <3>4, EscalationTold DEF Rejects, EscalationKinds, NoProposal
  <2>. QED
    BY <1>3, <2>3, <2>4, <2>5, <2>6 DEF DecidedBy
<1>. QED
  BY <1>2, <1>3, WhatHappens

LEMMA InitTrailsTell == Init => TrailsTell
<1>. SUFFICES ASSUME Init, NEW c \in Cases PROVE Told(row[c], trail[c])
  BY DEF TrailsTell
<1>1. row[c] = NoRow /\ \A kinds : EventsOf(trail[c], kinds) = {}
  BY DEF Init, EventsOf
<1>. QED
  BY <1>1 DEF Told, OverrideTold, VerdictTold, ProposalTold, Overrides, NoRow, NewState, NoSignOff, NoProposal

LEMMA TrailsAlwaysTell == Spec => []TrailsTell
<1>1. Types /\ Jobs /\ Trails /\ Types' /\ Jobs' /\ TrailsTell /\ [Next]_vars => TrailsTell'
  BY TrailsTellStep DEF Trails
<1>. QED
  BY <1>1, TypesJobsAndTrails, InitTrailsTell, PTL DEF Spec

\* A case cleared against the advisory decision carries, in its trail, the
\* acknowledgement of the analyst who cleared it, right before the sign-off.
THEOREM OverridesAreRecorded == Spec => []OverrideIsRecorded
<1>1. TrailsTell => OverrideIsRecorded
  BY DEF TrailsTell, Told, OverrideTold, OverrideIsRecorded
<1>. QED
  BY <1>1, TrailsAlwaysTell, PTL

\* A case is closed exactly when its trail has a sign-off, and the decision
\* stored with it is the last one of the trail, however decisions raced.
THEOREM VerdictsMatchTrails == Spec => []VerdictMatchesTrail
<1>1. \A c \in Cases : SignOffsOf(c) = EventsOf(trail[c], SignOffKinds)
  BY DEF SignOffsOf, EventsOf, SignOffKinds
<1>2. TrailsTell => VerdictMatchesTrail
  BY <1>1 DEF TrailsTell, Told, VerdictTold, VerdictMatchesTrail
<1>. QED
  BY <1>2, TrailsAlwaysTell, PTL

\* The pending escalation of a case is the last one its trail proposes,
\* unless a confirmation or rejection follows it.
THEOREM ProposalsMatchTrails == Spec => []ProposalMatchesTrail
<1>1. \A c \in Cases : EscalationsOf(c) = EventsOf(trail[c], EscalationKinds)
  BY DEF EscalationsOf, EventsOf, EscalationKinds
<1>2. TrailsTell => ProposalMatchesTrail
  BY <1>1 DEF TrailsTell, Told, ProposalTold, ProposalMatchesTrail
<1>. QED
  BY <1>2, TrailsAlwaysTell, PTL

-----------------------------------------------------------------------------
(* The service implements CaseLifecycle.                                   *)

stages    == [c \in Cases |-> StageOf(row[c])]
proposals == [c \in Cases |-> row[c].pending.by]
verdicts  == [c \in Cases |-> row[c].state.signOff]

\* How the stage of a row follows from its job and status.
LEMMA StageOfRow ==
  ASSUME NEW s \in Row, Consistent(s)
  PROVE  /\ StageOf(s) = "absent"   <=> s.job = "none"
         /\ StageOf(s) = "analysis" <=> s.job \in {"queued", "running"}
         /\ StageOf(s) = "failed"   <=> s.job = "failed"
         /\ StageOf(s) = "review"   <=> s.status = "HUMAN_REVIEW"
         /\ StageOf(s) = "closed"   <=> s.status = "CLOSED"
<1>1. /\ s.job \in {"none", "queued", "running", "done", "failed"}
      /\ s.status \in {"CASE_CREATED", "HUMAN_REVIEW", "CLOSED"}
  BY DEF Row
<1>. QED
  BY <1>1 DEF StageOf, Consistent

\* A step that leaves all rows but one alone changes the abstract state of
\* that case only.
LEMMA OneCaseOnly ==
  ASSUME NEW c \in Cases, OnlyRow(c)
  PROVE  /\ stages'    = [stages    EXCEPT ![c] = StageOf(row'[c])]
         /\ proposals' = [proposals EXCEPT ![c] = row'[c].pending.by]
         /\ verdicts'  = [verdicts  EXCEPT ![c] = row'[c].state.signOff]
BY DEF OnlyRow, stages, proposals, verdicts

LEMMA Unchanged ==
  ASSUME NEW c \in Cases
  PROVE  /\ StageOf(row'[c]) = StageOf(row[c]) => [stages EXCEPT ![c] = StageOf(row'[c])] = stages
         /\ row'[c].pending.by = row[c].pending.by => [proposals EXCEPT ![c] = row'[c].pending.by] = proposals
         /\ row'[c].state.signOff = row[c].state.signOff => [verdicts EXCEPT ![c] = row'[c].state.signOff] = verdicts
BY DEF stages, proposals, verdicts

LEMMA LifecycleStep ==
  ASSUME Types, Jobs, Types', Jobs', [Next]_vars
  PROVE  [Lifecycle!Next]_<<stages, proposals, verdicts>>
<1>1. CASE row' = row
  BY <1>1 DEF stages, proposals, verdicts
<1>2. ASSUME NEW c \in Cases, OnlyRow(c), Opened(c) \/ Worked(c) \/ \E r \in Requests : DecidedBy(r, c)
      PROVE  Lifecycle!Next \/ UNCHANGED <<stages, proposals, verdicts>>
  <2>1. /\ row[c] \in Row /\ Consistent(row[c]) /\ row'[c] \in Row /\ Consistent(row'[c])
    BY DEF Types, TypeOK, Jobs, RowsAreConsistent
  <2>2. /\ stages[c] = StageOf(row[c])
        /\ stages'    = [stages    EXCEPT ![c] = StageOf(row'[c])]
        /\ proposals' = [proposals EXCEPT ![c] = row'[c].pending.by]
        /\ verdicts'  = [verdicts  EXCEPT ![c] = row'[c].state.signOff]
    BY <1>2, OneCaseOnly DEF stages
  <2>3. CASE Opened(c) \/ Worked(c)
    <3>1. row[c].pending = NoProposal /\ row[c].state = NewState /\ row[c].job # "done"
      BY <2>1, <2>3 DEF Opened, Worked, Consistent
    <3>2. row'[c].pending = NoProposal /\ row'[c].state.signOff = NoSignOff
      BY <2>3, WorkedRow
    <3>3. proposals' = proposals /\ verdicts' = verdicts
      BY <2>2, <3>1, <3>2, Unchanged DEF NewState
    <3>4. \/ StageOf(row[c]) = "absent" /\ StageOf(row'[c]) = "analysis"
          \/ StageOf(row[c]) = "analysis" /\ StageOf(row'[c]) \in {"analysis", "review", "failed"}
      <4>1. CASE Opened(c)
        BY <2>1, <4>1, StageOfRow, JobRowsJob DEF Opened, NoRow
      <4>2. CASE Worked(c)
        <5>1. \E result : result \in Result
          BY NullTypes
        <5>2. row'[c].job \in {"running", "done", "failed"}
          BY <2>1, <4>2, <5>1, JobRowsJob DEF Worked
        <5>3. row'[c].status # "CLOSED"
          BY <2>1, <3>2 DEF Consistent
        <5>4. row'[c].job = "done" => row'[c].status = "HUMAN_REVIEW"
          BY <2>1, <5>3 DEF Consistent, Row
        <5>. QED
          BY <2>1, <4>2, <5>2, <5>4, StageOfRow DEF Worked
      <4>. QED
        BY <2>3, <4>1, <4>2
    <3>5. CASE StageOf(row'[c]) = StageOf(row[c])
      BY <2>2, <3>3, <3>5, Unchanged
    <3>6. CASE StageOf(row[c]) = "absent"
      <4>1. Lifecycle!Open(c)
        BY <2>2, <3>3, <3>4, <3>6 DEF Lifecycle!Open, Lifecycle!Move, stages, proposals, verdicts
      <4>. QED
        BY <4>1 DEF Lifecycle!Next
    <3>7. CASE StageOf(row[c]) = "analysis" /\ StageOf(row'[c]) \in {"review", "failed"}
      <4>1. Lifecycle!Deliver(c) \/ Lifecycle!Abandon(c)
        BY <2>2, <3>3, <3>7 DEF Lifecycle!Deliver, Lifecycle!Abandon, Lifecycle!Move, stages, proposals, verdicts
      <4>. QED
        BY <4>1 DEF Lifecycle!Next
    <3>. QED
      BY <3>4, <3>5, <3>6, <3>7
  <2>4. ASSUME NEW r \in Requests, DecidedBy(r, c)
        PROVE  Lifecycle!Next
    <3>1. /\ row[c].job = "done" /\ row'[c].job = "done" /\ op[r].user \in Analysts
          /\ op[r].kind = "sign_off" => op[r].decision \in Decision
      BY <2>4 DEF DecidedBy, DecisionOps
    <3>2. StageOf(row[c]) \in {"review", "closed"}
      BY <2>1, <3>1, StageOfRow DEF Consistent, Row
    <3>3. row'[c].status = row[c].status => StageOf(row'[c]) = StageOf(row[c])
      BY <2>1, <3>1, <3>2, StageOfRow DEF Consistent, Row
    <3>4. row'[c].status = "CLOSED" => StageOf(row'[c]) = "closed"
      BY <2>1, StageOfRow
    <3>5. Lifecycle!Delivered(c)
      BY <2>2, <3>2 DEF Lifecycle!Delivered, stages
    <3>6. CASE Proposes(op[r], row'[c], row[c])
      <4>1. stages' = stages /\ verdicts' = verdicts
        BY <2>2, <3>3, <3>6, Unchanged DEF Proposes
      <4>2. PICK p \in Analysts : p = op[r].user
        BY <3>1
      <4>3. Lifecycle!Propose(c, p)
        BY <2>2, <3>5, <3>6, <4>1, <4>2 DEF Proposes, Lifecycle!Propose, stages, proposals, verdicts
      <4>. QED
        BY <4>3 DEF Lifecycle!Next
    <3>7. CASE Rejects(op[r], row'[c], row[c])
      <4>1. stages' = stages /\ verdicts' = verdicts
        BY <2>2, <3>3, <3>7, Unchanged DEF Rejects
      <4>2. proposals' = [proposals EXCEPT ![c] = NoOne]
        BY <2>2, <3>7 DEF Rejects, NoProposal
      <4>3. Lifecycle!Withdraw(c)
        BY <3>5, <4>1, <4>2 DEF Lifecycle!Withdraw, stages, proposals, verdicts
      <4>. QED
        BY <4>3 DEF Lifecycle!Next
    <3>8. CASE Closes(op[r], seen[r], row'[c], row[c])
      <4>1. PICK v \in SignOff : v = row'[c].state.signOff /\ v.decision # "ESCALATE"
        BY <3>1, <3>8 DEF Closes, SignOff
      <4>2. proposals' = proposals
        BY <2>2, <3>8, Unchanged DEF Closes
      <4>3. Lifecycle!Decide(c, v)
        BY <2>2, <3>4, <3>5, <3>8, <4>1, <4>2
        DEF Closes, Lifecycle!Decide, Lifecycle!EnoughReviewers, EnoughReviewers, stages, proposals, verdicts
      <4>4. v \in Lifecycle!SignOff
        BY <4>1 DEF Lifecycle!SignOff, SignOff, Lifecycle!Decision, Decision
      <4>. QED
        BY <4>3, <4>4 DEF Lifecycle!Next
    <3>9. CASE Confirms(op[r], seen[r], row'[c])
      <4>1. PICK v \in SignOff : /\ v = row'[c].state.signOff /\ v.decision = "ESCALATE"
                                /\ v.second # NoOne /\ v.second # v.by
        BY <3>1, <3>9, PeopleAssumption DEF Confirms, SignOff, Decision, Users
      <4>2. proposals' = [proposals EXCEPT ![c] = NoOne]
        BY <2>2, <3>9 DEF Confirms, NoProposal
      <4>3. Lifecycle!Decide(c, v)
        BY <2>2, <3>4, <3>5, <3>9, <4>1, <4>2
        DEF Confirms, Lifecycle!Decide, Lifecycle!EnoughReviewers, EnoughReviewers,
            Lifecycle!DifferentPeople, DifferentPeople, stages, proposals, verdicts
      <4>4. v \in Lifecycle!SignOff
        BY <4>1 DEF Lifecycle!SignOff, SignOff, Lifecycle!Decision, Decision
      <4>. QED
        BY <4>3, <4>4 DEF Lifecycle!Next
    <3>. QED
      BY <2>4, <3>6, <3>7, <3>8, <3>9 DEF DecidedBy
  <2>. QED
    BY <1>2, <2>3, <2>4
<1>. QED
  BY <1>1, <1>2, StepOfOneCase

LEMMA InitLifecycle == Init => Lifecycle!Init
BY DEF Init, Lifecycle!Init, StageOf, NoRow, NoProposal, NewState, Lifecycle!NoSignOff, NoSignOff

\* Cases, seen without requests, threads and transactions, go through the
\* life cycle of CaseLifecycle: every step of the service is a step of it.
THEOREM ServiceImplementsLifecycle == Spec => ImplementsLifecycle
<1>1. Types /\ Jobs /\ Types' /\ Jobs' /\ [Next]_vars => [Lifecycle!Next]_Lifecycle!vars
  BY LifecycleStep DEF Lifecycle!vars, stages, proposals, verdicts
<1>. QED
  BY <1>1, TypesAndJobs, InitLifecycle, PTL DEF Spec, ImplementsLifecycle, Lifecycle!Safe
=============================================================================
