----------------------------- MODULE CaseService -----------------------------
(***************************************************************************)
(* The case API over its database: the request handlers of                 *)
(* backend/app/api/cases.py (each in a thread of its own, one transaction  *)
(* per request), the single worker thread of services/engine.py that runs  *)
(* services/jobs.py, the rows written by services/case_store.py and        *)
(* services/audit_chain.py, and the process crashing or being stopped.     *)
(*                                                                         *)
(* A handler reads the row, decides, and only then writes; nothing         *)
(* re-checks the row at the write.  What happens in between is what this   *)
(* module is about.  The database gives no more than this:                 *)
(*                                                                         *)
(*   - a SELECT returns the last committed values;                         *)
(*   - the first UPDATE or INSERT takes a lock that is held until commit:  *)
(*     on the whole database (SQLite, LockScope = "database") or on the    *)
(*     updated row (PostgreSQL, LockScope = "row");                        *)
(*   - the UPDATE of a loaded row writes only the columns whose value      *)
(*     differs from the loaded one (the session's unit of work);           *)
(*   - (case_id, seq) is unique, so an INSERT that reuses a sequence       *)
(*     number fails and the whole transaction is rolled back.              *)
(***************************************************************************)
EXTENDS SignOffRules, Naturals, Sequences, FiniteSets

CONSTANTS Cases,            \* customer + first focus transaction: the primary key
          Observers,        \* auditors and administrators: they read, never decide
          Requests,         \* the HTTP requests of a behaviour, one thread each
          LockScope,        \* "database" (SQLite) or "row" (PostgreSQL)
          AnalysisResults,  \* what a run of the workflow may end with
          MaxCrashes,       \* bound: how often the process dies
          MaxStops,         \* bound: how often it is shut down in order
          MaxFaults         \* bound: how many database errors (lock timeout,
                            \*        pool timeout, lost connection) occur

Users    == Analysts \cup Observers
Advisory == Decision \cup {"none"}
Result   == [advisory : Advisory, details : BOOLEAN]

ASSUME CasesAssumption    == Cases # {}
ASSUME PeopleAssumption   == NoOne \notin Users /\ Analysts \cap Observers = {}
ASSUME LockAssumption     == LockScope \in {"database", "row"}
ASSUME AnalysisAssumption == AnalysisResults \subseteq Result
ASSUME BoundAssumption    == /\ MaxCrashes \in Nat
                             /\ MaxStops \in Nat
                             /\ MaxFaults \in Nat

-----------------------------------------------------------------------------
(* The rows.  Only three of the workflow's statuses are ever stored: the   *)
(* job saves a case before its first step and after its last.              *)

Proposal   == [by : Analysts \cup {NoOne}, reasoned : BOOLEAN]
NoProposal == [by |-> NoOne, reasoned |-> FALSE]

\* state_json: the report's advisory decision and the sign-off.
CaseState == [advisory : Advisory, signOff : SignOff \cup {NoSignOff}]
NewState  == [advisory |-> "none", signOff |-> NoSignOff]

Row == [job     : {"none", "queued", "running", "done", "failed"},
        status  : {"CASE_CREATED", "HUMAN_REVIEW", "CLOSED"},
        state   : CaseState,
        pending : Proposal,
        details : BOOLEAN]    \* customer_json holds personal details

\* job = "none" stands for the absence of a row.
NoRow == [job |-> "none", status |-> "CASE_CREATED", state |-> NewState,
          pending |-> NoProposal, details |-> FALSE]

\* The actions of audit events; "analysis" stands for all events of one run
\* of the workflow, whose order and contents module CaseWorkflow describes.
Action == {"create_case", "request_case", "analysis", "view_case",
           "view_customer_details", "view_audit_trail", "escalation_proposed",
           "escalation_confirmed", "escalation_rejected",
           "advisory_override_acknowledged", "sign_off"}

Event == [who : Users \cup {NoOne}, what : Action, decision : Advisory]
AuditRow == [seq : Nat, event : Event]

Ev(who, what) == [who |-> who, what |-> what, decision |-> "none"]

-----------------------------------------------------------------------------
Kind == {"none", "create", "view", "audit", "sign_off", "confirm", "reject"}
Op   == [kind : Kind, user : Users \cup {NoOne}, case : Cases,
         decision : Advisory, reasoned : BOOLEAN]

\* Operation of a request that has not arrived or has been answered.
NoOp == [kind |-> "none", user |-> NoOne, case |-> CHOOSE c \in Cases : TRUE,
         decision |-> "none", reasoned |-> FALSE]

VARIABLES
    row, trail,                      \* the database: cases and audit_events
    engine, queue,                   \* "down", or how far the engine is; submitted jobs
    wpc, wcase, wbase, wresult,      \* the worker thread
    pc, op, seen, base, answer,      \* the request threads
    shown,                           \* whose details have been sent to whom
    crashes, stops, faults           \* how much of each bound is used

dbVars     == <<row, trail>>
workerVars == <<wpc, wcase, wbase, wresult>>
reqVars    == <<pc, op, seen, base, answer, shown>>
boundVars  == <<crashes, stops, faults>>
vars == <<dbVars, engine, queue, workerVars, reqVars, boundVars>>

WorkerPC  == {"idle", "starting", "analysing", "flushed", "failing"}
RequestPC == {"idle", "checked", "created", "loaded", "read", "flushed", "done"}
Answer    == {"none", "ok", "refused", "duplicate", "conflict",
              "error", "lost"}
NoResult  == [advisory |-> "none", details |-> FALSE]

TypeOK ==
    /\ row \in [Cases -> Row]
    /\ trail \in [Cases -> Seq(AuditRow)]
    /\ engine \in {"down", "loading", "ready", "broken"}
    /\ queue \in Seq(Cases)
    /\ wpc \in WorkerPC
    /\ wcase \in Cases
    /\ wbase \in Nat
    /\ wresult \in Result
    /\ pc \in [Requests -> RequestPC]
    /\ op \in [Requests -> Op]
    /\ seen \in [Requests -> Row]
    /\ base \in [Requests -> Nat]
    /\ answer \in [Requests -> Answer]
    /\ shown \subseteq Users \X Cases
    /\ crashes \in 0..MaxCrashes /\ stops \in 0..MaxStops /\ faults \in 0..MaxFaults

Init ==
    /\ row   = [c \in Cases |-> NoRow]
    /\ trail = [c \in Cases |-> <<>>]
    /\ engine = "loading" /\ queue = <<>>
    /\ wpc = "idle" /\ wcase = NoOp.case /\ wbase = 0 /\ wresult = NoResult
    /\ pc     = [r \in Requests |-> "idle"]
    /\ op     = [r \in Requests |-> NoOp]
    /\ seen   = [r \in Requests |-> NoRow]
    /\ base   = [r \in Requests |-> 0]
    /\ answer = [r \in Requests |-> "none"]
    /\ shown = {}
    /\ crashes = 0 /\ stops = 0 /\ faults = 0

-----------------------------------------------------------------------------
(* The database.                                                           *)

Exists(c)  == row[c].job # "none"

\* The primary key of cases.  (Seeded fault: a table without one.)
KeyFreeNoKey(c) == TRUE
KeyFree(c) == ~Exists(c)

\* The write lock that a new writer of case c would wait for.  Only the
\* processes between their UPDATE and their commit hold one.
Excludes(c, held) == LockScope = "database" \/ held = c
\* (Seeded fault: an answered request leaves its transaction open.)
UpdateLockFreeLeaky(c) ==
    /\ wpc = "flushed" => ~Excludes(c, wcase)
    /\ \A r \in Requests : pc[r] \in {"flushed", "done"} => ~Excludes(c, op[r].case)
UpdateLockFree(c) ==
    /\ wpc = "flushed" => ~Excludes(c, wcase)
    /\ \A r \in Requests : pc[r] = "flushed" => ~Excludes(c, op[r].case)

\* An INSERT into audit_events needs the database lock but no row lock.
InsertLockFree(c) == LockScope = "row" \/ UpdateLockFree(c)

\* append_events: rows numbered from the last sequence number that was read.
Numbered(events, last) ==
    [i \in 1..Len(events) |-> [seq |-> last + i, event |-> events[i]]]

\* The unique constraint on (case_id, seq), checked when rows are inserted.
\* (Seeded fault: no constraint.)
SeqFreeUnchecked(c, last) == TRUE
SeqFree(c, last) == Len(trail[c]) = last

Append_events(c, events, last) ==
    trail' = [trail EXCEPT ![c] = @ \o Numbered(events, last)]

\* The columns an UPDATE writes: those that differ from what was loaded.
\* (Seeded fault: the whole row as the handler has it.)
WrittenWhole(current, loaded, new) == new
Written(current, loaded, new) ==
    [f \in DOMAIN current |-> IF new[f] = loaded[f] THEN current[f] ELSE new[f]]

-----------------------------------------------------------------------------
(* Requests: arriving, and ending.                                         *)

Arrive(r, o) ==
    /\ pc[r] = "idle"
    /\ engine # "down"
    /\ op' = [op EXCEPT ![r] = o]

\* The thread is done; nothing of it remains but the answer.
End(r, a) ==
    /\ pc'     = [pc EXCEPT ![r] = "done"]
    /\ op'     = [op EXCEPT ![r] = NoOp]
    /\ seen'   = [seen EXCEPT ![r] = NoRow]
    /\ base'   = [base EXCEPT ![r] = 0]
    /\ answer' = [answer EXCEPT ![r] = a]

\* An HTTPException before anything was written.
Refuse(r) ==
    /\ pc[r] = "idle"
    /\ engine # "down"
    /\ End(r, "refused")
    /\ UNCHANGED <<dbVars, engine, queue, workerVars, shown, boundVars>>

Goto(r, there) ==
    /\ pc' = [pc EXCEPT ![r] = there]
    /\ UNCHANGED answer

-----------------------------------------------------------------------------
(* POST /cases                                                             *)

CreateOp(u, c) == [NoOp EXCEPT !.kind = "create", !.user = u, !.case = c]

\* 503 while the engine is not ready, 404 or 422 if the workflow does not
\* take the customer or the transactions (any request may ask for such), 409
\* if the row exists; else go on.
CreateCheck(r, u, c) ==
    \/ /\ engine = "ready" /\ ~Exists(c)
       /\ Arrive(r, CreateOp(u, c))
       /\ Goto(r, "checked")
       /\ UNCHANGED <<dbVars, engine, queue, workerVars, seen, base, shown, boundVars>>
    \/ Refuse(r)

\* create_case_row and the commit; a second INSERT of the same key fails.
CreateInsert(r) == LET c == op[r].case IN
    /\ pc[r] = "checked" /\ UpdateLockFree(c)
    /\ \/ /\ KeyFree(c)
          /\ row' = [row EXCEPT ![c] = [NoRow EXCEPT !.job = "queued"]]
          /\ Append_events(c, <<Ev(NoOne, "create_case"), Ev(op[r].user, "request_case")>>, 0)
          /\ Goto(r, "created")
          /\ UNCHANGED <<op, seen, base>>
       \/ /\ ~KeyFree(c)
          /\ End(r, "duplicate")
          /\ UNCHANGED dbVars
    /\ UNCHANGED <<engine, queue, workerVars, shown, boundVars>>

\* engine.submit, after the commit.
CreateSubmit(r) ==
    /\ pc[r] = "created"
    /\ queue' = Append(queue, op[r].case)
    /\ End(r, "ok")
    /\ UNCHANGED <<dbVars, engine, workerVars, shown, boundVars>>

-----------------------------------------------------------------------------
(* GET /cases/{id} and GET /cases/{id}/audit: reads that are events.       *)

\* Personal details go out to analysts, once the analysis has stored them.
SendsDetails(o, s) == o.kind # "audit" /\ o.user \in Analysts /\ s.details

ReadEvents(o, s) ==
    IF o.kind = "audit" THEN <<Ev(o.user, "view_audit_trail")>>
    ELSE <<Ev(o.user, "view_case")>>
         \o (IF SendsDetails(o, s) THEN <<Ev(o.user, "view_customer_details")>> ELSE <<>>)

ReadOp(k, u, c) == [NoOp EXCEPT !.kind = k, !.user = u, !.case = c]

Load(r, o) ==
    /\ Arrive(r, o)
    /\ seen' = [seen EXCEPT ![r] = row[o.case]]
    /\ Goto(r, "loaded")
    /\ UNCHANGED <<dbVars, engine, queue, workerVars, base, shown, boundVars>>

ReadCase(r, k, u, c) ==
    \/ Exists(c) /\ Load(r, ReadOp(k, u, c))
    \/ ~Exists(c) /\ Refuse(r)                                \* 404

\* append_events looks up the last row; no lock is held yet.
ReadLast(r) ==
    /\ pc[r] = "loaded" /\ op[r].kind \in {"view", "audit"}
    /\ base' = [base EXCEPT ![r] = Len(trail[op[r].case])]
    /\ Goto(r, "read")
    /\ UNCHANGED <<dbVars, engine, queue, workerVars, op, seen, shown, boundVars>>

Disclose(r) ==
    shown' = IF SendsDetails(op[r], seen[r])
             THEN shown \cup {<<op[r].user, op[r].case>>} ELSE shown

\* The INSERTs and the commit, or IntegrityError and rollback (a 500 answer).
CommitRead(r) == LET c == op[r].case IN
    /\ pc[r] = "read" /\ InsertLockFree(c)
    /\ \/ /\ SeqFree(c, base[r])
          /\ Append_events(c, ReadEvents(op[r], seen[r]), base[r])
          /\ Disclose(r)
          /\ End(r, "ok")
       \/ /\ ~SeqFree(c, base[r])
          /\ End(r, "conflict")
          /\ UNCHANGED <<trail, shown>>
    /\ UNCHANGED <<row, engine, queue, workerVars, boundVars>>

-----------------------------------------------------------------------------
(* POST /cases/{id}/sign-off, .../confirm and .../reject.                  *)

\* CLEAR against an advisory decision that asks for more.
Overrides(decision, s) ==
    decision = "CLEAR" /\ s.state.advisory \in {"REVIEW", "ESCALATE"}

\* What the handler checks against the row it has loaded.  An ESCALATE is
\* only proposed here, so sign_off_case does not look at its reason.
\* (Seeded fault: the status is left to sign_off_case.)
SignOffPermittedAnyStatus(o, acknowledged, s) ==
    /\ s.pending.by = NoOne
    /\ Overrides(o.decision, s) => acknowledged
    /\ o.decision # "ESCALATE" =>
         MaySignOff(s.status, o.user, o.decision, NoOne, o.reasoned)
SignOffPermitted(o, acknowledged, s) ==
    /\ s.status = "HUMAN_REVIEW"
    /\ s.pending.by = NoOne
    /\ Overrides(o.decision, s) => acknowledged
    /\ o.decision # "ESCALATE" =>
         MaySignOff(s.status, o.user, o.decision, NoOne, o.reasoned)

\* _pending: a proposal exists and is somebody else's.
SecondReviewer(o, s) ==
    /\ s.pending.by # NoOne
    /\ DifferentPeople(s.pending.by, o.user)

ConfirmPermitted(o, s) ==
    /\ SecondReviewer(o, s)
    /\ MaySignOff(s.status, s.pending.by, "ESCALATE", o.user, s.pending.reasoned)

Permitted(o, acknowledged, s) ==
    CASE o.kind = "sign_off" -> SignOffPermitted(o, acknowledged, s)
      [] o.kind = "confirm"  -> ConfirmPermitted(o, s)
      [] o.kind = "reject"   -> SecondReviewer(o, s)

Closed(s, v) == [s EXCEPT !.status = "CLOSED", !.state.signOff = v]

ProposeRow(o, s) == [s EXCEPT !.pending = [by |-> o.user, reasoned |-> o.reasoned]]
RejectRow(o, s)  == [s EXCEPT !.pending = NoProposal]
CloseRow(o, s)   == Closed(s, [by |-> o.user, second |-> NoOne, decision |-> o.decision])
\* (Seeded fault: the proposal is left pending.)
ConfirmRowPending(o, s) ==
    Closed(s, [by |-> s.pending.by, second |-> o.user, decision |-> "ESCALATE"])
ConfirmRow(o, s) ==
    [Closed(s, [by |-> s.pending.by, second |-> o.user, decision |-> "ESCALATE"])
        EXCEPT !.pending = NoProposal]

\* The row as the handler leaves it, from the row it loaded.
Decided(o, s) ==
    CASE o.kind = "sign_off" /\ o.decision = "ESCALATE" -> ProposeRow(o, s)
      [] o.kind = "sign_off" /\ o.decision # "ESCALATE" -> CloseRow(o, s)
      [] o.kind = "confirm"                             -> ConfirmRow(o, s)
      [] o.kind = "reject"                              -> RejectRow(o, s)

SignOffEvent(by, decision) == [who |-> by, what |-> "sign_off", decision |-> decision]

\* (Seeded fault: the acknowledgement is required but not recorded.)
OverrideEventsNone(o, s) == <<>>
OverrideEvents(o, s) ==
    IF Overrides(o.decision, s)
    THEN <<[who |-> o.user, what |-> "advisory_override_acknowledged", decision |-> "CLEAR"]>>
    ELSE <<>>

DecisionEvents(o, s) ==
    CASE o.kind = "sign_off" /\ o.decision = "ESCALATE" ->
             <<Ev(o.user, "escalation_proposed")>>
      [] o.kind = "sign_off" /\ o.decision # "ESCALATE" ->
             Append(OverrideEvents(o, s), SignOffEvent(o.user, o.decision))
      [] o.kind = "confirm" ->
             <<Ev(o.user, "escalation_confirmed"), SignOffEvent(s.pending.by, "ESCALATE")>>
      [] o.kind = "reject" ->
             <<Ev(o.user, "escalation_rejected")>>

DecisionOps(u, c) ==
    [kind : {"sign_off"}, user : {u}, case : {c}, decision : Decision, reasoned : BOOLEAN]
      \cup
    [kind : {"confirm", "reject"}, user : {u}, case : {c}, decision : {"none"}, reasoned : {TRUE}]

\* Load the row and apply every check to it (404, 403 or 409 if one fails).
Decide(r, u, c) == \E o \in DecisionOps(u, c), acknowledged \in BOOLEAN :
    \/ /\ Exists(c) /\ Permitted(o, acknowledged, row[c])
       /\ Load(r, o)
    \/ /\ ~Exists(c) \/ ~Permitted(o, acknowledged, row[c])
       /\ Refuse(r)

\* save_state: the UPDATE takes the lock, then the last audit row is read.
FlushDecision(r) == LET c == op[r].case IN
    /\ pc[r] = "loaded" /\ op[r].kind \in {"sign_off", "confirm", "reject"}
    /\ UpdateLockFree(c)
    /\ base' = [base EXCEPT ![r] = Len(trail[c])]
    /\ Goto(r, "flushed")
    /\ UNCHANGED <<dbVars, engine, queue, workerVars, op, seen, shown, boundVars>>

CommitDecision(r) == LET c == op[r].case IN
    /\ pc[r] = "flushed"
    /\ \/ /\ SeqFree(c, base[r])
          /\ row' = [row EXCEPT ![c] = Written(@, seen[r], Decided(op[r], seen[r]))]
          /\ Append_events(c, DecisionEvents(op[r], seen[r]), base[r])
          /\ Disclose(r)
          /\ End(r, "ok")
       \/ /\ ~SeqFree(c, base[r])
          /\ End(r, "conflict")
          /\ UNCHANGED <<dbVars, shown>>
    /\ UNCHANGED <<engine, queue, workerVars, boundVars>>

-----------------------------------------------------------------------------
(* The worker: run_case_job.                                               *)

Idle == wpc' = "idle" /\ wcase' = NoOp.case /\ wbase' = 0 /\ wresult' = NoResult

StartJob ==
    /\ wpc = "idle" /\ queue # <<>>
    /\ wpc' = "starting" /\ wcase' = Head(queue) /\ queue' = Tail(queue)
    /\ UNCHANGED <<dbVars, engine, wbase, wresult, reqVars, boundVars>>

\* The first save writes the whole state the request has built.
RunningRow(s) == [s EXCEPT !.job = "running", !.status = "CASE_CREATED", !.state = NewState]
SaveRunning ==
    /\ wpc = "starting" /\ UpdateLockFree(wcase)
    /\ row' = [row EXCEPT ![wcase] = RunningRow(@)]
    /\ wpc' = "analysing"
    /\ UNCHANGED <<trail, engine, queue, wcase, wbase, wresult, reqVars, boundVars>>

\* Where the events of the analysis are numbered from.  (Seeded fault: from
\* the two that the job was given, not from what is stored by then.)
LastNumberOfCaller(c) == 2
LastNumber(c) == Len(trail[c])

\* The workflow has run, in memory; the final save updates the row and
\* reads the last audit row.
FlushResult ==
    /\ wpc = "analysing" /\ UpdateLockFree(wcase)
    /\ wresult' \in AnalysisResults
    /\ wbase' = LastNumber(wcase)
    /\ wpc' = "flushed"
    /\ UNCHANGED <<dbVars, engine, queue, wcase, reqVars, boundVars>>

DoneRow(s, result) == [s EXCEPT !.job = "done", !.status = "HUMAN_REVIEW",
    !.state = [NewState EXCEPT !.advisory = result.advisory], !.details = result.details]
CommitResult ==
    /\ wpc = "flushed"
    /\ \/ /\ SeqFree(wcase, wbase)
          /\ row' = [row EXCEPT ![wcase] = DoneRow(@, wresult)]
          /\ Append_events(wcase, <<Ev(NoOne, "analysis")>>, wbase)
          /\ Idle
       \/ /\ ~SeqFree(wcase, wbase)
          /\ wpc' = "failing"
          /\ UNCHANGED <<dbVars, wcase, wbase, wresult>>
    /\ UNCHANGED <<engine, queue, reqVars, boundVars>>

\* The exception handler, in a session of its own, writes the job columns.
\* (Seeded fault: it only logs.)
FailedRowLogged(s) == s
FailedRow(s) == [s EXCEPT !.job = "failed"]
MarkFailed ==
    /\ wpc = "failing" /\ UpdateLockFree(wcase)
    /\ row' = [row EXCEPT ![wcase] = FailedRow(@)]
    /\ Idle
    /\ UNCHANGED <<trail, engine, queue, reqVars, boundVars>>

-----------------------------------------------------------------------------
(* What goes wrong.                                                        *)

Fault ==
    /\ faults < MaxFaults
    /\ faults' = faults + 1
    /\ UNCHANGED <<crashes, stops>>

\* A database error in a request: get_session rolls back.
RequestFault(r) ==
    /\ pc[r] \in {"checked", "loaded", "read", "flushed"}
    /\ Fault
    /\ End(r, "error")
    /\ UNCHANGED <<dbVars, engine, queue, workerVars, shown>>

\* A database error in the job runs the handler; one in the handler is kept
\* in a Future that nobody looks at.
JobFault ==
    /\ Fault
    /\ \/ /\ wpc \in {"starting", "analysing", "flushed"}
          /\ wpc' = "failing"
          /\ UNCHANGED <<wcase, wbase, wresult>>
       \/ /\ wpc = "failing"
          /\ Idle
    /\ UNCHANGED <<dbVars, engine, queue, reqVars>>

\* The process dies: open transactions roll back, the queue is lost.
Crash ==
    /\ crashes < MaxCrashes
    /\ engine # "down" \/ wpc # "idle"
    /\ crashes' = crashes + 1
    /\ engine' = "down" /\ queue' = <<>>
    /\ Idle
    /\ LET cut == {r \in Requests : pc[r] \notin {"idle", "done"}} IN
         /\ pc'     = [r \in Requests |-> IF r \in cut THEN "done" ELSE pc[r]]
         /\ op'     = [r \in Requests |-> NoOp]
         /\ seen'   = [r \in Requests |-> NoRow]
         /\ base'   = [r \in Requests |-> 0]
         /\ answer' = [r \in Requests |-> IF r \in cut THEN "lost" ELSE answer[r]]
    /\ UNCHANGED <<dbVars, shown, stops, faults>>

\* lifespan ends after the requests have: queued jobs are cancelled, the
\* running one is waited for by the interpreter.
Stop ==
    /\ stops < MaxStops
    /\ engine # "down"
    /\ \A r \in Requests : pc[r] \in {"idle", "done"}
    /\ stops' = stops + 1
    /\ engine' = "down" /\ queue' = <<>>
    /\ UNCHANGED <<dbVars, workerVars, reqVars, crashes, faults>>

Restart ==
    /\ engine = "down" /\ wpc = "idle"
    /\ engine' = "loading"
    /\ UNCHANGED <<dbVars, queue, workerVars, reqVars, boundVars>>

\* The loader thread of EngineService.
EngineLoaded ==
    /\ engine = "loading"
    /\ engine' \in {"ready", "broken"}
    /\ UNCHANGED <<dbVars, queue, workerVars, reqVars, boundVars>>

-----------------------------------------------------------------------------
Arrives(r) == \E c \in Cases :
    \/ \E u \in Analysts : CreateCheck(r, u, c) \/ Decide(r, u, c)
    \/ \E u \in Users, k \in {"view", "audit"} : ReadCase(r, k, u, c)

Proceeds(r) ==
    \/ CreateInsert(r)
    \/ CreateSubmit(r)
    \/ ReadLast(r)
    \/ CommitRead(r)
    \/ FlushDecision(r)
    \/ CommitDecision(r)

Worker == StartJob \/ SaveRunning \/ FlushResult \/ CommitResult \/ MarkFailed

Next ==
    \/ \E r \in Requests : Arrives(r) \/ Proceeds(r) \/ RequestFault(r)
    \/ Worker
    \/ JobFault
    \/ Crash
    \/ Stop
    \/ Restart
    \/ EngineLoaded

Spec == Init /\ [][Next]_vars

\* Threads that have started are scheduled; people owe no request.
FairSpec == /\ Spec
            /\ WF_vars(Worker)
            /\ \A r \in Requests : WF_vars(Proceeds(r))

-----------------------------------------------------------------------------
(* Properties.                                                             *)

HappenedAt(t, i, who, what) ==
    i \in DOMAIN t /\ t[i].event.who = who /\ t[i].event.what = what
Happened(t, who, what) == \E i \in DOMAIN t : HappenedAt(t, i, who, what)

\* Sequence numbers of a trail are 1, 2, 3, ... without gap or repetition,
\* whatever views, decisions and the job append at the same time.
TrailIsContiguous ==
    \A c \in Cases : \A i \in DOMAIN trail[c] : trail[c][i].seq = i

\* A person decides only about an analysis that is finished and stored, so
\* the job can never write over a decision: jobs.py saves without looking.
DecisionFollowsAnalysis == \A c \in Cases :
    \/ row[c].status # "CASE_CREATED"
    \/ row[c].pending.by # NoOne
    \/ row[c].state.signOff # NoSignOff
    => row[c].job = "done" /\ ~(wpc # "idle" /\ wcase = c)

\* A case escalated in the database was proposed by one analyst and, later,
\* confirmed by another, and both events are in its trail, however many
\* proposals, rejections and decisions raced.
FourEyes == \A c \in Cases :
    LET v == row[c].state.signOff IN v.decision = "ESCALATE" =>
      /\ v.by # v.second
      /\ \E i, j \in DOMAIN trail[c] :
           /\ i < j
           /\ HappenedAt(trail[c], i, v.by, "escalation_proposed")
           /\ HappenedAt(trail[c], j, v.second, "escalation_confirmed")

\* A case cleared against the advisory decision carries, in its trail, the
\* acknowledgement of the analyst who cleared it, right before the sign-off.
OverrideIsRecorded == \A c \in Cases :
    LET v == row[c].state.signOff IN
    Overrides(v.decision, row[c]) =>
      \E i \in DOMAIN trail[c] :
        /\ HappenedAt(trail[c], i, v.by, "advisory_override_acknowledged")
        /\ HappenedAt(trail[c], i + 1, v.by, "sign_off")
        /\ trail[c][i+1].event.decision = "CLEAR"

\* The decision stored with a case is the last sign-off of its trail; a case
\* is closed exactly when its trail has a sign-off.
SignOffsOf(c) == {i \in DOMAIN trail[c] : trail[c][i].event.what = "sign_off"}
VerdictMatchesTrail == \A c \in Cases :
    /\ (row[c].status = "CLOSED") <=> (SignOffsOf(c) # {})
    /\ \A i \in SignOffsOf(c) : (\A j \in SignOffsOf(c) : j <= i) =>
          trail[c][i].event = SignOffEvent(row[c].state.signOff.by, row[c].state.signOff.decision)

\* The pending escalation of a case is the last one its trail proposes,
\* unless a confirmation or rejection follows it.
EscalationsOf(c) == {i \in DOMAIN trail[c] : trail[c][i].event.what \in
    {"escalation_proposed", "escalation_confirmed", "escalation_rejected"}}
ProposalMatchesTrail == \A c \in Cases :
    IF EscalationsOf(c) = {} THEN row[c].pending.by = NoOne
    ELSE \E i \in EscalationsOf(c) :
           /\ \A j \in EscalationsOf(c) : j <= i
           /\ row[c].pending.by = IF trail[c][i].event.what = "escalation_proposed"
                                  THEN trail[c][i].event.who ELSE NoOne

\* No step reopens a closed case or takes its decision away, not even the
\* write of a request that had loaded the case before it was closed.
ClosedIsFinal == [][\A c \in Cases : row[c].status = "CLOSED" =>
    row'[c].status = "CLOSED" /\ row'[c].state.signOff # NoSignOff]_vars

\* A job goes queued -> running -> done or failed and never back, across
\* duplicate requests, faults, crashes and restarts.
Rank(job) == CASE job = "none" -> 0 [] job = "queued" -> 1 [] job = "running" -> 2
               [] job \in {"done", "failed"} -> 3
JobOnlyAdvances == [][\A c \in Cases :
    row'[c].job # row[c].job => Rank(row[c].job) < Rank(row'[c].job)]_vars

\* Every request that arrives is answered: no wait for a lock is for ever.
EveryRequestIsAnswered == \A r \in Requests : (pc[r] # "idle") ~> (pc[r] = "done")

\* With row locks the job can lose its result without any database error: the
\* event of a view that is under way in the very moment in which the job stores
\* the result takes the number the job has read.
StoringMeetsAView(c) ==
    /\ wpc = "flushed" /\ wcase = c
    /\ \E r \in Requests : /\ pc[r] \in {"loaded", "read"}
                           /\ op[r].case = c /\ op[r].kind \in {"view", "audit"}

\* Nothing else costs people the analysis: while the database does not fail, a
\* stored case reaches those who decide it, however many views of it were
\* answered before and whatever is asked of other cases meanwhile.
OnlyAMeetingViewCostsReview == \A c \in Cases :
    row[c].job = "queued" ~> \/ row[c].status \in {"HUMAN_REVIEW", "CLOSED"}
                             \/ StoringMeetsAView(c)
                             \/ faults > 0

\* Either mishap alone, a database error anywhere or a view that meets the
\* storing, leaves no case open for ever: its job ends done or failed.  (Both
\* together can: the view fails the job and the error its handler.)
OneMishap == \/ [](faults = 0)
             \/ [](\A c \in Cases : ~StoringMeetsAView(c))
EveryJobSettles == OneMishap => \A c \in Cases :
    Exists(c) ~> (row[c].job \in {"done", "failed"})

-----------------------------------------------------------------------------
(* Why the properties hold: an invariant that every step preserves.        *)

\* A decision in progress passed its checks against the row it has loaded.
Deciding(r) == pc[r] \in {"loaded", "flushed"} /\ op[r].kind \in {"sign_off", "confirm", "reject"}
DecisionsArePermitted == \A r \in Requests :
    /\ Deciding(r) => /\ op[r] \in DecisionOps(op[r].user, op[r].case)
                      /\ op[r].user \in Analysts
                      /\ \E acknowledged \in BOOLEAN : Permitted(op[r], acknowledged, seen[r])
    /\ pc[r] = "flushed" => Deciding(r)

\* What people decide about is the stored result of a job that is done.
Consistent(s) ==
    /\ s.job = "done" <=> s.status # "CASE_CREATED"
    /\ s.job # "done" => s.pending = NoProposal /\ s.state = NewState
    /\ s.status = "CLOSED" <=> s.state.signOff # NoSignOff
RowsAreConsistent ==
    /\ \A c \in Cases : Consistent(row[c])
    /\ \A r \in Requests : Consistent(seen[r])
    /\ \A r \in Requests : Deciding(r) => row[op[r].case].job = "done"

\* Each job is in one place: with the request that submits it, in the queue
\* or with the worker.
Submitting(r, c) == pc[r] = "created" /\ op[r].case = c
JobsAreDistinct ==
    /\ \A r \in Requests : pc[r] = "created" =>
         /\ row[op[r].case].job = "queued"
         /\ \A s \in Requests : Submitting(s, op[r].case) => s = r
         /\ \A i \in DOMAIN queue : queue[i] # op[r].case
    /\ \A i \in DOMAIN queue : row[queue[i]].job = "queued"
    /\ \A i, j \in DOMAIN queue : queue[i] = queue[j] => i = j
    /\ wpc # "idle" =>
         /\ row[wcase].job \in {"queued", "running"}
         /\ wpc = "starting" => row[wcase].job = "queued"
         /\ \A r \in Requests : ~Submitting(r, wcase)
         /\ \A i \in DOMAIN queue : queue[i] # wcase

\* A trail starts with its row, and only for a stored case is anything read.
Reading(r) == pc[r] \in {"loaded", "read", "flushed"}
TrailNeedsRow ==
    /\ \A c \in Cases : ~Exists(c) => trail[c] = <<>>
    /\ \A r \in Requests : Reading(r) => Exists(op[r].case)

\* Whoever is named in a pending escalation, or in one that is about to be
\* confirmed, has an event for it.
ProposalsAreRecorded ==
    /\ \A c \in Cases : row[c].pending.by # NoOne =>
         Happened(trail[c], row[c].pending.by, "escalation_proposed")
    /\ \A r \in Requests : Deciding(r) /\ seen[r].pending.by # NoOne =>
         Happened(trail[op[r].case], seen[r].pending.by, "escalation_proposed")

ServiceInvariant ==
    /\ TypeOK
    /\ DecisionsArePermitted
    /\ RowsAreConsistent
    /\ JobsAreDistinct
    /\ TrailIsContiguous
    /\ TrailNeedsRow
    /\ ProposalsAreRecorded

-----------------------------------------------------------------------------
(* What the repository says and the code does not do: each of these is     *)
(* violated, and README.md names the text it states.  A configuration      *)
(* shows the first; the others are there to be tried in the same way.      *)

Appended(c, what) == \E i \in DOMAIN trail'[c] :
    i \notin DOMAIN trail[c] /\ trail'[c][i].event.what = what

\* "The case must be awaiting review": a sign-off only ends an open case.
SignOffNeedsOpenCase == [][\A c \in Cases :
    Appended(c, "sign_off") => row[c].status = "HUMAN_REVIEW"]_vars

\* Several writers interleave "without dropping or duplicating events": without
\* a database error or a crash, no finished analysis is thrown away.
NoAnalysisIsDropped == \A c \in Cases : faults = 0 => row[c].job # "failed"

\* Jobs of a case that are queued, with a request or with the worker.
Underway(c) ==
    Cardinality({i \in DOMAIN queue : queue[i] = c})
    + Cardinality({r \in Requests : pc[r] = "created" /\ op[r].case = c})
    + (IF wpc # "idle" /\ wcase = c THEN 1 ELSE 0)

\* "A restart loses queued jobs; the case then shows queued".
LostJobShowsQueued == \A c \in Cases :
    row[c].job \in {"queued", "running"} /\ Underway(c) = 0 => row[c].job = "queued"

\* "See personal details (each view is audited)".
DetailsAreAudited == \A d \in shown : Happened(trail[d[2]], d[1], "view_customer_details")

-----------------------------------------------------------------------------
\* The service implements the life cycle: rows are read as stages.
StageOf(s) ==
    CASE s.job = "none" -> "absent"
      [] s.job # "none" /\ s.status = "CLOSED" -> "closed"
      [] s.job # "none" /\ s.status = "HUMAN_REVIEW" -> "review"
      [] s.job = "failed" /\ s.status = "CASE_CREATED" -> "failed"
      [] s.job \in {"queued", "running", "done"} /\ s.status = "CASE_CREATED" -> "analysis"

Lifecycle == INSTANCE CaseLifecycle WITH
    stage    <- [c \in Cases |-> StageOf(row[c])],
    proposal <- [c \in Cases |-> row[c].pending.by],
    verdict  <- [c \in Cases |-> row[c].state.signOff]

ImplementsLifecycle     == Lifecycle!Safe
ImplementsFairLifecycle == Lifecycle!Safe /\ (OneMishap => Lifecycle!Ends)
=============================================================================
