# FIN-GUARD in TLA+

FIN-GUARD analyses bank customers' transactions with deterministic engines and a language
model, and lets people decide the cases. This directory holds its formal model: TLA+ modules
translated from the source, configurations that check them with TLC, and proofs checked by
TLAPS. Paths and line numbers below are relative to the repository (`src/`).

Contents: 1 the system, 2 the modules, 3 what the runs check, 4 what is proved,
5 disagreements with the documentation, 6 what is not modelled, 7 the plan.

## 1. The system

### Parts, their state and their operations

| Part | State | Operations | Interacts with |
|---|---|---|---|
| Case API `backend/app/api/cases.py` | none of its own; one database session per request | create a case, view it, read its audit trail, sign off, confirm or reject an escalation | case store, audit chain, engine service, sign-off rules |
| Case store `backend/app/services/case_store.py`, `database/models.py` | table `cases`: job, status, state, pending escalation, customer data | insert, load, save | every request and the job, by transactions |
| Audit chain `backend/app/services/audit_chain.py` | table `audit_events`: numbered, hash-linked rows | append events, verify the chain | every writer; unique `(case_id, seq)` |
| Engine service and jobs `services/engine.py`, `services/jobs.py` | a queue in memory, one worker thread, the loaded engines | load, submit, run a job, shut down | submitted to by the API, writes the store |
| Sign-off rules `agents/coordinator/signoff.py` | none | one decision with its checks (four eyes) | API, workflow |
| Coordinator workflow `agents/coordinator/workflow.py`, `agents/state.py` | one `CaseState`: status, findings, evidence, answer, review, report, trail | `create_case`, eight steps of `run`, `_fail`, `sign_off` | calls the agents in order |
| Agents `agents/*/agent.py` | none | KYC, anomaly, reconciliation, retrieval, investigation, review, report | engines, language model, guardrails |
| Guardrails `guardrails/` | configuration | engine floor, policies, claim verification, self-critique | reviewer agent |
| Reconciliation `reconciliation/` | none (pure) | match postings, ten rules, results of a case | reconciliation agent |
| KYC matching `kyc/` | the customers' normalised entries | shortlist, score, rank | auditor agent |
| Anomaly detection `anomaly_detection/`, governance `esg/` | trained weights, threshold, splits | features, split, train, flag | auditor agent |
| Structured generation `llm/rag/structured.py` | the conversation of one call | ask, validate, repair, at most three times | investigator agent, providers |
| Knowledge base `knowledge_base/` | chunks and their index | load, chunk, build, search | investigator agent |
| Data pipeline `data_pipeline/` | tables of one run, quarantine, store | verify, clean, validate, consolidate, build a case | source of the case data |
| Synthetic data `data_pipeline/synthetic/` | tables and labels of one data set | inject anomalies and discrepancies, validate | pipeline, evaluation |
| Login and users `backend/app/api/auth.py`, `core/security.py` | table `users`, failure times in memory | sign in, create a user, role check | every request |
| Frontend `frontend/src/` | session, the case on the screen, what is under way | poll, enable and send decisions | Case API |

### What is hard about it

* **Read, decide, write.** A handler loads a row, decides, and writes much later; nothing
  looks at the row again. Two analysts, or an analyst and a view, overlap at any point.
* **Column-wise writes.** An UPDATE writes only the columns that differ from the loaded row,
  so two overlapping decisions mix.
* **Optimistic numbering.** The trail's next number is read without a lock; a unique key turns
  a race into a failed transaction, also for the job that has just finished an analysis.
* **A queue in memory.** The row is committed, then the job is submitted. A crash or an
  orderly stop in between, or before the worker gets to it, keeps one and loses the other.
* **Steps that fail half-way.** Any of eight steps may raise, and so may the report that is
  then written of what exists. The case must still reach people.
* **Three sources of advice.** Model, engine floor and claim checks are combined; with a step
  missing the combination must stay on the safe side.
* **A trail that is evidence.** Damage to its rows outside the program has to be noticed.
* **Tables that refer to each other.** A row that is refused takes others with it, tables
  later; and a wrong row may occupy the key of a right one.
* **Sorting, packing, cutting.** Features, splits, ledgers and chunks depend on order, ties
  and boundaries: equal times, equal keys, an episode across a boundary, a short last chunk.
* **Limits before filters.** Shortlists and searches are cut to a length; what must be seen or
  doubted may not be among what is left.
* **Shared lists and look-ups.** The throttle's lists are replaced while other threads append
  to them; an account is looked up in one statement and inserted in another.
* **Answers out of order.** The page shows the last answer that arrived, while the case
  changes and the session ends.

### What makes each part correct

* Case service: an escalation takes two people, each on record; an override of the advice is
  on record; a closed case stays closed; a verdict and its trail agree; numbers are
  contiguous; a job is submitted once and only advances; every request is answered; a stored
  case gets to people unless the database fails or, on PostgreSQL, a view meets the storing of
  its analysis.
* Workflow: the trail alone tells where the case is; a failure reaches people with a report
  that says so; every fact is backed by evidence; a validated report has passed everything.
* Guardrails: after the review the advice is never below what the engines ask for, never
  below the model's own proposal, and only the model can bring in an escalation.
* Audit chain: what is accepted is what was written; what precedes the first bad event is
  authentic; an undamaged trail is never refused.
* Engines: a finding exactly when the records disagree, whatever their order; a document in
  doubt is never below a review; no figure uses a later or foreign transaction; nothing is
  both learnt from and judged by.
* Investigation: no sentence of the documents is lost; the best trusted chunks and only they
  are shown; an accepted answer cites what exists and says what it says.
* Data: every row is stored, a duplicate or in quarantine, once, for its reason; nothing
  stored refers to something that is not; labels name what was changed.
* Access: a lock-out follows as many failures; a name is one account.
* Console: a decision is accepted only on a row that is as the page showed it; what a page was
  told is closed stays closed; the page stops waiting.

## 2. The modules

    SignOffRules ----+------ CaseLifecycle  (abstract specification)
      (predicates)   |          ^        ^
                     |          |        |  refinement
                     +-- CaseService   CaseWorkflow -- Guardrails (pure operators)
                            |              |
                       MCCaseService   MCCaseWorkflow
                            |              |
                  CaseServiceProofs    CaseWorkflowProofs

    AuditChain -- MCAuditChain, AuditChainProofs

    KnowledgeBase --+
                    +-- Investigation -- MCInvestigation
    ClaimChecks ----+
      (on Guardrails)

    Reconciliation --+   (also on Guardrails)
    KycMatching -----+-- Engines -- MCEngines
    Behaviour -------+
    AnomalyModel ----+

    Filters -- Reconciliation, SyntheticAnomalies
    Engines, Investigation, Filters -- AdviceProofs

    Reconciliation ------+
    SyntheticAnomalies --+-- SyntheticLedger -- MCSyntheticLedger

    Engines, SyntheticLedger, Filters -- BooksProofs

    Filters --+-- DataPipeline -- MCDataPipeline, DataPipelineProofs
              +-- Access -- MCAccess

    Console -- MCConsole
    Console, Access -- AccessProofs

**SignOffRules** holds the predicates of `sign_off_case` (reviewer, reason, status, four
eyes). People are compared after `casefold()` in the code, so a person is a model value; a
reason is abstracted to whether anything is left after `strip()`.

**CaseLifecycle** is the abstract specification of a case: absent, analysis, review, closed
(or failed). It says nothing of requests, threads or rows. It allows a decision on a closed
case, because the code does (section 5), and never a verdict to escalate with one person.
Both `CaseService` (for every case at once) and `CaseWorkflow` (for its one case) implement it.

**CaseService** models the requests, the database and the job. Correspondence:

| In the module | In the code |
|---|---|
| `row`, `trail` | tables `cases` and `audit_events`, committed values only |
| `pc`, `op`, `seen`, `base` | a request thread: how far its handler is, its body, the row it loaded, the last number it read |
| `wpc`, `wcase`, `wbase`, `wresult`, `queue` | the worker thread in `run_case_job`, the executor's queue |
| `engine` | loader thread and readiness; "down" while the process does not run |
| `CreateCheck`, `CreateInsert`, `CreateSubmit` | `create_case`: its refusals (503, 404, 422, 409); insert and commit; submit |
| `ReadCase`, `ReadLast`, `CommitRead` | `get_case` and `audit_trail`: load, read the last number, append and commit |
| `Decide`, `FlushDecision`, `CommitDecision` | `sign_off`, `confirm_escalation`, `reject_escalation`: checks against the loaded row; the UPDATE that takes the lock; events and commit |
| `StartJob`, `SaveRunning`, `FlushResult`, `CommitResult`, `MarkFailed` | the job: its two saves, the error handler |
| `RequestFault`, `JobFault`, `Crash`, `Stop`, `Restart`, `EngineLoaded` | a database error, a crash, lifespan's end and start, the loader |

The grain is one action per database statement that another transaction can see or that can
block. A SELECT sees the last committed values. The first UPDATE or INSERT takes a lock until
commit: of the whole database (SQLite) or of the row (PostgreSQL); `LockScope` chooses. That
the answer is sent when the transaction commits is FastAPI's behaviour since 0.115 for
dependencies with `yield`; at most one process serves the API, as the compose file deploys it.

**Guardrails** holds the pure operators of `engine_floor`, `check_policies` and
`SelfCritique.review` in the default configuration. Evidence is a set of items of which only
what the checks read is kept. What `evidence_validator.py` makes of the texts is an input: an
answer carries the verdicts its claims will get.

**CaseWorkflow** models one case from request to sign-off: each step of `run` is an action
that does what the agent may return, what is merged, the status and the event; `Fail(i)` is
`_fail` for step i, with or without a report. An evidence identifier is the triple of kind,
subject and rule that the code formats into `REC-<transaction>-<rule>` and so on. The engines
and the model are constants: sets of what they may return.

**AuditChain** models `append_events` and `verify_chain` on the rows of one case, while
something other than the program deletes, edits, exchanges or renumbers rows. A hash is
abstracted to the sequence of everything that went into it, which is SHA-256 without
collisions. `appended` is a ghost: every trail the program has written.

**DataPipeline** models `run_pipeline` row by row: the manifest check, `validate_records` with
its order of tests (`MissingKey`, `ExactDuplicate`, `KeyConflict`, `FirstOfItsKey`), the
consolidation loops (`Keep`, `Orphan`, `Unusable`), the report, the start of the agents and
`build_case`, which is given a list of identifiers and takes each as often as it is named. A row
is a key, a reference, a time, white space and a body that says what the schema and the
normalisation will make of the other columns.

**Filters** defines what a filter or a stable sort returns without a fold: the n-th entry of
the result is the n-th member of an index set. The prover cannot unfold `SelectSeq` and
`SortSeq`; it can reason about these, and TLC evaluates them. The module proves that the result
holds each chosen entry once, in the order of its key and, among equal keys, of its place.
DataPipeline filters and sorts with it, Access filters the times in the throttle's lists, and
Reconciliation and SyntheticLedger sort postings, and SyntheticAnomalies the rows by time.

**SyntheticAnomalies** and **SyntheticLedger** model `generate_dataset` from the normal rows on:
four edits, three kinds of episodes, the stable sort by time, identifiers and labels, then the
ledger with its six kinds of discrepancy, its sort and its labels, and at last the evaluation
of the reconciliation engine against them. A draw from a range is one of its ends; a rate is
given as the total it comes to.

**Reconciliation** holds matching, the ten rules with their severities and the agent's
evidence, in tenths of cents and days (or seconds, under SyntheticLedger). **KycMatching** has
normalised names and addresses, the structured score in hundredths, shortlists, ranking and
the auditor's finding; how alike two strings are is a table. **Behaviour** has the causal
features of `build_features` as the code computes them, by sorting, packed keys, running sums
and binary search, the evidence that tells analysts the same, and the governance checks.
**AnomalyModel** has the temporal split with its purge, the choice of the threshold and early
stopping. **Engines** calls each of them with every input of its sets; `Behaviour`'s rows
arrive one after another, so a figure can be compared before and after a later row, and a
model is trained one epoch per step.

**KnowledgeBase** holds loading, sections, chunking, building and the filtered search with
reciprocal rank fusion; the two rankings of a query are inputs. A file that is no document is
rejected; one that cannot be opened at all leaves no base. **ClaimChecks** is
`evidence_validator.py`: a text is a set of phrases, a phrase the tokens it yields, and the
order of the checks is the code's. **Investigation** composes both with retrieval, the prompt,
the ask-validate-repair loop and the critique: phases "new", "built", "retrieving", and so on
to "reviewed". A local model may answer anything or fail; the mock provider answers as coded.

**Access** models the limiter statement by statement. A Python list that only its maker
appends to is the times in it and the thread that may still append. Users are rows; looking
up, inserting and committing are steps. `log`, `cleared` and `overlapped` are ghosts.

**Console** models one tab: session, selected case, the view with its number `mount`, the
panel's `busy`, and the requests and answers under way. The service serves them in any order and
loses some. A decision is served in two steps as `cases.py` does it: `Serve` loads the row and
checks it, `Commit` saves the columns that differ from the loaded row (`Saved`) and answers.
Other analysts decide in the same two steps (`OtherLoads`, `OtherCommits`; `theirs` holds what
they have loaded), so everything may happen between anybody's check and save. A `CaseView` is
remounted for every case and session; answers to earlier ones are dropped, except that any 401
signs out.

## 3. What the runs check

A run marked *stops* switches deadlock checking off because the modelled system comes to rest
(every request is answered once; a signed-off case stays as it is; an engine has answered; a
bound is reached). `ServiceInvariant` and `WorkflowInvariant` include the types.

| Run | Instance | States | Shows |
|---|---|---|---|
| service_safety (stops) | 1 case, 2 analysts, 4 requests, row locks, 2 kinds of result | 222,744 | `TrailIsContiguous`, `FourEyes`, `OverrideIsRecorded`, `VerdictMatchesTrail`, `ProposalMatchesTrail`, `ClosedIsFinal` |
| service_failures (stops) | 3 requests, an observer, 1 crash, 1 stop, 2 database errors | 88,925 | `ServiceInvariant`, `JobOnlyAdvances`, `ImplementsLifecycle` |
| service_liveness (stops) | 2 cases, 3 requests, 1 error, row locks, fair threads | 59,665 | `EveryRequestIsAnswered`, `OnlyAMeetingViewCostsReview`, `EveryJobSettles`, `ImplementsFairLifecycle` |
| workflow (stops) | 2 transactions, 1 document, requests of up to 2 transactions, 4 findings per engine, 7 answers | 752,413 | `TrailReplays`, `FailureReachesReviewer`, `FactsAreBacked`, `ValidatedIsSound`, `ReviewedAdviceIsBounded`, `ClearIsWarned`, `WorkflowInvariant`, `ImplementsLifecycle` |
| audit_chain | 4 rows, batches of 2, 2 damages, 2 kinds of event | 151,876 | `VerifiedIsAuthentic`, `EventsBeforeTheBadOneAreAuthentic`, `NoFalseAlarm` |
| records (stops) | files of up to 4 rows, at most 2 in a table, of 4 to 6 kinds each; lists of up to 2 transactions, repeats included | 479,134 | `PipelineInvariant`, `EveryRowIsAccountedFor`, `CaseIsOfThePast` |
| ledger (stops) | 2 customers, 2 to 17 transactions, up to 16 anomalies of each kind or two kinds; ledgers of 2 transactions with up to 2 discrepancies | 53,473 | `InjectionsAreFound`, `LabelsNameTheRecord` |
| engines (stops) | a payment with up to 2 postings around every boundary, 4 customers and 45 documents, 4 rows of 2 customers, splits of up to 5 rows and 2 episodes, 6 epochs | 79,326 | `ReconciliationIsFaithful`, `DoubtForcesReview`, `OnlyThePastCounts`, `FittingIsSound` |
| investigation (stops) | sections of up to 5 sentences, 4 chunks in every ranking, 3 answers, claims of up to 2 phrases with any citations | 32,991 | `KnowledgeIsWhole`, `OnlyTheBestTrustedIsShown`, `AcceptedAdviceIsEarned` |
| console (stops) | 1 case, 2 kinds of advice, 1 other analyst, 2 requests under way, 2 views, 2 sessions, 1 lost request, 1 decision of the other analyst | 779,304 | `DecisionsRestOnWhatWasShown`, `ViewCatchesUp` |
| access (stops) | 2 threads and the script, 1 host, 2 names, 2 passwords, lock-out after 2, 4 requests, 2 times | 2,847,444 | `LockoutIsEarned`, `AccountIsCreatedOnce` |

Why the bounds are enough:

* Four requests hold a creation and three overlapping decisions, the most that two
  proposals, a confirmation and a rejection need to interfere; two analysts are the least for
  four eyes, and with two who may each act twice every order of who does what occurs. Safety
  runs use symmetry between requests and between analysts; the liveness run does not.
* Row locks are what PostgreSQL has, which the compose file deploys, so safety and liveness are
  checked under them. They let more overlap than the database lock of SQLite: only there can a
  view that commits between the job's read of the last number and its commit
  (`StoringMeetsAView`) cost the analysis without any database error. With `LockScope =
  "database"` in `ServiceLiveness.cfg` the same properties hold.
* `OneMishap` is the condition of `EveryJobSettles` and of the fair half of
  `ImplementsFairLifecycle`: no database error, or no view that meets the storing. Both together
  do leave a case open (section 5). One fault and three requests hold each mishap alone, and
  both.
* Two faults are a failing job and its failing error handler; a crash and a stop each occur
  with a restart after them.
* Two transactions give a request with none, one, two, the same twice and an unknown one. The
  four finding sets are nothing, a medium finding, a status observation and a double posting
  with an observation; the answers hold each action with each kind of claim that matters.
* Two differing events tell an alteration; two damages can try to hide one by the other.
* Two rows in a table hold a first row and one that repeats, contradicts or follows it; four
  in all hold a chain of references through the tables and a break in it. The rows include
  one of every way a row can be refused. A case is asked for with up to two transactions
  (`MaxFocus`): none, one, two in either order, and one twice.
* Files of the knowledge base include one of every reason for a rejection, and dangling and
  forbidden ones with and without what rejects a file before it is opened.
* The data sets of the generator are smaller than the 500 rows the code asks for: its rounding
  of quotas, picking and episodes do not depend on the size, and 17 rows hold the shortest
  episode of each kind. One customer's account starts late, so episodes meet both ends of the window.
* Engines are pure: their inputs are taken at and next to every constant they compare with.
  Constants are the code's where the boundaries matter and smaller where only their order does
  (windows of 0, 1 and 3 days, a shortlist of 3, chunks of 4 words, up to 2 of overlap).
* A search asks for one chunk, or for two where each ranking is cut after one (`CandidateK`);
  with two trusted and two untrusted chunks in every order of both rankings, forbidden chunks
  can take every place before the cut.
* Two threads in the limiter have every overlap of its three statements; four requests reach
  the lock-out, pass the window and try again. Threads and passwords are symmetric there.
* Two requests under way are a poll and a click, or two polls or clicks, in either order of
  serving and of arriving; one decision of somebody else may be loaded and saved anywhere among
  them, also between the check and the save of the page's own.

### Fairness

`CaseService!FairSpec` asks weak fairness of the worker thread and of every request thread
that has arrived: the interpreter schedules its threads, and a lock that is held is given
back by a commit or rollback that the same fairness brings about. No fairness is asked of
people (nobody need send a request), of faults, or of the loader: the engine may never become
ready, and then no case is created. `CaseWorkflow!Spec` asks weak fairness of `Run`, one loop
of one thread; an agent that never returns is outside the model. Crashes are bounded by zero
in the liveness run because a crash loses queued jobs for ever (section 5). `Console!ConsoleSpec` asks
weak fairness of the view's timer, of serving some request, committing some decision and
delivering some answer, and of the analysis, which is what service_liveness shows of it as long as
there is one mishap at most; nothing of people, of other analysts' requests, of lost requests or
of sessions ending.

## 4. What is proved

TLAPS checks the following for every value of the constants, so for any number of people,
cases, requests, faults and crashes, for both kinds of lock, for any history, documents, engine
results and answers of the model, for trails and batches of any length, for any number of
threads, hosts and names, any limits and any number of failed sign-ins, for any number of views,
sessions and other analysts, for data files of any length, for any customers, documents and
similarities of names, for any payments, ledgers and tolerances, for data sets
of any length and any scores, for synthetic data of any length, mix and draws, and for any model,
evidence and knowledge base. The only assumptions are
the named ASSUMEs of the modules, which TLC evaluates in the runs: identifiers are distinct,
limits are numbers; a table of a file is a finite sequence of rows with the columns of the module
(`FilesAssumption`); a similarity is a number, a customer has finitely many alternate names, and
at least two results are looked at (`InputsAssumption`, `MatcherAssumption`; `TOP_N` is 5); the
identifiers of payments and of the postings of a ledger are distinct, a case has finitely many
transactions, and a time is not negative (`LedgersAssumption`, `ToleranceAssumption`); a row has
the columns of its table, times and amounts are numbers and scores are not negative
(`RowsAssumption`, `FitAssumption`); a customer's code is a larger step of the packed key than any
two times and a window are apart (`KeysAssumption`; the code shifts by 2^32 seconds); a source is a
list of files, a file a list of headings with sentences, and both rankings of a query have every
chunk once (`SourcesAssumption`, `RankingsAssumption`: argsort of all scores, and a vector store
taken as exact); the
numbers in evidence are numbers, a phrase says something, with at most two decimals, and what
the schema lets through has one of the three actions (`ScenesAssumption`). Of the synthetic data:
normal rows have their columns and lie in the window or less than a minute behind its last
midnight, as `generate_normal` adds up to 59 seconds to a time of the last day
(`BaselineAssumption`), a rate and a mix come
to natural numbers (`AnomalyMixAssumption`, `LedgerMixAssumption`), draws lie in the ranges of the
code (`DrawnAssumption`, `FactorsAssumption`: a contradictory amount is off by two percent at least;
`CurrencyAssumption`), identifiers tell transactions apart (`IdsAssumption`; TLC uses `ToString`),
texts are texts (`TextsAssumption`), and the engine is configured as by default, so that a natural
delay is in time, a late one is not and the tolerance is a cent (`DefaultsAssumption`).

| Theorem | States |
|---|---|
| `CaseServiceProofs!ServiceTypes` | `Spec => []TypeOK` |
| `CaseServiceProofs!DecisionsFollowAnalyses` | `Spec => []DecisionFollowsAnalysis` |
| `CaseServiceProofs!JobsOnlyAdvance` | `Spec => JobOnlyAdvances` |
| `CaseServiceProofs!ClosedStaysClosed` | `Spec => ClosedIsFinal` |
| `CaseServiceProofs!TrailsAreContiguous` | `Spec => []TrailIsContiguous` |
| `CaseServiceProofs!EscalationsHaveFourEyes` | `Spec => []FourEyes` |
| `CaseServiceProofs!OverridesAreRecorded` | `Spec => []OverrideIsRecorded` |
| `CaseServiceProofs!VerdictsMatchTrails` | `Spec => []VerdictMatchesTrail` |
| `CaseServiceProofs!ProposalsMatchTrails` | `Spec => []ProposalMatchesTrail` |
| `CaseServiceProofs!InvariantHolds` | `Spec => []ServiceInvariant` |
| `CaseServiceProofs!ServiceImplementsLifecycle` | `Spec => Lifecycle!Safe` |
| `CaseWorkflowProofs!WorkflowTypes` | `Spec => []TypeOK` |
| `CaseWorkflowProofs!InvariantHolds` | `Spec => []WorkflowInvariant` |
| `CaseWorkflowProofs!TrailAlwaysReplays` | `Spec => []TrailReplays` |
| `CaseWorkflowProofs!FailuresReachReviewer` | `Spec => []FailureReachesReviewer` |
| `CaseWorkflowProofs!FactsAlwaysBacked` | `Spec => []FactsAreBacked` |
| `CaseWorkflowProofs!AdviceIsBounded` | `Spec => []ReviewedAdviceIsBounded` |
| `CaseWorkflowProofs!ValidatedReportsAreSound` | `Spec => []ValidatedIsSound` |
| `CaseWorkflowProofs!ClearIsAlwaysWarned` | `Spec => []ClearIsWarned` |
| `CaseWorkflowProofs!WorkflowIsALifecycle` | `Spec => Lifecycle!Safe` |
| `AuditChainProofs!ChainInvariant`, `ChainTypes` | the inductive invariant and `TypeOK` |
| `AuditChainProofs!AcceptedTrailsAreAuthentic` | `Spec => []VerifiedIsAuthentic` |
| `AuditChainProofs!EventsBeforeAreAuthentic` | `Spec => []EventsBeforeTheBadOneAreAuthentic` |
| `AuditChainProofs!NoAlarmIsFalse` | `Spec => []NoFalseAlarm` |
| `AccessProofs!AccountsCreatedOnce` | `Spec => []AccountIsCreatedOnce` |
| `AccessProofs!LockoutsAreEarned` | `Spec => []LockoutIsEarned` |
| `AccessProofs!DecisionsAreAsShown` | `ConsoleSpec => []DecisionsRestOnWhatWasShown` |
| `DataPipelineProofs!ThePipelineIsSound` | `Spec => []PipelineInvariant` |
| `DataPipelineProofs!RowsAreNeverLost` | `Spec => []EveryRowIsAccountedFor` |
| `DataPipelineProofs!CasesLookBack` | `Spec => []CaseIsOfThePast` |
| `AdviceProofs!DoubtIsNeverLost` | `EnginesSpec => []DoubtForcesReview` |
| `BooksProofs!ReconcilingIsFaithful` | `EnginesSpec => []ReconciliationIsFaithful` |
| `BooksProofs!InjectionsAreAlwaysFound` | `LedgerSpec => []InjectionsAreFound` |
| `BooksProofs!LabelsAlwaysNameTheRecord` | `LedgerSpec => []LabelsNameTheRecord` |
| `AdviceProofs!FittingIsAlwaysSound` | `EnginesSpec => []FittingIsSound` |
| `AdviceProofs!OnlyThePastEverCounts` | `EnginesSpec => []OnlyThePastCounts` |
| `AdviceProofs!KnowledgeStaysWhole` | `Spec => []KnowledgeIsWhole` (of Investigation) |
| `AdviceProofs!OnlyTheBestTrustedIsEverShown` | `Spec => []OnlyTheBestTrustedIsShown` (of Investigation) |
| `AdviceProofs!AcceptanceIsEarned` | `Spec => []AcceptedAdviceIsEarned` (of Investigation) |

**The service's invariant.** `FourEyes` is not inductive: a confirmation acts on a row it
loaded earlier. What makes it work is in `ServiceInvariant`:
`DecisionsArePermitted` (a decision in progress passed its checks against the row it has
loaded, not the present one), `RowsAreConsistent` (only a case whose job is done has a
proposal or verdict, in the table and in every loaded copy), `JobsAreDistinct` (a job is with
one request, in the queue or with the worker, never twice), `TrailNeedsRow`, and
`ProposalsAreRecorded` (whoever a stored or loaded proposal names has an event for it, and
events only accumulate). They are proved in layers, each using the one below: `Types`, then
`Jobs`, then `Trails`, then `Escalations`. The service_failures run checks the same formula.

What the trail says of the present row is one more layer, `TrailsTell`. Each of the three
properties looks at the *last* sign-off or escalation event, and a case can be decided more
than once, so none of them follows from what a single step writes. `Told` relates a row to its
trail: a stored override has its event, the last sign-off event is the stored verdict, and the
last escalation event is the stored proposal or what withdrew it. A step that appends other
events (a view, the events of the analysis) keeps it, because the positions of the events of a
kind stay what they were (`OtherEvents`, `QuietlyTold`). A decision keeps it only because its
row and its events are committed together, and because the numbers it appends after are still
the last ones: otherwise the unique key fails and neither is committed.

**The workflow's invariant.** A report is written once and read much later, so what it says has
to be tied to a state that no longer changes. `AdviceIsCurrent`: review and report are exactly
`Critique` and `Generate` of the present evidence and answer, and an answer without a review is
one whose review step failed. `EvidenceGrows`: what each step has examined is still there in
every later status and in every reviewed case. `FindingsAreEvidence`: findings are evidence and
what is grave in it is a finding. `TrailIsThere` and `TrailReplays` are inductive together.
From these, and the lemma `CritiqueBounds` that the critique is the highest of what model,
engines and claims ask for, the properties of the report follow in each single state.

**The accounts' invariant.** A row goes in only while no row has its name (`OneRowEach`), and
whoever was told 201 still has a row (`MadeAreThere`), so of two commits of one name the second
fails (`OneMakerEach`). What a request looked up before it inserts plays no part in this.

**The throttle's invariant.** A lock-out rests on a copy of a list that other threads go on
appending to. `Logged`: the times in a list, or in a thread's copy, are entries of the log of
failures, in its order and each used once, later than the last reset. So a refusal is always
backed by as many failures in the window, whatever overlapped. The other half, that enough
failures do refuse, holds only for keys whose sign-ins never overlapped (`OneAtATime`): then a
list also has *every* failure of the window (`Covered`), and whoever is let in counted fewer
than the limit (`Counted`, `LetInOK`). For overlapping sign-ins the second half is false
(section 5), which is why the ghost `overlapped` is in the property.

**The page's invariant.** `DecisionsRestOnWhatWasShown` speaks of the moment the service loads a
row for a decision, when page and case may long have parted. `Known`: a detail that shows a case
in review shows the advice the case still has, since no step gives a reviewed case other advice and
none takes it out of review but to close it (`Stays`). The hard step is a save: it writes over a
row that others have changed since it was loaded. So the invariant also ties every loaded row, of
the page and of others, to the present one (`Loaded`: same advice, and not closed unless the
present one is), and what the decision makes of it to what it was (`Follows`: same advice, and
closed if it was). As only columns that differ are written, no save opens a closed case, whatever lies between load and save; saving the
whole row would, and the mutant that does is caught. `NetOK` carries this through every request and
answer under way, together with the kind of dialog the decision was sent from; `PageOK` ties the
view on the screen to the case selected. A message of an earlier view can stay under way for
ever: that it is of another view, by number, is what keeps it off the page.

**The pipeline's invariant.** `TableOK` states, for each of the four tables and for any moment,
what the rows read so far have become, in terms of the *file* alone. `ReadFate` says of a row
whether it is the first of its key, repeats it, contradicts it, has no key or does not fit; the
accepted rows, the duplicates and the quarantine are exactly the rows of each fate, as sets and
as counts. `JudgedOf` says the same of the references, against the stored rows of the table
above. The counts are what the report adds up, so `Accounting` (the fates of a row are disjoint
and every row has one) gives that rows read are rows stored, duplicates and rows refused.
`Progress` and `Outcome` say what a phase has left behind: a table is judged only after all
above it are complete, and the agents start only if the report is sound. For `CaseIsOfThePast`
the lemmas `TheHistory` and `PartsOfCase` say that the focus is what was asked for, in order and as
often as it was asked for, and that the context is every other stored row of the customer in the
window, once. With every transaction come all its ledger records, later ones included: the
theorem promises nothing about their time, since `store.py:59-71` does not look at it.

**The chain's invariant.** `TableInv`: numbers ascend, and a hash stored in any row is one
the program has written (damage moves or deletes rows and edits contents but makes no hash).
`ReaderInv`: the events checked so far are exactly what the last passed hash stands for.
As a hash stands for its whole past, an accepted trail is one the program has written.
`NoFalseAlarm` is the converse and needs `AlarmInv`: as long as nothing outside the program has
touched the rows they are `Linked` (numbered without gap, each with the hash of the one before
and its own), and the reader's copy, taken before or after, is linked as well, so the check it
makes next passes.

**Doubt about a document.** The auditor looks at the first results only, so the argument is about
what it does not see. `RankingIsWhole`: a ranking has every candidate of the shortlist once, as an
injection into a finite set of its own size is onto; by descending score. So if the customer's own
record is not first, or no candidate, that is a concern already. If it is first, no candidate
outscores it, and another one that matches has at most the score of the second result, which is
then a match too and is shown (`DoubtIsSeen`). This takes two results: with one, nobody would
hear of the second match, and the property is false.

**What is reconciled.** The property says what the rules promise of the ledger as a set of
postings; the code sorts a list. `FirstCandidate`: the place of a posting is how many come before
it, so nobody comes before the first, and as identifiers are distinct the first is the one
`Primary` describes (`FirstIsPrimary`); `TheMatch` adds that there are extras just when there is
more than one. `WhatIsFound` turns each rule into a condition on the transaction and its posting,
and `ReconciledWhenAgreed` puts them together: no rule finds anything just when `Agree` holds and
the settlement is in order. Which pairs of rules exclude each other, and that a later look finds no
less, are comparisons of the same conditions. A reversed ledger has the same postings, counted by
a bijection (`ReversedLedger`), and the rules see no more of a match than the transaction, the
first posting and whether there is another (`SamePairSameFindings`). The evidence is attributed by
identifier, so nothing of the focus is counted as context only because identifiers are keys
(`FocusIsShown`).

**What is injected is found.** The property speaks of the end, where transactions, plan and ledger
have long been made; `BooksInv` carries to it what each step adds. `RowsType`: whatever is edited and
inserted, rows are rows, so the table has identifiers that differ and amounts of whole cents, at
least one (`TableTells`). `Planned`: the quotas are met exactly, and by `QuotasAddUp` they add up to
the total although each is rounded down. `BooksAgree`: a transaction has no posting if that is its
discrepancy, two if it is a duplicate and one otherwise, and each posting `Bears` the one
discrepancy it was planned and no other. `ContradictionShows` is the arithmetic of it: two percent of
an amount, rounded to cents, is more than a cent, because no amount is below a hundred cents. The
duplicate of a posting must be in time as well, which is why 29 seconds stand in
`DefaultsAssumption`. That the sort neither loses nor doubles a posting is `PickedOnce`
(`AllIsBooked`). From there on `WhatIsFound`, the lemma about the rules above, says which of
them fire (`CoreTells`), and the scores are differences of equal sets (`ScoresTell`). With a
tolerance of two cents, or a lag of eight days, the theorem is false; both stand in the
assumptions because the evaluation uses the defaults.

**What the labels say.** `LabelsInv` adds to `BooksInv` what the injector knows of its rows.
`DrawnFirst`: edits change rows in place and episodes go to the end, so the first rows are those
that were drawn, and whichever of them has no label is unchanged. `CountsAre` and `WithinQuotas`:
`realised` counts the labels of each kind and never exceeds the quota; an edit takes only rows
without a label (`Available`), so no label is overwritten. `PartiesApart`: a party given away is at
least `Pool` and below `fresh`, a drawn one is below `Pool`, and none is given away twice but within
an episode; it is inductive only because every edit and every episode moves `fresh` on by as many
parties as it used (`FreshAfterEdit`; the mutant that forgets it is caught). `EpisodesApart`: the
episodes of a kind are numbered from 0 without a gap, so their count is the next free number.
`WithinWindow`: an episode starts early enough to end inside the window, which is why profiles start
thirty days before its end, and a drawn row passes its end by less than a minute
(`BaselineAssumption`); the validation, which looks at the end of the day after, lets both in. The sort rearranges the rows (`SortedOnce`), so
`TableIsValid`, `LabelsAreCounted` and `NewPartiesAreNew` carry all of it to the table; that the
number of inserted rows was known before any was made (`InsertedRows`) and the episodes stop only when
their quotas are met gives the number of rows (`CountsReached`). For the ledger `LabelsName` says
which posting a label points to: the only one, or the later of two. `SecondIsExtra` shows that the
engine takes the same posting of the two for the extra one, because the doubled one is posted at
least a second later. The run ledger was also made with `RawInv`, `IsMaterialized` and `LabelsName` as invariants.

**How the models are fitted.** A boundary is a quantile with interpolation, and the parts only
follow one another in time because the first is never above the second: `QuantilesAscend`, from
the two parts of the product `tenths * (n - 1)`. That no episode is in two parts is what the purge
says, read in both directions. For the threshold, `F1` is a fraction that is compared by
multiplying out; `LessIsAnOrder` makes that an order and `BestExists` finds one of the finitely
many scores that none beats (the one that beats most). Any other threshold flags just what the
least score that reaches it flags, or nothing (`ThresholdsAreBest`). Training is an action per
epoch, so `BestSoFar` is inductive: what is kept is the best figure, and it is as many epochs old
as brought nothing.

**Advice that is accepted.** `Rounds`: there are at most `MaxAttempts` answers, an answer has the
error that parsing it gives, and only the last may have none. `Critiqued`: a review is the
critique of the present answer and evidence. The rest is about the operators. The validator looks
tokens up in a union of all cited items; `SupportedIsTold` and `ToldIsSupported` tie that to the
phrases one by one, `RoundingIsHalf` shows that "within half a unit of the last place" is the same
as "reads like this when rounded to as many places", and `VerdictOf` turns the cascade of early
returns into one condition per verdict. `VerdictsAreHonest` follows, with `OneMoreCitation` for
the fact that citing more never makes a verdict worse. `CritiqueIsEarned` carries the verdicts to
the acceptance: what is validated has no unsupported claim, a grounded summary, and no `CLEAR`
against the floor.

**What the figures count.** `Features` sorts all rows by customer and time, keeps running sums
along the sorted rows, and finds the start of a window by a binary search in the packed keys; the
property counts over a set of rows. A sum over a set is a fold, so `Filters` first derives what is
needed of one (`SumOfNone`, `SumTakesOut`, `SumRenames`) from its definition. The rows of one
customer are a block of the sorted ones, in order of their numbers, as the rows arrive in order of
time (`BehaviourInv`); a running sum at a place is the sum over all places up to it; and the search
stops at the first row of the customer inside the window, because a key of an earlier customer is
too small by `KeysAssumption`, which is false without the shift. So each figure is the sum or count
over `PriorRows`, and since a later row is in no set of prior rows, it changes nothing
(`LaterRowsChangeNothing`).

**What is loaded and cut.** A file that cannot be opened ends the load before there is anything,
so what is left to show is about sources all of which can be. Loading, sectioning and chunking are
folds over lists. `StepsExist`
shows that a fold of any step is a function of how many elements are done, and from then on an
invariant of the prefix is carried from n - 1 to n. For headings it is that the ids so far differ:
`SlugIsFree` finds a free number by the pigeonhole principle, so the search of `SectionId` ends.
For sentences it is `CutUpTo`: every chunk so far, and the one that grows, is a part
`units[a .. b]` of the section, the starts never go back, and together they reach up to n.
That gives all sentences, their order and, with the sums of words, the bound; `JoinedHolds` adds
the sentences of a short end that its predecessor does not have yet, which are exactly those after
its last one. `FlattenAddsUp` counts files, `FlattenTellsApart` carries different ids from
sections to documents to the whole base.

**What is found and shown.** A filter or cut of a ranking keeps its order (`PermittedKeepsOrder`,
`TakeKeepsOrder`). `EnoughIsFetched`: so many neighbours are asked for that the allowed ones among
them fill the answer whatever is dropped; with fewer (the mutant `FetchCrowded`) this fails. For the
hybrid mode the sum of two reciprocals must fall strictly when a chunk is behind another in both
rankings. Fractions are rounded down to a unit, so `NextIsWorthLess` shows that `Finest` is fine
enough for neighbouring places to differ, and a chunk that fell off a list loses more than nothing.
`ShownInv` says that the base is what `Build` makes of the scene's sources, the last search used
rankings of just these chunks, and a bundle is `Bundle` of what was retrieved; its proof is short,
as the operators carry the argument. The run investigation was also made with `ShownInv` as an
invariant.

**Only model-checked.** Everything about liveness and fairness (`EveryRequestIsAnswered`,
`OnlyAMeetingViewCostsReview`, `EveryJobSettles`, `ViewCatchesUp` and the fair half of
`ImplementsFairLifecycle`), which TLAPS does not support here. Every invariant of a passing run is
proved. TLC still adds something to the invariants: that the assumptions have instances, and that
the actions happen at all.

## 5. Disagreements with the documentation

The first has a run whose property states what the text says and which TLC finds violated.
For the others the property is at the end of `CaseService` or `CaseWorkflow`; a copy of
`DocAwaitingReview.cfg` (of `Workflow.cfg`) that names it as the only invariant shows the same.

* **A closed case can be decided again** (run doc_awaiting_review, `cases.py:188`). Two analysts
  load an open case, both pass the check, both get 200; the second decision replaces the
  first. `docs/api/api.md:42`: "The case must be awaiting review."
* **A view can cost an analysis** (`NoAnalysisIsDropped`, `jobs.py:32`). On PostgreSQL a view
  that commits between the job's read of the last number and its commit makes the job's
  transaction fail; the case is marked failed and the analysis is lost.
  `audit_chain.py:57-59` promises writers interleave "without dropping" events.
  `OnlyAMeetingViewCostsReview` shows that nothing else does while the database works.
* **A restart can leave a case running for ever** (`LostJobShowsQueued`, `jobs.py:28`; with
  `MaxCrashes = 1`). `docs/architecture/system-architecture.md:131-132`: "then shows `queued`".
* **Details without a view event** (`DetailsAreAudited`, `cases.py:221`). The answers of
  sign-off, confirm and reject carry personal details; `docs/api/api.md:17` says "each view
  is audited".
* **Advice below the engine floor** (`AdvisoryNeverBelowFloor`,
  `agents/report_generator/agent.py:148`). When the review step raises after an answer of
  CLEAR, the report advises CLEAR. `agents/contracts.py:145`: "never lower than the engine
  floor". `ClearIsWarned` shows what remains true: for grave findings the report carries the
  consistency warning.
* **A violation that does not raise** (`ViolationsRaiseToReview`,
  `guardrails/self_critique.py:63`). An ungrounded summary withdraws the validation and leaves
  CLEAR as the advice; lines 6-7 say violations "raise the advisory decision to at least REVIEW".

Observed while modelling, within what the modules allow, without a run of their own:

* A rejection that loaded the case earlier may be recorded on a case that has meanwhile been
  closed (`cases.py:266`); it changes nothing but the pending columns.
* A view that loses the race for a number fails with a database error instead of being
  answered (`audit_chain.py:61`).
* If the job's error handler fails too, the case stays queued or running (`jobs.py:44`). On
  PostgreSQL one database error is enough for that when a view has met the storing before.
* Of two overlapping decisions, both may be accepted, of the same analyst as well: what the page
  showed is compared with the row the service loads, and not with the one it saves over. The
  first disagreement above is one outcome of that.
* An escalation may be proposed with a blank reason, which no confirmation can then
  turn into a verdict, as the reason is checked only there (`cases.py:213`, `signoff.py`).
* A request that names a transaction twice is accepted (`workflow.py:107-112`) and always
  fails at the investigation, where duplicate identifiers raise (`prompts/investigation.py:87`).
* Deleting the last rows of a trail is not noticed by `verify_chain`: `VerifiedIsAuthentic`
  speaks of a trail the program has written, not of the latest one.
* The docstring of `build_case` promises "no future information"; transactions are cut at
  `as_of`, but ledger records posted after it enter the case (`store.py:59-71`). A transaction
  that is named twice is in the focus twice (`store.py:52`). `CaseIsOfThePast` states both.
* "A bad file is REJECTED WITH A REASON; it never aborts the load" (`loader.py:5-6`) does not hold of a file that cannot be opened: the `OSError` of `stat` or
  `read_bytes` (`loader.py:101,105`) is not among those caught in line 109, so a dangling link or
  a file without permission leaves no base. `KnowledgeIsWhole` says so (`NotBuilt`).
* Rows refused in the consolidation are quarantined with row number 0 (`pipeline.py:103`); a
  CSV row with more cells than columns ends the whole pipeline (`cleaner.py:29`).
* A correct row behind a refused one of the same key is quarantined as a conflict
  (`validator.py:57`); `EveryRowIsAccountedFor` states it as it is.
* A document whose own record comes first but below the threshold raises no floor
  (`policy_checks.py:101-109`).
* An injected episode may consist of one row, when that is all the quota has left; edits may
  fall short of their quota (`anomalies.py:94,128`).
* A chunk may exceed `max_words` by an overlap, a long sentence and a joined tail, and may
  repeat its predecessor wholly (`chunker.py:39-50`).
* The loader accepts document ids that the prompt refuses: every prompt that retrieves such a
  document raises (`loader.py:92-117`, `prompts/investigation.py:94`).
* A claim may cite a chunk that was withheld from the model, and may be supported by values
  from several items together (`self_critique.py:34-56`, `evidence_validator.py:319-336`).
* When two sign-ins of one name overlap, the limiter may lose a failure, or bring back ones that
  a success has cleared (`security.py:93-106`). `LockoutIsEarned` is therefore about keys whose
  sign-ins never overlapped where it says how many failures get through.
* A late 401 of an old session signs out the new one (`api.ts:34`); a page whose first load
  fails says so until the case is selected again (`CaseView.tsx:26-36`).
* A confirmation is about whichever escalation is pending when it is served, although it may
  not be the one that was shown (`cases.py:224-256`).

## 6. What is not modelled

* Numbers and texts behind the engines: weights and gradients, string and embedding
  similarity, BM25 scores, the regular expressions that find tokens, wording that looks like an
  instruction. Their results are inputs; the vector store's approximate search is taken as exact.
* Parsing and formatting of requests and rows, display columns, inbox and candidate lists, the
  case views of `case_views.py`: they change no state.
* Governance items (`ESG-...`) in the guardrails: no step of the workflow makes them. The
  weights of the governance score.
* Customers and KYC variations of the synthetic data (`customers.py`), and the drawing of normal
  rows: random text and numbers under a schema that DataPipeline covers.
* A knowledge base stored on disk and opened again: only tests do so.
* Password hashing and the encoding of tokens: library calls. The inbox list and the dialog for
  a new case in the frontend: nothing is decided there.
* The other evaluations and experiments, fine-tuning, deployment: scripts that run offline, and
  configuration. Every part is listed in `PROJECT.json` with its reason.

## 7. The plan

Every module planned is there, and every safety property the runs check is proved. Left to do:

1. A stage of `CaseWorkflow` that takes its findings from `Engines` instead of a set of them.
