---------------------------- MODULE DataPipeline ----------------------------
(***************************************************************************)
(* data_pipeline/pipeline.py: the four tables are verified against the     *)
(* manifest, read, cleaned and validated row by row, then consolidated     *)
(* into the store from which cases are built (consolidation/store.py).  A  *)
(* row that is refused goes to the quarantine with a reason, and the       *)
(* agents do not start over a quarantine (agents/context.py).              *)
(*                                                                         *)
(* A row keeps its key, the row of another table it refers to, a time and  *)
(* a body.  The body says what the schema and the normalisation will make  *)
(* of the other columns; two rows are equal when all four are.             *)
(***************************************************************************)
EXTENDS Integers, Sequences, FiniteSets, SequencesExt, Filters

CONSTANTS Files,        \* the contents the four tables may have
          ContextDays,  \* how far back a case looks (30 in the code)
          MaxFocus      \* bound: how many transactions are asked for

\* TABLE_FILES, and the table a row's reference is to.
Tables   == <<"customers", "kyc_records", "transactions", "ledger">>
Table    == {Tables[i] : i \in DOMAIN Tables}
RefersTo == [t \in Table \ {"customers"} |->
                 IF t = "ledger" THEN "transactions" ELSE "customers"]

None      == "None"       \* Python's None
NullToken == "NaN"        \* a cell that means there is no value

Body == {"good", "better",   \* two contents that the schema accepts
         "malformed",        \* the schema refuses it
         "unusable",         \* its name or document number normalises to nothing
         "ragged"}           \* it has more cells than the table has columns

ASSUME FilesAssumption ==
    \A f \in Files :
        /\ DOMAIN f = Table
        /\ \A t \in Table :
              /\ f[t] \in Seq({f[t][i] : i \in DOMAIN f[t]})
              /\ \A i \in DOMAIN f[t] :
                    /\ DOMAIN f[t][i] = {"key", "ref", "time", "body", "spaces"}
                    /\ f[t][i].body \in Body /\ f[t][i].time \in Int
ASSUME DaysAssumption == ContextDays \in Nat /\ MaxFocus \in Nat

\* clean_record: white space around a cell goes, a null token becomes None.
CleanCell(c) == IF c = NullToken THEN None ELSE c
Clean(r) == [r EXCEPT !.key = CleanCell(@), !.ref = CleanCell(@), !.spaces = FALSE]

\* What the models of schemas/domain.py accept; a reference is a string.
Valid(t, r) == r.body # "malformed" /\ (t # "customers" => r.ref # None)

\* The tables whose names and numbers are normalised.
Normalised == {"customers", "kyc_records"}

VARIABLES files,       \* the tables as they are on disk
          manifest,    \* "absent", or whether the checksums "match" or "differ"
          phase,       \* "verify", "read", "consolidate", "done" or "raised"
          at,          \* the table and the row the loop is at
          seen,        \* validate_records: the first row of every key
          accepted,    \* the rows that passed validation, by table
          duplicates,  \* exact_duplicates
          quarantine,  \* the rows refused, in order
          stored,      \* the rows of the ConsolidatedStore, by table
          report,      \* PipelineReport
          context,     \* the agents: not started, started or not, the end of their data
          case         \* the last case built, or why there is none

loop == <<phase, at, seen, accepted, duplicates, quarantine, stored>>
vars == <<files, manifest, loop, report, context, case>>

NoReport == [rows_read |-> {}, accepted |-> {}, duplicates |-> {}, reasons |-> {},
             without_ledger |-> 0, multiple_ledger |-> 0]
NoCase    == [kind |-> "none"]
NoContext == [state |-> "none", as_of |-> 0]

Init ==
    /\ files \in Files /\ manifest \in {"absent", "match", "differ"}
    /\ phase = "verify" /\ at = [table |-> 1, row |-> 1] /\ seen = <<>>
    /\ accepted = [t \in Table |-> <<>>] /\ stored = [t \in Table |-> <<>>]
    /\ duplicates = [t \in Table |-> 0] /\ quarantine = <<>>
    /\ report = NoReport /\ context = NoContext /\ case = NoCase

-----------------------------------------------------------------------------
(* Ingestion and validation.                                               *)

Fail == phase' = "raised" /\ UNCHANGED <<at, seen, accepted, duplicates, quarantine, stored>>

\* verify_manifest, before anything is read.
Verify ==
    /\ phase = "verify"
    /\ IF manifest = "differ"
       THEN Fail
       ELSE /\ phase' = "read"
            /\ UNCHANGED <<at, seen, accepted, duplicates, quarantine, stored>>
    /\ UNCHANGED <<files, manifest, report, context, case>>

T   == Tables[at.table]
Row == Clean(files[T][at.row])
Reading == phase = "read" /\ at.row \in DOMAIN files[T]

Refused(number, reason, r) ==
    Append(quarantine, [table |-> T, number |-> number, reason |-> reason, record |-> r])
NextRow == at' = [at EXCEPT !.row = @ + 1]

\* The surplus cells come as a list, which clean_value cannot clean.
RaggedTable ==
    /\ phase = "read" /\ at.row = 1
    /\ \E i \in DOMAIN files[T] : files[T][i].body = "ragged"
    /\ Fail
    /\ UNCHANGED <<files, manifest, report, context, case>>

Cleaned == \A i \in DOMAIN files[T] : files[T][i].body # "ragged"

MissingKey ==
    /\ Reading /\ Cleaned /\ Row.key = None
    /\ quarantine' = Refused(at.row, "missing_primary_key", Row)
    /\ NextRow
    /\ UNCHANGED <<files, manifest, phase, seen, accepted, duplicates, stored,
                   report, context, case>>

Repeats(r) == r.key \in DOMAIN seen
\* (Seeded fault: the key alone makes a duplicate.)
SameRecordByKey(r) == TRUE
SameRecord(r) == seen[r.key] = r

ExactDuplicate ==
    /\ Reading /\ Cleaned /\ Row.key # None
    /\ Repeats(Row) /\ SameRecord(Row)
    /\ duplicates' = [duplicates EXCEPT ![T] = @ + 1]
    /\ NextRow
    /\ UNCHANGED <<files, manifest, phase, seen, accepted, quarantine, stored,
                   report, context, case>>

KeyConflict ==
    /\ Reading /\ Cleaned /\ Row.key # None
    /\ Repeats(Row) /\ ~SameRecord(Row)
    /\ quarantine' = Refused(at.row, "duplicate_key_conflict", Row)
    /\ NextRow
    /\ UNCHANGED <<files, manifest, phase, seen, accepted, duplicates, stored,
                   report, context, case>>

\* The key is taken before the model has seen the row.
FirstOfItsKey ==
    /\ Reading /\ Cleaned /\ Row.key # None
    /\ ~Repeats(Row)
    /\ seen' = [k \in DOMAIN seen \cup {Row.key} |-> IF k = Row.key THEN Row ELSE seen[k]]
    /\ IF Valid(T, Row)
       THEN /\ accepted' = [accepted EXCEPT ![T] = Append(@, Row)]
            /\ UNCHANGED quarantine
       ELSE /\ quarantine' = Refused(at.row, "schema_validation_failed", Row)
            /\ UNCHANGED accepted
    /\ NextRow
    /\ UNCHANGED <<files, manifest, phase, duplicates, stored, report, context, case>>

\* The end of a table; after the last, consolidation starts at the first.
EndOfTable ==
    /\ phase = "read" /\ Cleaned /\ at.row = Len(files[T]) + 1
    /\ seen' = <<>>
    /\ IF at.table = Len(Tables)
       THEN phase' = "consolidate" /\ at' = [table |-> 1, row |-> 1]
       ELSE at' = [table |-> at.table + 1, row |-> 1] /\ UNCHANGED phase
    /\ UNCHANGED <<files, manifest, accepted, duplicates, quarantine, stored,
                   report, context, case>>

-----------------------------------------------------------------------------
(* Consolidation: the four loops of run_pipeline, in the order of Tables.  *)

Keys(rows) == {rows[i].key : i \in DOMAIN rows}

\* (Seeded fault: a reference to a row that was only accepted will do.)
KnownAccepted(t, r) == t # "customers" => r.ref \in Keys(accepted[RefersTo[t]])
Known(t, r) == t # "customers" => r.ref \in Keys(stored[RefersTo[t]])
Usable(t, r) == t \in Normalised => r.body # "unusable"

Consolidating == phase = "consolidate" /\ at.row \in DOMAIN accepted[T]
Candidate     == accepted[T][at.row]

Keep ==
    /\ Consolidating /\ Known(T, Candidate) /\ Usable(T, Candidate)
    /\ stored' = [stored EXCEPT ![T] = Append(@, Candidate)]
    /\ NextRow
    /\ UNCHANGED <<files, manifest, phase, seen, accepted, duplicates, quarantine,
                   report, context, case>>

\* The number of the row in its file is not known any more.
Orphan ==
    /\ Consolidating /\ ~Known(T, Candidate)
    /\ quarantine' = Refused(0, "orphan_reference", Candidate)
    /\ NextRow
    /\ UNCHANGED <<files, manifest, phase, seen, accepted, duplicates, stored,
                   report, context, case>>

Unusable ==
    /\ Consolidating /\ Known(T, Candidate) /\ ~Usable(T, Candidate)
    /\ quarantine' = Refused(0, "normalization_failed", Candidate)
    /\ NextRow
    /\ UNCHANGED <<files, manifest, phase, seen, accepted, duplicates, stored,
                   report, context, case>>

Elements(s) == {s[i] : i \in DOMAIN s}
Postings(id) == Where(stored["ledger"], LAMBDA r : r.ref = id)
CountOf(reason) == Cardinality({i \in DOMAIN quarantine : quarantine[i].reason = reason})

Report ==
    [rows_read  |-> [t \in Table |-> Len(files[t])],
     accepted   |-> [t \in Table |-> Len(stored[t])],
     duplicates |-> duplicates,
     reasons    |-> [reason \in {q.reason : q \in Elements(quarantine)} |-> CountOf(reason)],
     without_ledger  |-> Cardinality({k \in Keys(stored["transactions"]) : Len(Postings(k)) = 0}),
     multiple_ledger |-> Cardinality({k \in Keys(stored["transactions"]) : Len(Postings(k)) > 1})]

EndOfConsolidation ==
    /\ phase = "consolidate" /\ at.row = Len(accepted[T]) + 1
    /\ IF at.table = Len(Tables)
       THEN phase' = "done" /\ report' = Report /\ UNCHANGED at
       ELSE at' = [table |-> at.table + 1, row |-> 1] /\ UNCHANGED <<phase, report>>
    /\ UNCHANGED <<files, manifest, seen, accepted, duplicates, quarantine, stored,
                   context, case>>

-----------------------------------------------------------------------------
(* The store and its users.                                                *)

Latest(rows) == CHOOSE n \in {r.time : r \in rows} : \A r \in rows : r.time <= n
\* group_sorted: the transactions of a customer, oldest first.  (The second
\* sort key, the identifier, only makes the order of equal times definite.)
History(c) ==
    LET all == stored["transactions"]
        own == {i \in DOMAIN all : all[i].ref = c}
    IN  Pick(all, own, [i \in own |-> all[i].time])

\* build_context: max() of no transactions raises.
Start ==
    /\ phase = "done" /\ context = NoContext
    /\ context' = IF quarantine # <<>> THEN [state |-> "refused", as_of |-> 0]
                  ELSE IF stored["transactions"] = <<>> THEN [state |-> "raised", as_of |-> 0]
                  ELSE [state |-> "started", as_of |-> Latest(Elements(stored["transactions"]))]
    /\ UNCHANGED <<files, manifest, loop, report, case>>

\* (Seeded fault: the window has no end.)
InWindowOpen(r, as_of) == as_of - ContextDays <= r.time
InWindow(r, as_of) == as_of - ContextDays <= r.time /\ r.time <= as_of

\* by_id of a list of identifiers, a transaction as often as it is named.
ById(history, ids) == [n \in DOMAIN ids |-> CHOOSE r \in Elements(history) : r.key = ids[n]]

\* build_case.  A transaction comes with all its ledger records; asked is the
\* list the case is made for, which the case state keeps.
CaseOf(c, ids) ==
    LET history == History(c)
        named   == ById(history, ids)
        focus   == Pick(named, DOMAIN named, [n \in DOMAIN named |-> named[n].time])
        as_of   == Latest(Elements(focus))
        others  == Where(history, LAMBDA r : r.key \notin Elements(ids) /\ InWindow(r, as_of))
    IN  IF c \notin Keys(stored["customers"]) THEN [kind |-> "unknown customer"]
        ELSE IF Elements(ids) \ Keys(history) # {} THEN [kind |-> "not found"]
        ELSE IF ids = <<>> THEN [kind |-> "no focus"]
        ELSE [kind |-> "case", of |-> c, asked |-> ids, as_of |-> as_of,
              focus |-> focus, context |-> others,
              documents |-> Where(stored["kyc_records"], LAMBDA r : r.ref = c),
              postings  |-> [k \in Keys(focus) \cup Keys(others) |-> Postings(k)]]

Build(c, ids) ==
    /\ phase = "done" /\ case = NoCase
    /\ case' = CaseOf(c, ids)
    /\ UNCHANGED <<files, manifest, loop, report, context>>

\* Without a request the focus is the customer's latest transaction.
BuildLatest(c) == Build(c, IF History(c) = <<>> THEN <<>> ELSE <<Last(History(c)).key>>)

Asked(t) == {CleanCell(files[t][i].key) : i \in DOMAIN files[t]} \cup {"X"}
BuildCase == \E c \in Asked("customers") :
                 BuildLatest(c) \/ \E n \in 0 .. MaxFocus :
                     \E ids \in [1 .. n -> Asked("transactions")] : Build(c, ids)

Next == \/ Verify
        \/ RaggedTable \/ MissingKey \/ ExactDuplicate \/ KeyConflict \/ FirstOfItsKey
        \/ EndOfTable
        \/ Keep \/ Orphan \/ Unusable \/ EndOfConsolidation
        \/ Start \/ BuildCase

Spec == Init /\ [][Next]_vars

-----------------------------------------------------------------------------
(* PROPERTIES                                                              *)

TypeOK ==
    /\ manifest \in {"absent", "match", "differ"}
    /\ phase \in {"verify", "read", "consolidate", "done", "raised"}
    /\ at \in [table : DOMAIN Tables, row : Nat \ {0}]
    /\ duplicates \in [Table -> Nat]
    /\ \A t \in Table : /\ \A r \in Elements(accepted[t]) : Valid(t, r) /\ r.key # None
                        /\ Elements(stored[t]) \subseteq Elements(accepted[t])
    /\ \A q \in Elements(quarantine) : q.table \in Table /\ q.number \in Nat
    /\ context.state \in {"none", "started", "refused", "raised"}

\* Every key is stored once and every stored reference is to a stored row,
\* however the failures of one table cascade into the next; what is called an
\* orphan refers to nothing stored (pipeline.py:103-154).
StoreIsConsistent ==
    /\ \A t \in Table : IsInjective([i \in DOMAIN stored[t] |-> stored[t][i].key])
    /\ \A t \in Table \ {"customers"} :
           \A r \in Elements(stored[t]) : r.ref \in Keys(stored[RefersTo[t]])
    /\ \A q \in Elements(quarantine) : q.reason = "orphan_reference" =>
           q.record.ref \notin Keys(stored[RefersTo[q.table]])

\* The agents never work over a quarantine, nor over files that do not match
\* the manifest, and no case reaches past the end of their data.
AgentsStartClean ==
    context.state = "started" =>
        /\ quarantine = <<>> /\ manifest # "differ"
        /\ case.kind = "case" => case.as_of <= context.as_of

PipelineInvariant == TypeOK /\ StoreIsConsistent /\ AgentsStartClean

\* What becomes of row i of table t, said without the loops: its place
\* among the rows of its key, then its body, then what it refers to.
First(t, i) == CHOOSE j \in 1 .. i :
                   /\ Clean(files[t][j]).key = Clean(files[t][i]).key
                   /\ \A k \in 1 .. j - 1 : Clean(files[t][k]).key # Clean(files[t][i]).key
Fate(t, i) ==
    LET r == Clean(files[t][i])
        f == Clean(files[t][First(t, i)])
    IN  IF r.key = None THEN "missing_primary_key"
        ELSE IF First(t, i) # i
             THEN IF f = r THEN "duplicate" ELSE "duplicate_key_conflict"
        ELSE IF ~Valid(t, r) THEN "schema_validation_failed"
        ELSE IF t # "customers" /\ r.ref \notin Keys(stored[RefersTo[t]]) THEN "orphan_reference"
        ELSE IF ~Usable(t, r) THEN "normalization_failed"
        ELSE "stored"

\* No row is lost and none is counted twice: each is stored, is an exact
\* duplicate of an earlier row, or is in the quarantine for the reason that
\* its place and its content give it.  In particular a correct row is only
\* refused behind an earlier row of its key, which may itself be a refused
\* one (validator.py:57), and the report's figures add up.
EveryRowIsAccountedFor ==
    phase = "done" =>
        \A t \in Table :
            LET of(fate) == {i \in DOMAIN files[t] : Fate(t, i) = fate}
            IN  /\ Elements(stored[t]) = {Clean(files[t][i]) : i \in of("stored")}
                /\ report.accepted[t] = Cardinality(of("stored"))
                /\ report.duplicates[t] = Cardinality(of("duplicate"))
                /\ \A reason \in {"missing_primary_key", "duplicate_key_conflict",
                                  "schema_validation_failed", "orphan_reference",
                                  "normalization_failed"} :
                       {q.record : q \in {p \in Elements(quarantine) :
                                              p.table = t /\ p.reason = reason}}
                         = {Clean(files[t][i]) : i \in of(reason)}
                /\ report.rows_read[t] = report.accepted[t] + report.duplicates[t]
                     + Cardinality({i \in DOMAIN quarantine : quarantine[i].table = t})

\* A case is one customer's.  Its focus is what was asked for, in order of
\* time and as often as it was asked for; its time is that of the latest of
\* them, and its context is every other transaction of the customer within the
\* window before that, once.  With each transaction come all its ledger
\* records and nobody else's, those posted after the time of the case too
\* (store.py:44-80; "no future information", line 40, is true of transactions).
CaseIsOfThePast ==
    case.kind = "case" =>
        /\ \A r \in Elements(case.focus) \cup Elements(case.context) :
               r.ref = case.of /\ r.time <= case.as_of
        /\ \E r \in Elements(case.focus) : r.time = case.as_of
        /\ Keys(case.focus) = Elements(case.asked)
        /\ \A k \in Elements(case.asked) :
               Cardinality({n \in DOMAIN case.focus : case.focus[n].key = k})
                 = Cardinality({n \in DOMAIN case.asked : case.asked[n] = k})
        /\ \A i, j \in DOMAIN case.focus : i < j => case.focus[i].time <= case.focus[j].time
        /\ Elements(case.context) =
               {r \in Elements(stored["transactions"]) :
                    /\ r.ref = case.of /\ r.key \notin Elements(case.asked)
                    /\ case.as_of - ContextDays <= r.time /\ r.time <= case.as_of}
        /\ IsInjective([i \in DOMAIN case.context |-> case.context[i].key])
        /\ Elements(case.documents) = {r \in Elements(stored["kyc_records"]) : r.ref = case.of}
        /\ DOMAIN case.postings = Keys(case.focus) \cup Keys(case.context)
        /\ \A k \in DOMAIN case.postings :
               Elements(case.postings[k]) = {r \in Elements(stored["ledger"]) : r.ref = k}
=============================================================================
