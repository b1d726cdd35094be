------------------------- MODULE SyntheticAnomalies -------------------------
(***************************************************************************)
(* The transactions of a synthetic data set (data_pipeline/synthetic/):    *)
(* anomalies.py edits some of the normal rows and inserts episodes of new  *)
(* ones, generate.py puts all of them in order of time, gives them their   *)
(* identifiers and takes the labels off.                                   *)
(*                                                                         *)
(* Of a row only what the injector changes or looks at is kept; its times  *)
(* are seconds of the window, its amounts cents.  A draw from a range is   *)
(* one of its two ends.                                                    *)
(***************************************************************************)
EXTENDS Filters, FiniteSetsExt, SequencesExt

CONSTANTS Configs,       \* GeneratorConfig: rows, totals and mixes in percent
          Baselines,     \* what generate_normal may draw
          Profiles,      \* of every customer: home, currency, start and median
          WindowDays,    \* 60 or more
          Pool,          \* counterparties of normal rows are below it
          UnusualCountries,
          TxId(_)        \* the identifier and reference of the pth transaction

Hour == 3600
Day  == 24 * Hour
Edited   == <<"geo_change", "new_counterparty", "high_value", "unusual_time">>
Inserted == <<"burst", "abnormal_velocity", "repeated_transfers">>
AnomalyKinds == ToSet(Edited) \cup ToSet(Inserted)

\* A normal row has no label; the episode of another is its kind and a number.
NoAnomaly == ""
NoEpisode == <<>>
RawRow == [cust : DOMAIN Profiles, ts : Nat, amount : Int, out : BOOLEAN, cp : Int, country : STRING,
           kind : {NoAnomaly} \cup AnomalyKinds,
           episode : {NoEpisode} \cup (AnomalyKinds \X Nat)]

\* What build_profiles and generate_normal guarantee.  A day, a time of it and
\* up to 59 seconds are added up, so that a row may lie past the last midnight.
ASSUME BaselineAssumption ==
    /\ WindowDays \in Nat /\ WindowDays >= 60 /\ Pool \in Nat /\ UnusualCountries \subseteq STRING
    /\ \A c \in DOMAIN Profiles :
          /\ Profiles[c].start \in 0 .. WindowDays - 30 /\ Profiles[c].median \in Int
          /\ Profiles[c].home \in STRING \ UnusualCountries
    /\ \A b \in Baselines : b \in Seq(RawRow) /\ \A i \in DOMAIN b :
          /\ b[i].cp \in 0 .. Pool - 1
          /\ b[i].ts \in Profiles[b[i].cust].start * Day .. WindowDays * Day + 59
          /\ b[i].country \notin UnusualCountries
          /\ b[i].kind = NoAnomaly /\ b[i].episode = NoEpisode

\* A rate and a mix in percent give a total and its parts.
ASSUME AnomalyMixAssumption ==
    \A c \in Configs : c.anomalies \in Nat /\ c.anomaly_mix \in [AnomalyKinds -> Nat]

VARIABLES step,                 \* "inject", then the steps of the ledger
          config, normal,       \* the configuration, and the rows before injection
          raw,                  \* the rows so far
          edits,                \* kinds of edits that are done
          fresh,                \* the next counterparty nobody has used
          realised,             \* rows per kind of anomaly
          transactions,         \* the table, and its labels
          transaction_labels
rawVars == <<config, normal, raw, edits, fresh, realised, transactions, transaction_labels>>

\* plan_anomaly_quotas: what rounding leaves goes to high_value.
AnomalyQuotas(cfg) ==
    LET floor == [k \in AnomalyKinds |-> (cfg.anomaly_mix[k] * cfg.anomalies) \div 100]
    IN  [floor EXCEPT !["high_value"] = @ + cfg.anomalies - SumFunction(floor)]
InsertedRows(cfg) == SumFunctionOnSet(AnomalyQuotas(cfg), ToSet(Inserted))

StartDataset ==
    /\ step = "inject" /\ config \in Configs
    /\ normal \in {b \in Baselines : Len(b) = config.n - InsertedRows(config)}
    /\ raw = normal /\ edits = 0 /\ fresh = Pool
    /\ realised = [k \in AnomalyKinds |-> 0]
    /\ transactions = <<>> /\ transaction_labels = <<>>

-----------------------------------------------------------------------------
(* Edits of existing rows.                                                 *)

Draws == [geo_change |-> UnusualCountries, new_counterparty |-> {2, 4},
          high_value |-> {8, 30}, unusual_time |-> {Hour, 5 * Hour - 1}]

\* The nth of the rows that get this kind.
EditedRow(r, kind, draw, nth) ==
    LET labelled == [r EXCEPT !.kind = kind]
    IN  CASE kind = "geo_change"       -> [labelled EXCEPT !.country = draw]
          [] kind = "new_counterparty" -> [labelled EXCEPT !.cp = fresh + nth - 1, !.amount = @ * draw]
          [] kind = "high_value"       -> [labelled EXCEPT !.amount = @ * draw]
          [] kind = "unusual_time"     -> [labelled EXCEPT !.ts = @ - (@ % Day) + draw]

\* A row that has been picked is not available again; unusual times are not
\* for transfers only.
Available(kind) == {i \in DOMAIN raw : raw[i].kind = NoAnomaly /\ (raw[i].out \/ kind = "unusual_time")}
Picks(kind) ==
    kSubset(Min({AnomalyQuotas(config)[kind], Cardinality(Available(kind))}), Available(kind))

\* (Seeded fault: the counterparties that were given away are not counted.)
FreshAfterEditForgotten(kind, n) == fresh
FreshAfterEdit(kind, n) == IF kind = "new_counterparty" THEN fresh + n ELSE fresh

EditRows ==
    /\ step = "inject" /\ edits < Len(Edited)
    /\ LET kind == Edited[edits + 1]
       IN  \E rows \in Picks(kind) : \E draw \in [rows -> Draws[kind]] :
              /\ raw' = [i \in DOMAIN raw |->
                            IF i \in rows
                            THEN EditedRow(raw[i], kind, draw[i], Cardinality({j \in rows : j <= i}))
                            ELSE raw[i]]
              /\ fresh' = FreshAfterEdit(kind, Cardinality(rows))
              /\ realised' = [realised EXCEPT ![kind] = Cardinality(rows)]
    /\ edits' = edits + 1
    /\ UNCHANGED <<step, config, normal, transactions, transaction_labels>>

-----------------------------------------------------------------------------
(* Episodes of new rows.                                                   *)

Sizes == [burst |-> 5 .. 12, abnormal_velocity |-> 15 .. 30, repeated_transfers |-> 4 .. 8]

\* _episode: an episode starts so that it ends before the window does, and
\* its rows are even steps of the shortest or the longest length apart.
Starts(kind, cust) ==
    {(Profiles[cust].start + 1) * Day,
     (WindowDays - (IF kind = "repeated_transfers" THEN 25 ELSE 2)) * Day - 1}
Steps(kind, size) ==
    CASE kind = "burst"              -> {0, 599 \div size}
      [] kind = "abnormal_velocity"  -> {0, (Day - 1) \div size}
      [] kind = "repeated_transfers" -> {Day, 3 * Day - 1}

\* Its amounts are about the customer's median, and only rows of an abnormal
\* velocity go to one counterparty each.
Episode(kind, cust, size, start, apart, number) ==
    [i \in 1 .. size |->
        [cust |-> cust, ts |-> start + i * apart, amount |-> Profiles[cust].median, out |-> TRUE,
         cp |-> IF kind = "abnormal_velocity" THEN fresh + i - 1 ELSE fresh,
         country |-> Profiles[cust].home, kind |-> kind,
         episode |-> <<kind, number>>]]

Lacking(kind) == AnomalyQuotas(config)[kind] - realised[kind]
Waiting       == {k \in DOMAIN Inserted : Lacking(Inserted[k]) > 0}
Episodes(kind) == {raw[i].episode : i \in {i \in DOMAIN raw : raw[i].kind = kind}}

InsertEpisode ==
    /\ step = "inject" /\ edits = Len(Edited) /\ Waiting # {}
    /\ LET kind == Inserted[Min(Waiting)]
       IN  \E size \in {Min({Lacking(kind), n}) : n \in Sizes[kind]}, cust \in DOMAIN Profiles :
           \E start \in Starts(kind, cust), apart \in Steps(kind, size) :
              /\ raw' = raw \o Episode(kind, cust, size, start, apart, Cardinality(Episodes(kind)))
              /\ fresh' = fresh + size
              /\ realised' = [realised EXCEPT ![kind] = @ + size]
    /\ UNCHANGED <<step, config, normal, edits, transactions, transaction_labels>>

-----------------------------------------------------------------------------
(* The table.                                                              *)

\* materialize: a row as the public sees it.
Public(r) == [cust |-> r.cust, time |-> r.ts, amount |-> 10 * Max({100, r.amount}),
              currency |-> Profiles[r.cust].currency, party |-> r.cp, country |-> r.country]
WithIds(r, p) ==
    LET row == Public(r)
    IN  [id |-> TxId(p), reference |-> TxId(p), cust |-> row.cust, time |-> row.time, amount |-> row.amount,
         currency |-> row.currency, party |-> row.party, country |-> row.country]

LabelOf(r, p) == [id |-> TxId(p), kind |-> r.kind, episode |-> r.episode]

\* A stable sort by time.
Chronological(rows) == Pick(rows, DOMAIN rows, [i \in DOMAIN rows |-> rows[i].ts])

Materialize ==
    /\ step = "inject" /\ edits = Len(Edited) /\ Waiting = {} /\ step' = "plan"
    /\ LET sorted == Chronological(raw)
       IN  /\ transactions' = [p \in DOMAIN sorted |-> WithIds(sorted[p], p)]
           /\ transaction_labels' = [p \in DOMAIN sorted |-> LabelOf(sorted[p], p)]
    /\ UNCHANGED <<config, normal, raw, edits, fresh, realised>>

\* validate_tables, as far as it is about this table and its labels.
TransactionErrors ==
    {e \in {"not unique", "count", "customers", "window", "not sorted", "labels", "kinds"} :
        LET t == transactions
        IN  CASE e = "not unique" -> \E p, q \in DOMAIN t : p # q /\ t[p].id = t[q].id
              [] e = "count"      -> Len(t) # config.n
              [] e = "customers"  -> \E p \in DOMAIN t : t[p].cust \notin DOMAIN Profiles
              [] e = "window"     -> \E p \in DOMAIN t : t[p].time \notin 0 .. (WindowDays + 1) * Day - 1
              [] e = "not sorted" -> \E p \in 1 .. Len(t) - 1 : t[p].time > t[p + 1].time
              [] e = "labels"     -> {l.id : l \in ToSet(transaction_labels)} # {x.id : x \in ToSet(t)}
              [] e = "kinds"      -> \E l \in ToSet(transaction_labels) :
                                         l.kind \notin AnomalyKinds \cup {NoAnomaly}}

-----------------------------------------------------------------------------
(* What the labels promise to whoever learns from them.                    *)

Labelled_as(kinds) == {p \in DOMAIN transactions : transaction_labels[p].kind \in kinds}
Copies(row, rows)  == Cardinality({i \in DOMAIN rows : rows[i] = row})
Plainly(p) == LET t == transactions[p]
              IN  [cust |-> t.cust, time |-> t.time, amount |-> t.amount,
                   currency |-> t.currency, party |-> t.party, country |-> t.country]

\* As many rows as planned carry each label, or as many as there were
\* transfers to edit; rows without a label are normal rows as they were
\* drawn, and none is lost or doubled (anomalies.py:78-140, generate.py:49-63).
LabelsCount ==
    /\ \A k \in AnomalyKinds : /\ Cardinality(Labelled_as({k})) = realised[k]
                               /\ realised[k] <= AnomalyQuotas(config)[k]
    /\ \A k \in ToSet(Inserted) : realised[k] = AnomalyQuotas(config)[k]
    /\ LET drawn == [i \in DOMAIN normal |-> Public(normal[i])]
           same(p) == {q \in Labelled_as({NoAnomaly}) : Plainly(q) = Plainly(p)}
       IN  \A p \in Labelled_as({NoAnomaly}) : Cardinality(same(p)) <= Copies(Plainly(p), drawn)
    /\ Cardinality(Labelled_as({NoAnomaly} \cup ToSet(Edited))) = Len(normal)

\* A counterparty that was injected is new: no other row has it, but for the
\* rows of the same episode.  An episode is one customer's and of one kind.
NewIsNew ==
    \A p \in Labelled_as({"new_counterparty"} \cup ToSet(Inserted)), q \in DOMAIN transactions :
        LET l == transaction_labels[p]
            m == transaction_labels[q]
        IN  /\ transactions[p].party = transactions[q].party =>
                  p = q \/ (l.episode # NoEpisode /\ l.episode = m.episode)
            /\ l.episode # NoEpisode /\ l.episode = m.episode =>
                  l.kind = m.kind /\ transactions[p].cust = transactions[q].cust
            /\ (l.episode = NoEpisode) = (l.kind \notin ToSet(Inserted))

AnomaliesAreLabelled == TransactionErrors = {} /\ LabelsCount /\ NewIsNew
=============================================================================
