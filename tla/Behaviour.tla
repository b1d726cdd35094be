----------------------------- MODULE Behaviour -----------------------------
(***************************************************************************)
(* What is said of a transaction from its customer's past, three times     *)
(* over: the features of the anomaly model (anomaly_detection/features/    *)
(* builder.py), the evidence the analyst reads (llm/rag/evidence.py) and   *)
(* the governance indicators (esg/governance_scoring.py).                  *)
(*                                                                         *)
(* Rows are all transactions in order of time.  Logarithms, ratios and the *)
(* attributes of the transaction alone are left out; amounts are whole     *)
(* numbers of one currency.                                                *)
(***************************************************************************)
EXTENDS Integers, Sequences, FiniteSets, FiniteSetsExt

CONSTANTS Windows,              \* the lengths of WINDOWS, in seconds
          MinHistory,           \* MIN_HISTORY: 5
          SeqLen,               \* seq_len: 20
          KeyShift,             \* _KEY_SHIFT: 2^32
          StructuringWindow,    \* structuring_window_days: 30
          BandLow, BandHigh,    \* structuring: 9,000 and 10,000
          MinCount              \* structuring_min_count: 3

ASSUME BehaviourAssumption ==
    /\ Windows \subseteq Nat /\ {MinHistory, KeyShift, StructuringWindow} \subseteq Nat
    /\ SeqLen \in Nat \ {0}
    /\ BandLow < BandHigh /\ MinCount \in Nat \ {0, 1}

\* The counterparty is the receiver of an outgoing transaction and the sender
\* of any other.
Party(row)   == IF row.outgoing THEN row.receiver ELSE row.sender
Country(row) == IF row.outgoing THEN row.receiver_country ELSE row.sender_country

-----------------------------------------------------------------------------
(* build_features.  The rows are sorted by customer and then time; Place   *)
(* is where a row comes to stand, At the row that stands at a place.       *)

\* factorize numbers the customers as they first appear.
Code(rows, c) == Min({i \in DOMAIN rows : rows[i].cust = c})
SortsBefore(rows, i, j) ==
    LET a == Code(rows, rows[i].cust)
        b == Code(rows, rows[j].cust)
    IN  a < b \/ (a = b /\ (rows[i].time < rows[j].time
                            \/ (rows[i].time = rows[j].time /\ i < j)))
Place(rows) == [i \in DOMAIN rows |->
                   1 + Cardinality({j \in DOMAIN rows : SortsBefore(rows, j, i)})]
At(rows) == LET place == Place(rows)
            IN  [p \in DOMAIN rows |-> CHOOSE i \in DOMAIN rows : place[i] = p]

\* The first place of the customer who stands at p.
GroupStart(rows, at, p) == Min({q \in 1 .. p : rows[at[q]].cust = rows[at[p]].cust})

\* One number that sorts by customer and time.  (Seeded fault: by time only.)
SortKeyOfTime(rows, i) == rows[i].time
SortKey(rows, i) == Code(rows, rows[i].cust) * KeyShift + rows[i].time

\* searchsorted(keys, x, side="left")
SearchLeft(keys, x) == 1 + Cardinality({q \in DOMAIN keys : keys[q] < x})

\* Sums over earlier places of a group come as differences of running sums.
Running(rows, at, p) == SumFunctionOnSet([q \in DOMAIN rows |-> rows[at[q]].amount], 1 .. p - 1)

\* How many earlier rows share the key of the pth.
SameEarlier(keys, p) == Cardinality({q \in 1 .. p - 1 : keys[q] = keys[p]})

Features(rows, i) ==
    LET at    == At(rows)
        p     == Place(rows)[i]
        keys  == [q \in DOMAIN rows |-> SortKey(rows, at[q])]
        start == GroupStart(rows, at, p)
        left(w) == SearchLeft(keys, keys[p] - w)
        party(r)   == <<r.cust, Party(r)>>
        country(r) == <<r.cust, Country(r)>>
    IN  [n_prior  |-> p - start,
         count    |-> [w \in Windows |-> p - left(w)],
         sum      |-> [w \in Windows |-> Running(rows, at, p) - Running(rows, at, left(w))],
         total    |-> IF p - start < MinHistory THEN 0
                      ELSE Running(rows, at, p) - Running(rows, at, start),
         gap      |-> IF p = start THEN -1 ELSE rows[i].time - rows[at[p - 1]].time,
         newParty   |-> SameEarlier([q \in DOMAIN rows |-> party(rows[at[q]])], p) = 0,
         newCountry |-> SameEarlier([q \in DOMAIN rows |-> country(rows[at[q]])], p) = 0,
         repeats    |-> SameEarlier([q \in DOMAIN rows |->
                                        <<party(rows[at[q]]), rows[at[q]].amount>>], p),
         sequence |-> [k \in 1 .. SeqLen |->
                          LET source == p - (SeqLen - k)
                          IN  IF source >= start THEN at[source] ELSE -1]]

-----------------------------------------------------------------------------
(* behaviour_evidence and score_governance of row i.                       *)

History(rows, c) == {j \in DOMAIN rows : rows[j].cust = c}

Prior(rows, i) == {j \in History(rows, rows[i].cust) : rows[j].time < rows[i].time}

Evidence(rows, i) ==
    LET prior == Prior(rows, i)
    IN  [n_prior |-> Cardinality(prior),
         count   |-> [w \in Windows |-> Cardinality({j \in prior : rows[i].time - rows[j].time <= w})],
         seenParty   |-> \E j \in prior : Party(rows[j]) = Party(rows[i]),
         seenCountry |-> \E j \in prior : Country(rows[j]) = Country(rows[i]),
         repeats     |-> Cardinality({j \in prior : /\ rows[j].amount = rows[i].amount
                                                    /\ Party(rows[j]) = Party(rows[i])})]

Governance(rows, i) ==
    LET prior  == Prior(rows, i)
        inBand == {j \in prior \cup {i} : /\ rows[i].time - rows[j].time <= StructuringWindow
                                          /\ BandLow <= rows[j].amount /\ rows[j].amount < BandHigh}
    IN  [crossBorder |-> /\ ~\E j \in prior : Country(rows[j]) = Country(rows[i])
                         /\ rows[i].sender_country # rows[i].receiver_country,
         structuring |-> Cardinality(inBand) >= MinCount]

-----------------------------------------------------------------------------
(* What they promise.                                                      *)

\* The earlier rows of the same customer, in (timestamp, position) order.
PriorRows(rows, i) == {j \in 1 .. i - 1 : rows[j].cust = rows[i].cust}

\* The sorting, the running sums and the composite keys come to what one
\* would count by hand over the customer's earlier rows: nothing of another
\* customer and nothing later is in any feature, and no window reaches into
\* the rows of the customer that sorts before (builder.py:84-125,153-159).
FeaturesLookBack(rows, i) ==
    LET f     == Features(rows, i)
        prior == PriorRows(rows, i)
        within(w) == {j \in prior : rows[i].time - rows[j].time <= w}
        amounts == [j \in DOMAIN rows |-> rows[j].amount]
    IN  /\ f.n_prior = Cardinality(prior)
        /\ \A w \in Windows : /\ f.count[w] = Cardinality(within(w))
                              /\ f.sum[w] = SumFunctionOnSet(amounts, within(w))
        /\ f.total = IF f.n_prior < MinHistory THEN 0 ELSE SumFunctionOnSet(amounts, prior)
        /\ f.gap = IF prior = {} THEN -1 ELSE rows[i].time - rows[Max(prior)].time
        /\ f.newParty = ~\E j \in prior : Party(rows[j]) = Party(rows[i])
        /\ f.sequence[SeqLen] = i
        /\ {f.sequence[k] : k \in 1 .. SeqLen} \ {-1, i} \subseteq prior
        /\ \A k, l \in 1 .. SeqLen :
               k < l /\ f.sequence[k] # -1 => f.sequence[k] < f.sequence[l]

\* The analyst reads and the model scores the same past: unless two
\* transactions of the customer have one time, where the evidence only
\* counts strictly earlier ones, the figures are equal, and a country is new
\* to a customer once (evidence.py:120-146, governance_scoring.py:69-83).
PastIsTheSame(rows, i) ==
    LET f == Features(rows, i)
        e == Evidence(rows, i)
        g == Governance(rows, i)
        mine == History(rows, rows[i].cust)
    IN  /\ (\A j \in mine \ {i} : rows[j].time # rows[i].time) =>
               /\ f.n_prior = e.n_prior /\ f.count = e.count /\ f.repeats = e.repeats
               /\ f.newParty = ~e.seenParty /\ f.newCountry = ~e.seenCountry
               /\ g.crossBorder => f.newCountry
        /\ e.n_prior <= f.n_prior
        /\ \A j \in mine : /\ rows[j].time # rows[i].time /\ Country(rows[j]) = Country(rows[i])
                           => ~(g.crossBorder /\ Governance(rows, j).crossBorder)
=============================================================================
