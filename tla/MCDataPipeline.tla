--------------------------- MODULE MCDataPipeline ---------------------------
(* Small tables for DataPipeline: no more than MaxRows rows in all and two *)
(* in a table.  The rows are those that make a difference: two customers   *)
(* and two transactions to refer to, each kind of body, a missing key, a   *)
(* missing and a dangling reference, and a copy that differs in its spaces.*)
EXTENDS DataPipeline

CONSTANT MaxRows

row(k, ref, time, body) == [key |-> k, ref |-> ref, time |-> time, body |-> body, spaces |-> FALSE]
spaced(r) == [r EXCEPT !.spaces = TRUE]

C1 == row("c1", None, 0, "good")
T1 == row("t1", "c1", 1, "good")
T2 == row("t2", "c1", 3, "good")

Rows ==
    [customers    |-> {C1, spaced(C1), row("c1", None, 0, "better"), row("c1", None, 0, "malformed"),
                       row("c1", None, 0, "unusable"), row("c2", None, 0, "good")},
     kyc_records  |-> {row("d1", "c1", 0, "good"), row("d1", "c2", 0, "unusable"),
                       row(NullToken, "c1", 0, "good"), row("d2", NullToken, 0, "good")},
     transactions |-> {T1, T2, row("t1", "c1", 9, "good"), row("t3", "c2", 4, "good"),
                       row("t2", "c1", 3, "malformed")},
     ledger       |-> {row("l1", "t1", 5, "good"), row("l2", "t1", 2, "good"),
                       row("l1", "t2", 4, "good"), row("l3", "t3", 4, "ragged")}]

Tabs(t) == UNION {[1 .. n -> Rows[t]] : n \in 0 .. 2}
\* What Filters says without recursion is what the usual operators say.
ASSUME FiltersAssumption ==
    \A times \in UNION {[1 .. n -> 0 .. 2] : n \in 0 .. 4} :
        LET s == [i \in DOMAIN times |-> row(i, None, times[i], "good")]
            t == Pick(s, DOMAIN s, times)
        IN  /\ Where(times, LAMBDA n : n > 0) = SelectSeq(times, LAMBDA n : n > 0)
            /\ [i \in DOMAIN t |-> t[i].time] = SortSeq(times, <)
            /\ \A i, j \in DOMAIN t : i < j /\ t[i].time = t[j].time => t[i].key < t[j].key

MCFiles ==
    {f \in [customers : Tabs("customers"), kyc_records : Tabs("kyc_records"),
            transactions : Tabs("transactions"), ledger : Tabs("ledger")] :
        Len(f.customers) + Len(f.kyc_records) + Len(f.transactions) + Len(f.ledger) <= MaxRows}
=============================================================================
