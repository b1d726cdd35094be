----------------------------- MODULE MCEngines -----------------------------
(* Inputs at the ends of every range the engines tell apart.               *)
EXTENDS Engines

\* Reconciliation: amounts around the tolerance and both shares, postings
\* around both lags, one record of every kind or two of a few kinds.
payment(id, amount) == [id |-> id, amount |-> amount, currency |-> "USD",
                        reference |-> "r", time |-> 10]
MCPayments == {payment("t1", 10000), payment("t2", 300)}
record(id, t, amount, currency, reference, posted, settlement) ==
    [id |-> id, tx |-> t, amount |-> amount, currency |-> currency, reference |-> reference,
     posted |-> posted, settlement |-> settlement]
MCPostings ==
    {<<>>}
    \cup {<<record(1, "t1", a, c, f, p, s)>> :
             a \in {9995, 10000, 10015, 10025, 10090, 10100, 11000}, c \in {"USD", "EUR"},
             f \in {"r", "q", "None"}, p \in {9, 10, 13, 14, 19, 20},
             s \in {"settled", "pending", "failed"}}
    \cup {<<record(2, x, a, "USD", "r", p, "settled"), record(1, y, 10000, "USD", f, q, s)>> :
             x \in {"t1", "t2"}, y \in {"t1", "t2"}, a \in {300, 10000, 10100},
             f \in {"r", "None"}, p \in {10, 12}, q \in {10, 11, 14}, s \in {"settled", "pending"}}
MCAsOfs == {-1, 13, 14}

\* KYC: four customers, of whom a shortlist has three and the answer two.
\* Names are alike in so far as they share tokens in the same place.
name(before, comma, after) == [before |-> before, comma |-> comma, after |-> after]
MCSimilar(m, n) ==
    LET same == Cardinality({i \in DOMAIN m \cap DOMAIN n : m[i] = n[i]})
    IN  IF m = n THEN 100 ELSE IF same > 0 THEN 60 ELSE IF m[1] \in {n[i] : i \in DOMAIN n} THEN 40 ELSE 10
date(d, m) == [year |-> 1990, month |-> m, day |-> d]
place(parsed, number, city) == [parsed |-> parsed,
    parts |-> [number |-> number, street |-> "s", city |-> city, country |-> "x"]]
customer(n, alternates, d, a) == [name |-> n, alternates |-> alternates, dob |-> d, address |-> a]
plain(first, last) == name(<<first, last>>, FALSE, <<>>)
home == place(TRUE, 1, "c")
MCCustomers ==
    <<customer(plain("ana", "lee"), {name(<<"lee">>, TRUE, <<"anna">>), name(<<>>, FALSE, <<>>)}, date(3, 4), home),
      customer(plain("ana", "roy"), {}, date(4, 3), place(TRUE, 2, "c")),
      customer(plain("bob", "lee"), {}, date(3, 4), place(FALSE, 1, "c")),
      customer(plain("eve", "kim"), {plain("eve", "lee")}, date(5, 5), home)>>
document(n, d, a) == [name |-> n, dob |-> d, address |-> a]
MCDocuments ==
    {document(n, d, a) :
        n \in {plain("ana", "lee"), name(<<"lee">>, TRUE, <<"ana">>), plain("anna", "lee"),
               plain("eve", "roy"), plain("bob", "kim")},
        d \in {date(3, 4), date(4, 3), date(5, 5)},
        a \in {home, place(FALSE, 1, "c"), place(TRUE, 2, "d")}}

\* Behaviour: payments of two customers, at home and abroad, in and out.
row(c, amount, out, party, from, to) ==
    [cust |-> c, time |-> 0, amount |-> amount, outgoing |-> out,
     sender |-> IF out THEN c ELSE party, receiver |-> IF out THEN party ELSE c,
     sender_country |-> from, receiver_country |-> to]
MCNewRows == {row("a", 95, TRUE, "p", "US", "DE"), row("a", 10, TRUE, "q", "US", "US"),
              row("a", 95, FALSE, "p", "DE", "US"), row("b", 95, TRUE, "p", "US", "DE"),
              row("b", 10, FALSE, "q", "US", "US")}
=============================================================================
