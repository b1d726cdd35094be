------------------------- MODULE MCSyntheticLedger -------------------------
(* Two customers, of whom one has an account only in the second half of    *)
(* the window, and the ends of every range that anomalies.py and ledger.py *)
(* draw from.  Ledgers are built for two transactions, with every mix of   *)
(* two kinds of discrepancy.                                               *)
EXTENDS SyntheticLedger

MCTxId(p) == ToString(p)

profile(home, currency, start) == [home |-> home, currency |-> currency, start |-> start, median |-> 12000]
MCProfiles == [a |-> profile("US", "USD", 0), b |-> profile("DE", "EUR", 30)]
normally(c, ts, amount, out, cp) == [cust |-> c, ts |-> ts, amount |-> amount, out |-> out, cp |-> cp,
                                     country |-> "DE", kind |-> NoAnomaly, episode |-> NoEpisode]
Noon == 12 * Hour
MCBaselines ==
    {<<normally("a", 0, 55, FALSE, 1), normally("a", 60 * Day + 58, 12345, TRUE, 1)>>,
     <<normally("b", 59 * Day + Noon, 9000, TRUE, 2)>>,
     <<normally("a", Noon, 70, TRUE, 1), normally("b", 30 * Day + Noon, 9000, FALSE, 2),
       normally("b", 30 * Day + Noon, 9000, TRUE, 2)>>,
     <<normally("a", 35 * Day + Noon, 70, TRUE, 1), normally("a", 35 * Day + Noon, 70, TRUE, 1),
       normally("b", 35 * Day, 9000, TRUE, 2), normally("b", 35 * Day + Noon, 500, FALSE, 0)>>}

pure(kinds, k)    == [m \in kinds |-> IF m = k THEN 100 ELSE 0]
half(kinds, k, l) == [m \in kinds |-> IF m \in {k, l} THEN 50 ELSE 0]
pairs(kinds)      == {half(kinds, p[1], p[2]) : p \in {p \in kinds \X kinds : p[1] # p[2]}}
DefaultLedger ==
    [contradictory_amount |-> 30, missing_reference |-> 20, currency_mismatch |-> 10,
     missing_ledger_entry |-> 15, duplicate_posting |-> 15, late_posting |-> 10]
DefaultAnomalies ==
    [high_value |-> 20, burst |-> 15, unusual_time |-> 15, geo_change |-> 12,
     new_counterparty |-> 12, abnormal_velocity |-> 10, repeated_transfers |-> 16]

conf(n, anomalies, anomaly_mix, discrepancies, ledger_mix) ==
    [n |-> n, anomalies |-> anomalies, anomaly_mix |-> anomaly_mix,
     discrepancies |-> discrepancies, ledger_mix |-> ledger_mix]
LedgerMixes == {pure(Kinds, k) : k \in Kinds} \cup {DefaultLedger} \cup pairs(Kinds)
MCConfigs ==
    {conf(2, 0, DefaultAnomalies, d, m) : d \in 0 .. 2, m \in LedgerMixes}
    \cup {conf(2, 1, pure(AnomalyKinds, k), 1, pure(Kinds, d)) : k \in AnomalyKinds, d \in {"late_posting"}}
    \cup {conf(n, t, m, 0, DefaultLedger) : n \in 3 .. 5, t \in 2 .. 4,
             m \in pairs(AnomalyKinds) \cup {DefaultAnomalies}}
    \cup {conf(9, 8, pure(AnomalyKinds, k), 0, DefaultLedger) : k \in {"burst", "repeated_transfers"}}
    \cup {conf(17, 16, pure(AnomalyKinds, "abnormal_velocity"), 0, DefaultLedger)}
MCDelays   == {0, 30 * 3600}
MCFactors  == {50, 98, 102, 150}
MCLateBy   == {8 * Day, 20 * Day}
=============================================================================
