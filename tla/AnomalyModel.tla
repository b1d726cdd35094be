---------------------------- MODULE AnomalyModel ----------------------------
(***************************************************************************)
(* How the anomaly models are fitted: the chronological split that keeps   *)
(* an anomaly's episode together (anomaly_detection/temporal/splits.py),   *)
(* the alert threshold chosen on the validation rows (evaluation/metrics/  *)
(* anomaly.py), the early stopping of the neural models (neural/common.py) *)
(* and what agents/auditor/anomaly_service.py says of a score.             *)
(***************************************************************************)
EXTENDS Integers, Sequences, FiniteSets, FiniteSetsExt, SequencesExt

CONSTANTS TrainTenths, ValTenths,   \* fractions: 6 and 2 tenths
          Tolerance,                \* an average precision must rise by more: 1e-5
          Patience, MaxEpochs       \* of train_supervised

ASSUME FitAssumption ==
    /\ TrainTenths \in 1 .. 9 /\ ValTenths \in 1 .. 9 /\ TrainTenths + ValTenths < 10
    /\ Tolerance \in Nat /\ Patience \in Nat \ {0} /\ MaxEpochs \in Nat \ {0}

-----------------------------------------------------------------------------
(* temporal_split.  Times are in order; a boundary is ten times a quantile *)
(* with linear interpolation.                                              *)

Quantile(times, tenths) ==
    LET h == tenths * (Len(times) - 1)
        k == 1 + h \div 10
    IN  10 * times[k] + (h % 10) * (IF k = Len(times) THEN 0 ELSE times[k + 1] - times[k])

Straddles(lo, hi, b) == 10 * lo < b /\ b <= 10 * hi

\* (Seeded fault: only the first boundary is looked at.)
PurgedAtFirst(times, episodes, b1, b2) ==
    {i \in DOMAIN times : episodes[i] # "" /\ \E j, k \in DOMAIN times :
        episodes[j] = episodes[i] /\ episodes[k] = episodes[i] /\ Straddles(times[j], times[k], b1)}
Purged(times, episodes, b1, b2) ==
    {i \in DOMAIN times : episodes[i] # "" /\ \E j, k \in DOMAIN times :
        /\ episodes[j] = episodes[i] /\ episodes[k] = episodes[i]
        /\ Straddles(times[j], times[k], b1) \/ Straddles(times[j], times[k], b2)}

Split(times, episodes) ==
    LET b1   == Quantile(times, TrainTenths)
        b2   == Quantile(times, TrainTenths + ValTenths)
        keep == DOMAIN times \ Purged(times, episodes, b1, b2)
    IN  [train |-> {i \in keep : 10 * times[i] < b1},
         val   |-> {i \in keep : b1 <= 10 * times[i] /\ 10 * times[i] < b2},
         test  |-> {i \in keep : b2 <= 10 * times[i]},
         until |-> b1]

InTrainingPeriod(split, time) == 10 * time < split.until

\* Every row is in one part or purged, the parts follow one another in time,
\* no episode is in two of them, and a score is called optimistic for every
\* row that was trained on, and for none that was not, except purged ones
\* (splits.py:37-56, anomaly_service.py:78).
SplitIsSound(times, episodes) ==
    LET s    == Split(times, episodes)
        kept == s.train \cup s.val \cup s.test
        parts == <<s.train, s.val, s.test>>
    IN  /\ \A p, q \in 1 .. 3 : p < q =>
               \A i \in parts[p], j \in parts[q] : times[i] < times[j]
        /\ \A i, j \in kept : episodes[i] = episodes[j] /\ episodes[i] # "" =>
               \A p \in 1 .. 3 : i \in parts[p] <=> j \in parts[p]
        /\ \A i \in DOMAIN times \ kept : episodes[i] # ""
        /\ \A i \in kept : InTrainingPeriod(s, times[i]) <=> i \in s.train

-----------------------------------------------------------------------------
(* f1_optimal_threshold and operating_point.                               *)

Flagged(score, threshold) == score >= threshold
Count(labels, scores, threshold, label, flagged) ==
    Cardinality({i \in DOMAIN labels : labels[i] = label /\ Flagged(scores[i], threshold) = flagged})

\* F1 as a fraction: 2tp / (2tp + fp + fn).
F1(labels, scores, t) ==
    LET tp == Count(labels, scores, t, 1, TRUE)
    IN  [num |-> 2 * tp, den |-> 2 * tp + Count(labels, scores, t, 0, TRUE)
                                 + Count(labels, scores, t, 1, FALSE)]
Less(f, g) == f.num * g.den < g.num * f.den

\* The candidates are the scores that occur; argmax takes the first best.
F1OptimalThreshold(labels, scores) ==
    Min({t \in {scores[i] : i \in DOMAIN scores} :
            \A j \in DOMAIN scores : ~Less(F1(labels, scores, t), F1(labels, scores, scores[j]))})

\* No threshold at all would flag better than the one chosen, not even one
\* that is nobody's score.
ThresholdIsBest(labels, scores) ==
    (\E i \in DOMAIN labels : labels[i] = 1) =>
        LET best == F1(labels, scores, F1OptimalThreshold(labels, scores))
        IN  \A t \in 0 .. Max({scores[i] : i \in DOMAIN scores}) + 1 :
                ~Less(best, F1(labels, scores, t))

-----------------------------------------------------------------------------
(* train_supervised: aps are the average precisions of the epochs so far.   *)

\* best_ap = -1.0 is below every average precision by more than the tolerance.
Start == [best |-> -1 - Tolerance, kept |-> 0, stale |-> 0]

\* What is kept after one more epoch, the n-th, and for how many epochs.
Epoch(run, n, ap) ==
    IF ap > run.best + Tolerance THEN [best |-> ap, kept |-> n, stale |-> 0]
    ELSE [run EXCEPT !.stale = @ + 1]

\* The weights that are kept are those of an epoch that ran, which no other
\* one beats by more than the tolerance, and no more than Patience epochs
\* come after it (common.py:68-77).
KeepsTheBestEpoch(aps, run) ==
    /\ run.kept \in DOMAIN aps /\ Len(aps) <= run.kept + Patience
    /\ \A e \in DOMAIN aps : aps[e] <= aps[run.kept] + Tolerance
=============================================================================
