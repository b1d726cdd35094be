---------------------------- MODULE MCCaseService ----------------------------
(***************************************************************************)
(* Instances of CaseService for TLC.                                       *)
(***************************************************************************)
EXTENDS CaseService, TLC

CONSTANTS a1, a2

\* A report that asks for more than CLEAR, and a run whose first step failed:
\* no advisory decision and no customer data.
TwoResults ==
    {[advisory |-> "REVIEW", details |-> TRUE],
     [advisory |-> "none", details |-> FALSE]}

OneResult == {[advisory |-> "REVIEW", details |-> TRUE]}

\* Requests are interchangeable, and so are analysts (safety only).
Symmetry == Permutations(Requests) \cup Permutations(Analysts)
=============================================================================
