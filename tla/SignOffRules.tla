---------------------------- MODULE SignOffRules ----------------------------
(***************************************************************************)
(* The rules by which people decide a case: agents/coordinator/signoff.py  *)
(* and the four-eyes test that backend/app/api/cases.py repeats.  They are *)
(* pure predicates, shared by every module in which a person signs off.    *)
(* People are compared after casefold(), so a model value stands for one   *)
(* person however the name is written; a reason is abstracted to whether   *)
(* anything is left of it after strip().                                   *)
(***************************************************************************)
CONSTANTS Analysts,  \* the people whose role lets them decide cases
          NoOne      \* the null of every column that holds a person

Decision == {"CLEAR", "REVIEW", "ESCALATE"}

\* No person named (None) and the absence of a decision.
SignOff == [by : Analysts, second : Analysts \cup {NoOne}, decision : Decision]
NoSignOff == [by |-> NoOne, second |-> NoOne, decision |-> "none"]

\* casefold() comparison of two reviewers.  (Seeded fault: none is made.)
DifferentPeopleUnchecked(a, b) == TRUE
DifferentPeople(a, b) == a # b

\* ESCALATE needs a second, different reviewer; other decisions need none.
EnoughReviewers(by, decision, second) ==
    decision = "ESCALATE" => /\ second # NoOne
                             /\ DifferentPeople(second, by)

\* sign_off_case raises SignOffError unless all of this holds.  (Seeded
\* fault: the status is not looked at.)
MaySignOffAnyStatus(status, by, decision, second, reasoned) ==
    /\ by # NoOne
    /\ reasoned
    /\ EnoughReviewers(by, decision, second)
MaySignOff(status, by, decision, second, reasoned) ==
    /\ status = "HUMAN_REVIEW"
    /\ by # NoOne
    /\ reasoned
    /\ EnoughReviewers(by, decision, second)
=============================================================================
