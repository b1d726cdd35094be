---------------------------- MODULE CaseLifecycle ----------------------------
(***************************************************************************)
(* What the case service promises of a case, without requests, threads,    *)
(* transactions or audit rows.  A case is opened, its analysis is either   *)
(* delivered to the reviewers or abandoned, and people decide it:          *)
(*                                                                         *)
(*    absent -> analysis -> review -> closed                               *)
(*                     \--> failed                                         *)
(*                                                                         *)
(* Nothing ever goes back: a closed case stays closed and an analysis is   *)
(* delivered once.  Decisions that were being taken at the same time as    *)
(* the one that closed the case still arrive; the service then keeps the   *)
(* last one, so Propose, Withdraw and Decide are possible on a closed case *)
(* too.  An ESCALATE verdict always carries two different people.          *)
(***************************************************************************)
EXTENDS SignOffRules

CONSTANT Cases

VARIABLES stage,     \* where each case is in the diagram above
          proposal,  \* who proposes to escalate it, or NoOne
          verdict    \* the sign-off, or NoSignOff

vars == <<stage, proposal, verdict>>

Stage == {"absent", "analysis", "failed", "review", "closed"}

Init ==
    /\ stage    = [c \in Cases |-> "absent"]
    /\ proposal = [c \in Cases |-> NoOne]
    /\ verdict  = [c \in Cases |-> NoSignOff]

Move(c, from, to) ==
    /\ stage[c] = from
    /\ stage' = [stage EXCEPT ![c] = to]
    /\ UNCHANGED <<proposal, verdict>>

Open(c)    == Move(c, "absent", "analysis")
Deliver(c) == Move(c, "analysis", "review")
Abandon(c) == Move(c, "analysis", "failed")

Delivered(c) == stage[c] \in {"review", "closed"}

Propose(c, p) ==
    /\ Delivered(c)
    /\ proposal' = [proposal EXCEPT ![c] = p]
    /\ UNCHANGED <<stage, verdict>>

Withdraw(c) ==
    /\ Delivered(c)
    /\ proposal' = [proposal EXCEPT ![c] = NoOne]
    /\ UNCHANGED <<stage, verdict>>

Decide(c, v) ==
    /\ Delivered(c)
    /\ EnoughReviewers(v.by, v.decision, v.second)
    /\ stage'   = [stage EXCEPT ![c] = "closed"]
    /\ verdict' = [verdict EXCEPT ![c] = v]
    /\ proposal' = IF v.decision = "ESCALATE"
                   THEN [proposal EXCEPT ![c] = NoOne]
                   ELSE proposal

Next == \E c \in Cases :
    \/ Open(c)
    \/ Deliver(c)
    \/ Abandon(c)
    \/ \E p \in Analysts : Propose(c, p)
    \/ Withdraw(c)
    \/ \E v \in SignOff : Decide(c, v)

Safe == Init /\ [][Next]_vars

\* An opened case does not stay in analysis for ever.
Ends == \A c \in Cases : WF_vars(Deliver(c) \/ Abandon(c))

Spec == Safe /\ Ends
=============================================================================
