------------------------------ MODULE Console ------------------------------
(***************************************************************************)
(* The reviewer's browser tab: signing in, the view of one case with its   *)
(* polls, and the decision panel (frontend/src/).  Its requests are served *)
(* in any order and the answers arrive in any order; meanwhile the         *)
(* analysis goes on and other analysts decide the same cases.  A decision  *)
(* loads its row, checks it, and is committed later without looking again, *)
(* so decisions overlap.  What their audit events do is module CaseService.*)
(*                                                                         *)
(* The view holds the last answer that arrived, not the last that was      *)
(* asked for.  It is a new component for every case selected (key), so     *)
(* answers meant for an earlier one go nowhere; this is the number mount.  *)
(***************************************************************************)
EXTENDS Naturals, FiniteSets

CONSTANTS Cases, Me, Others,      \* Others: the other analysts
          Advice,                 \* what an analysis may advise
          None,
          MaxInFlight,            \* bounds: unanswered requests,
          MaxMounts, MaxLogins,   \* cases selected, sessions,
          MaxErrors, MaxOthers    \* requests lost, decisions others begin

ASSUME PeopleAssumption == Me \notin Others /\ None \notin Others \cup {Me} \cup Cases

Decision == {"CLEAR", "REVIEW", "ESCALATE"}
ASSUME AdviceAssumption == Advice \subseteq Decision

VARIABLES case,       \* what the service would answer for each case
          session,    \* the number of the session, 0 when signed out
          logins,     \* how many there have been
          expired,    \* the sessions whose token is not accepted any more
          selected,   \* in the inbox, or None
          mount,      \* the number of the view now on the page, 0: none
          views,      \* how many there have been
          detail,     \* what it holds, or NoDetail
          failed,     \* it shows "Could not load this case."
          busy,       \* the decision panel waits for its answer
          net,        \* requests and answers on their way
          theirs,     \* decisions of others that have loaded their row
          errors, decided
consoleVars == <<case, session, logins, expired, selected, mount, views, detail, failed, busy, net, theirs, errors, decided>>

tab    == <<session, selected, mount, views, detail, failed, busy>>
bounds == <<logins, errors, decided>>

NoDetail == [job |-> "none"]
Fresh == [job |-> "queued", status |-> "case_created", advisory |-> None, pending |-> None]

ConsoleInit ==
    /\ case = [c \in Cases |-> Fresh] /\ session = 0 /\ logins = 0 /\ expired = {} /\ selected = None
    /\ mount = 0 /\ views = 0 /\ detail = NoDetail /\ failed = FALSE /\ busy = FALSE
    /\ net = {} /\ theirs = {} /\ errors = 0 /\ decided = 0

-----------------------------------------------------------------------------
(* The page.                                                               *)

Get(c, view, in) ==
    [kind |-> "get", of |-> c, choice |-> "none", ack |-> FALSE, view |-> view, in |-> in,
     panel |-> FALSE, shown |-> NoDetail, state |-> "sent", answer |-> NoDetail, before |-> NoDetail]

\* A CaseView appears in a session and loads its case, or there is none.
Appear(c, in) ==
    /\ detail' = NoDetail /\ failed' = FALSE /\ busy' = FALSE
    /\ IF c = None THEN mount' = 0 /\ UNCHANGED <<views, net>>
       ELSE /\ views < MaxMounts /\ views' = views + 1 /\ mount' = views'
            /\ net' = net \cup {Get(c, mount', in)}

LogIn ==
    /\ session = 0 /\ logins < MaxLogins
    /\ logins' = logins + 1 /\ session' = logins'
    /\ Appear(selected, session')
    /\ UNCHANGED <<case, expired, selected, theirs, errors, decided>>

Select(c) ==
    /\ session # 0 /\ selected # c
    /\ selected' = c
    /\ Appear(c, session) /\ UNCHANGED <<case, session, expired, theirs, bounds>>

\* The 8 hours are over, or the account was switched off.
Expire ==
    /\ \E in \in 1 .. logins \ expired : expired' = expired \cup {in}
    /\ UNCHANGED <<case, tab, net, theirs, bounds>>

\* logout: the login page replaces everything; what was selected is kept,
\* and the token is still accepted for what is on its way.
LeavePage ==
    /\ session' = 0 /\ mount' = 0 /\ detail' = NoDetail /\ failed' = FALSE /\ busy' = FALSE
    /\ UNCHANGED <<selected, views>>
LogOut ==
    /\ session # 0 /\ LeavePage
    /\ UNCHANGED <<case, expired, net, theirs, bounds>>

\* The interval of the view, as long as what it holds says so.
\* (Seeded fault: an analysis that is queued is not waited for.)
WaitsWhileRunning(d) == d.job = "running"
Waits(d) == d.job \in {"queued", "running"}
Poll ==
    /\ mount # 0 /\ Waits(detail) /\ Cardinality(net) < MaxInFlight
    /\ net' = net \cup {Get(selected, mount, session)}
    /\ UNCHANGED <<case, expired, tab, theirs, bounds>>

-----------------------------------------------------------------------------
(* decisionRules.ts and DecisionPanel.tsx                                  *)

Mode(d, who) ==
    IF d.status # "human_review" THEN "read-only"
    ELSE IF d.pending = None THEN "decide"
    ELSE IF d.pending = who THEN "waiting" ELSE "confirm-escalation"

NeedsOverride(d, choice) == choice = "CLEAR" /\ d.advisory \in {"REVIEW", "ESCALATE"}

\* A button of the panel: the reason is written, and the box is ticked where
\* there is one.
Click ==
    /\ mount # 0 /\ detail # NoDetail /\ ~failed /\ ~busy /\ Cardinality(net) < MaxInFlight
    /\ \E kind \in {"sign_off", "confirm", "reject"}, choice \in Decision :
          /\ kind = "sign_off" => Mode(detail, Me) = "decide"
          /\ kind # "sign_off" => Mode(detail, Me) = "confirm-escalation" /\ choice = "ESCALATE"
          /\ net' = net \cup {[Get(selected, mount, session) EXCEPT
                 !.kind = kind, !.choice = choice, !.ack = NeedsOverride(detail, choice),
                 !.panel = TRUE, !.shown = detail]}
    /\ busy' = TRUE
    /\ UNCHANGED <<case, expired, session, selected, mount, views, detail, failed, theirs, bounds>>

-----------------------------------------------------------------------------
(* The service.                                                            *)

\* sign_off refuses a case that is not awaiting review, one whose escalation
\* awaits a second reviewer, and an override nobody acknowledged.
MaySignOff(d, choice, ack) ==
    d.status = "human_review" /\ d.pending = None /\ (NeedsOverride(d, choice) => ack)

Closed(d) == [d EXCEPT !.status = "closed", !.pending = None]
Accepted(m, d, who) ==
    CASE m.kind = "sign_off" -> MaySignOff(d, m.choice, m.ack)
      [] m.kind = "confirm"  -> d.pending \notin {None, who} /\ d.status = "human_review"
      [] m.kind = "reject"   -> d.pending \notin {None, who}
Effect(m, d, who) ==
    CASE m.kind = "sign_off" -> IF m.choice = "ESCALATE" THEN [d EXCEPT !.pending = who]
                                ELSE [d EXCEPT !.status = "closed"]
      [] m.kind = "confirm"  -> Closed(d)
      [] m.kind = "reject"   -> [d EXCEPT !.pending = None]

\* What is saved: the columns in which the handler's row differs from the
\* row it has loaded, whatever was committed in between.
\* (Seeded fault: the whole row.)
SavedWhole(current, loaded, new) == new
Saved(current, loaded, new) ==
    [f \in DOMAIN current |-> IF new[f] = loaded[f] THEN current[f] ELSE new[f]]

\* What a component that is gone only wanted to read is dropped when it is
\* served; it would be dropped when it arrives.
Keep(m) == IF m.view = mount \/ m.kind # "get" \/ m.state = "401" THEN {m} ELSE {}

\* A request reads its row; a decision is checked against it.
Serve(m) ==
    /\ m.state = "sent"
    /\ LET d == case[m.of]
           served ==
               CASE m.in \in expired -> [m EXCEPT !.state = "401"]
                 [] m.in \notin expired /\ m.kind = "get" -> [m EXCEPT !.state = "ok", !.answer = d]
                 [] m.in \notin expired /\ m.kind # "get" ->
                        IF Accepted(m, d, Me) THEN [m EXCEPT !.state = "loaded", !.before = d]
                        ELSE [m EXCEPT !.state = "error"]
       IN  net' = (net \ {m}) \cup Keep(served)
    /\ UNCHANGED <<case, expired, tab, theirs, bounds>>

\* A decision that was accepted is saved and answered with the handler's row.
Commit(m) ==
    /\ m.state = "loaded"
    /\ LET new == Effect(m, m.before, Me)
       IN  /\ case' = [case EXCEPT ![m.of] = Saved(@, m.before, new)]
           /\ net'  = (net \ {m}) \cup {[m EXCEPT !.state = "ok", !.answer = new]}
    /\ UNCHANGED <<expired, tab, theirs, bounds>>

\* The request or its answer gets lost, or the service fails before it commits.
Lose(m) ==
    /\ m.state \in {"sent", "loaded", "ok"} /\ errors < MaxErrors /\ errors' = errors + 1
    /\ net' = (net \ {m}) \cup Keep([m EXCEPT !.state = "error", !.answer = NoDetail, !.before = NoDetail])
    /\ UNCHANGED <<case, logins, expired, tab, theirs, decided>>

\* The analysis goes on; the report is there before anyone can decide.
Analyse(c) ==
    /\ \/ case[c].job = "queued" /\ case' = [case EXCEPT ![c].job = "running"]
       \/ case[c].job = "running" /\ case' = [case EXCEPT ![c].job = "failed"]
       \/ /\ case[c].job = "running"
          /\ \E a \in Advice : case' = [case EXCEPT ![c] =
                 [job |-> "done", status |-> "human_review", advisory |-> a, pending |-> None]]
    /\ UNCHANGED <<expired, tab, net, theirs, bounds>>

\* Another analyst decides: the row is loaded and checked, and saved later
\* or, if the request fails, never.
OtherLoads(c) ==
    /\ decided < MaxOthers /\ decided' = decided + 1
    /\ \E who \in Others, kind \in {"sign_off", "confirm", "reject"}, choice \in Decision :
           LET m == [kind |-> kind, choice |-> choice, ack |-> TRUE]
           IN  /\ kind # "sign_off" => choice = "ESCALATE"
               /\ Accepted(m, case[c], who)
               /\ theirs' = theirs \cup {[of |-> c, before |-> case[c], new |-> Effect(m, case[c], who)]}
    /\ UNCHANGED <<case, logins, expired, tab, net, errors>>
OtherCommits(o) ==
    /\ case' = [case EXCEPT ![o.of] = Saved(@, o.before, o.new)]
    /\ theirs' = theirs \ {o}
    /\ UNCHANGED <<expired, tab, net, bounds>>

-----------------------------------------------------------------------------
\* An answer reaches the page: a 401 of whatever session signs out the one
\* there is, an answer to a component that is gone is dropped, and any other
\* is what the view holds from now on.  A load that failed hides the panels,
\* and the decision panel that comes back is a new one, which waits for nothing.
Arrive(m) ==
    LET Drop(orphaned) == net' = {[n EXCEPT !.panel = @ /\ ~orphaned] : n \in net \ {m}}
    IN  /\ m.state \notin {"sent", "loaded"}
        /\ CASE m.state = "401" -> Drop(FALSE) /\ LeavePage
             [] m.state # "401" /\ m.view # mount -> Drop(FALSE) /\ UNCHANGED tab
             [] m.state = "ok" /\ m.view = mount ->
                    /\ Drop(FALSE) /\ detail' = m.answer
                    /\ failed' = (failed /\ m.kind # "get") /\ busy' = (busy /\ ~m.panel)
                    /\ UNCHANGED <<session, selected, mount, views>>
             [] m.state = "error" /\ m.view = mount ->
                    /\ Drop(m.kind = "get")
                    /\ failed' = (failed \/ m.kind = "get") /\ busy' = (busy /\ ~m.panel /\ m.kind # "get")
                    /\ UNCHANGED <<session, selected, mount, views, detail>>
        /\ UNCHANGED <<case, expired, theirs, bounds>>

ConsoleNext ==
    \/ LogIn \/ LogOut \/ Expire \/ Poll \/ Click
    \/ \E c \in Cases : Select(c) \/ Analyse(c) \/ OtherLoads(c)
    \/ \E o \in theirs : OtherCommits(o)
    \/ \E m \in net : Serve(m) \/ Commit(m) \/ Lose(m) \/ Arrive(m)

\* The timer fires, requests are served and answered, and an analysis ends
\* (CaseService, EveryJobSettles); people need not do anything.
Fairness ==
    /\ WF_consoleVars(Poll) /\ \A c \in Cases : WF_consoleVars(Analyse(c))
    /\ WF_consoleVars(\E m \in net : Serve(m)) /\ WF_consoleVars(\E m \in net : Commit(m))
    /\ WF_consoleVars(\E m \in net : Arrive(m))
ConsoleSpec == ConsoleInit /\ [][ConsoleNext]_consoleVars /\ Fairness

-----------------------------------------------------------------------------
\* A decision of this page is accepted only if the row the service loads is
\* as the page showed it when the button was pressed: with the advisory
\* decision it was drawn from, and awaiting a decision or somebody else's
\* reviewer, however late the answers and whoever decided in between.  A
\* rejection looks at the pending escalation alone, not at the status.  Another
\* decision may be saved after the row was loaded, and both are accepted; but
\* a page that was told its decision closed the case was told the truth, and
\* no decision that overlaps, saved later, opens the case again
\* (decisionRules.ts:11-38, cases.py:180-274, case_store.py:45-75).
DecisionsRestOnWhatWasShown ==
    \A m \in net : m.kind # "get" =>
        /\ m.state \in {"loaded", "ok"} =>
              /\ m.before.advisory = m.shown.advisory
              /\ m.kind # "reject" => Mode(m.before, Me) = Mode(m.shown, Me)
              /\ m.kind = "reject" => m.before.pending \notin {None, Me}
        /\ m.state = "ok" /\ m.answer.status = "closed" => case[m.of].status = "closed"

\* A page that says the analysis is running stops saying so, in whatever
\* order the answers to its polls arrive and although one may fail; a late
\* answer that says it again only starts the polls again (CaseView.tsx:24-44).
ViewCatchesUp ==
    (mount # 0 /\ detail.job \in {"queued", "running"}) ~> (mount = 0 \/ detail.job \notin {"queued", "running"})
=============================================================================
