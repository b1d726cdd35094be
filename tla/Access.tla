------------------------------- MODULE Access -------------------------------
(***************************************************************************)
(* Who may use the service: signing in, the throttle of failed sign-ins,   *)
(* and the accounts (backend/app/api/auth.py, api/deps.py,                 *)
(* core/security.py, scripts/create_user.py).                              *)
(*                                                                         *)
(* Every request runs on a thread of its own.  The lists of the throttle   *)
(* are Python objects: _recent replaces the list of a key by a filtered    *)
(* copy, and record_failure appends to the copy it made itself.  A thread  *)
(* may be interrupted between making a copy, storing it and appending.     *)
(* Nobody but its maker ever appends to a list, so a list is its times and *)
(* the thread that may still append to it while it is the stored one.      *)
(***************************************************************************)
EXTENDS Integers, Sequences, FiniteSets, Filters

CONSTANTS Threads, Script,        \* requests; a run of create_user.py
          Hosts, Names, Admin,    \* clients; user names; the first account's
          Passwords, Roles, Nobody,
          max_failures, window_s, \* LoginLimiter's arguments
          MaxTime, MaxRequests    \* bounds: of the clock, requests sent

ASSUME AccessAssumption ==
    /\ max_failures \in Nat \ {0} /\ window_s \in Nat
    /\ Script \notin Threads /\ Nobody \notin Threads \cup Names /\ Admin \in Names
    /\ "admin" \in Roles

Keys == Hosts \X Names            \* the name in lower case, however it was typed

VARIABLES now, sent,
          failures,   \* the throttle: the list of each key
          users,      \* the rows of the table
          run,        \* what each thread is doing
          log,        \* every failure there was, in order: when,
          cleared,    \* how many of them a success has wiped out,
          overlapped  \* the keys of which two sign-ins were ever under way at once
vars == <<now, sent, failures, users, run, log, cleared, overlapped>>
ghosts == <<log, cleared, overlapped>>

Idle == [step |-> "idle", key |-> Nobody, password |-> Nobody, role |-> Nobody, copy |-> <<>>, since |-> 0]
NoList == [times |-> <<>>, maker |-> Nobody]
Row(name, password, role) == [username |-> name, password |-> password, role |-> role, active |-> TRUE]

Init ==
    /\ now = 0 /\ sent = 0 /\ failures = [k \in Keys |-> NoList]
    /\ \E p \in Passwords : users = {Row(Admin, p, "admin")}
    /\ run = [t \in Threads \cup {Script} |-> Idle]
    /\ log = [k \in Keys |-> <<>>] /\ cleared = [k \in Keys |-> 0] /\ overlapped = {}

Tick == /\ now < MaxTime /\ now' = now + 1
        /\ UNCHANGED <<sent, failures, users, run, ghosts>>

Answers == {"200", "201", "401", "403", "409", "429", "500"}
Free(t) == run[t].step \in Answers \cup {"idle"}
Go(t, step) == run' = [run EXCEPT ![t].step = step]
Done(t, answer) == run' = [run EXCEPT ![t] = [Idle EXCEPT !.step = answer]]
Rows(name)  == {u \in users : u.username = name}

-----------------------------------------------------------------------------
(* Signing in, and the throttle.                                           *)

UnderWay(k) == {t \in Threads : run[t].key = k /\ ~Free(t)}

SignIn(t) ==
    /\ Free(t) /\ sent < MaxRequests /\ sent' = sent + 1
    /\ \E k \in Keys, p \in Passwords :
          /\ run' = [run EXCEPT ![t] = [Idle EXCEPT !.step = "check", !.key = k, !.password = p]]
          /\ overlapped' = overlapped \cup (IF UnderWay(k) \ {t} = {} THEN {} ELSE {k})
    /\ UNCHANGED <<now, failures, users, log, cleared>>

\* _recent, up to the copy.  (Seeded fault: everything counts for ever.)
RecentAll(times, cutoff) == times
Recent(times, cutoff) == Where(times, LAMBDA at : at > cutoff)
Copied(t, step) ==
    /\ run' = [run EXCEPT ![t].step = step, ![t].since = now - window_s,
                          ![t].copy = Recent(failures[run[t].key].times, now - window_s)]
    /\ UNCHANGED <<now, sent, failures, users, ghosts>>
\* ... and its last assignment.
StoreCopy(t) == failures' = [failures EXCEPT ![run[t].key] = [times |-> run[t].copy, maker |-> t]]

StartCheck(t) == run[t].step = "check" /\ Copied(t, "locked?")
IsLocked(t) ==
    /\ run[t].step = "locked?" /\ StoreCopy(t)
    /\ run' = [run EXCEPT ![t].copy = <<>>,
                          ![t].step = IF Len(run[t].copy) >= max_failures THEN "429" ELSE "verify"]
    /\ UNCHANGED <<now, sent, users, ghosts>>

\* The row is read, and the password compared with what it says.
Verify(t) ==
    /\ run[t].step = "verify"
    /\ Go(t, IF Cardinality(Rows(run[t].key[2])) > 1 THEN "500"
             ELSE IF \E u \in Rows(run[t].key[2]) : u.password = run[t].password /\ u.active
             THEN "reset" ELSE "failed")
    /\ UNCHANGED <<now, sent, failures, users, ghosts>>

StartFailure(t) == run[t].step = "failed" /\ Copied(t, "store")
StoreFailure(t) ==
    /\ run[t].step = "store" /\ StoreCopy(t) /\ Go(t, "append")
    /\ UNCHANGED <<now, sent, users, ghosts>>
\* The time goes to the list this thread made, whichever one is stored now.
RecordFailure(t) ==
    LET k == run[t].key
    IN  /\ run[t].step = "append" /\ Done(t, "401")
        /\ failures' = IF failures[k].maker # t THEN failures
                       ELSE [failures EXCEPT ![k].times = Append(@, now), ![k].maker = Nobody]
        /\ log' = [log EXCEPT ![k] = Append(@, now)]
        /\ UNCHANGED <<now, sent, users, cleared, overlapped>>

Reset(t) ==
    LET k == run[t].key
    IN  /\ run[t].step = "reset" /\ Done(t, "200")
        /\ failures' = [failures EXCEPT ![k] = NoList]
        /\ cleared'  = [cleared EXCEPT ![k] = Len(log[k])]
        /\ UNCHANGED <<now, sent, users, log, overlapped>>

-----------------------------------------------------------------------------
(* Accounts: POST /admin/users, and the script.                            *)

\* current_user and require_roles: the caller's row decides, not the token.
Permitted(caller, roles) == \E u \in Rows(caller) : u.active /\ u.role \in roles

\* username is a unique column.
\* (Seeded fault: only the look-up keeps names apart.)
UniqueNever(rows, name) == TRUE
Unique(rows, name) == \A u \in rows : u.username # name

CreateUser(t) ==
    /\ Free(t) /\ sent < MaxRequests /\ sent' = sent + 1
    /\ \E caller \in Names, name \in Names, p \in Passwords, r \in Roles :
          LET step == IF Rows(caller) = {} \/ \E u \in Rows(caller) : ~u.active THEN "401"
                      ELSE IF ~Permitted(caller, {"admin"}) THEN "403"
                      ELSE IF Rows(name) # {} THEN "409" ELSE "insert"
          IN  IF step # "insert" THEN Done(t, step)
              ELSE run' = [run EXCEPT ![t] =
                       [Idle EXCEPT !.step = step, !.key = <<Nobody, name>>, !.password = p, !.role = r]]
    /\ UNCHANGED <<now, failures, users, ghosts>>

\* get_session commits when the answer is there, and rolls back if it cannot.
CommitUser(t) ==
    LET new == Row(run[t].key[2], run[t].password, run[t].role)
    IN  /\ run[t].step = "insert"
        /\ IF Unique(users, new.username) THEN users' = users \cup {new} /\ Go(t, "201")
           ELSE Done(t, "500") /\ UNCHANGED users
        /\ UNCHANGED <<now, sent, failures, ghosts>>

\* create_user.py: the row is looked up, then created or set again.
StartScript ==
    /\ run[Script].step = "idle" /\ sent < MaxRequests /\ sent' = sent + 1
    /\ \E name \in Names, p \in Passwords, r \in Roles :
          run' = [run EXCEPT ![Script] = [Idle EXCEPT !.key = <<Nobody, name>>, !.password = p, !.role = r,
                     !.step = IF Rows(name) = {} THEN "insert" ELSE "update"]]
    /\ UNCHANGED <<now, failures, users, ghosts>>
UpdateUser ==
    LET me == run[Script]
    IN  /\ me.step = "update"
        /\ users' = (users \ Rows(me.key[2])) \cup {Row(me.key[2], me.password, me.role)}
        /\ run' = [run EXCEPT ![Script].step = "updated"]
        /\ UNCHANGED <<now, sent, failures, ghosts>>

\* Whoever runs the database switches an account off.
SwitchOff ==
    /\ \E u \in users : u.active /\ users' = (users \ {u}) \cup {[u EXCEPT !.active = FALSE]}
    /\ UNCHANGED <<now, sent, failures, run, ghosts>>

Next ==
    \/ Tick \/ StartScript \/ CommitUser(Script) \/ UpdateUser \/ SwitchOff
    \/ \E t \in Threads :
          \/ SignIn(t) \/ StartCheck(t) \/ IsLocked(t) \/ Verify(t) \/ StartFailure(t)
          \/ StoreFailure(t) \/ RecordFailure(t) \/ Reset(t) \/ CreateUser(t) \/ CommitUser(t)
Spec == Init /\ [][Next]_vars

-----------------------------------------------------------------------------
\* A sign-in is refused with 429 only after as many failures of that key
\* within the window, in whatever order its threads copy, store and append;
\* and while no two sign-ins of a key are under way at once, one that is let
\* in had fewer since the last success (security.py:93-106, auth.py:21-36).
FailuresSince(k, from, cutoff) == Cardinality({i \in from + 1 .. Len(log[k]) : log[k][i] > cutoff})
LockoutIsEarned ==
    \A t \in Threads : LET k == run[t].key IN
        /\ run[t].step = "429" => FailuresSince(k, 0, run[t].since) >= max_failures
        /\ run[t].step = "verify" /\ k \notin overlapped =>
               FailuresSince(k, cleared[k], run[t].since) < max_failures

\* However many administrators and scripts create one name at once, one of
\* them succeeds, everyone else is told it failed, and the account is theirs
\* until the script sets it again (auth.py:57-68, models.py:24).
AccountIsCreatedOnce ==
    LET Made(name) == {t \in DOMAIN run : run[t].step = "201" /\ run[t].key[2] = name}
    IN  \A name \in Names :
            /\ Cardinality(Rows(name)) <= 1
            /\ Cardinality(Made(name)) <= 1
            /\ \A t \in Made(name) : \E u \in Rows(name) :
                   (u.password = run[t].password /\ u.role = run[t].role) \/ run[Script].step = "updated"
=============================================================================
