---------------------------- MODULE AccessProofs ----------------------------
(***************************************************************************)
(* Signing in, and what a session then decides.  What module Access        *)
(* promises, for any number of threads, clients, names and requests:       *)
(* accounts are created once (AccountIsCreatedOnce), and a lockout is      *)
(* earned (LockoutIsEarned).  What module Console promises, for any cases, *)
(* other analysts, sessions, requests and answers on their way: decisions  *)
(* rest on what was shown (DecisionsRestOnWhatWasShown).                   *)
(***************************************************************************)
EXTENDS Access, Console, FiniteSetTheorems, TLAPS

(***************************************************************************)
(* A commit puts a row in only if no row has its name, so rows of one name *)
(* are one row, and of two commits of one name one has failed.  A row that *)
(* a thread has made stays, with its password and role, until the script   *)
(* sets it again.                                                          *)
(***************************************************************************)
People == Threads \cup {Script}

IsRun(r) == r = [step |-> r.step, key |-> r.key, password |-> r.password,
                 role |-> r.role, copy |-> r.copy, since |-> r.since]
IsRow(u) == u = [username |-> u.username, password |-> u.password,
                 role |-> u.role, active |-> u.active]

RunShape == run = [t \in People |-> run[t]] /\ \A t \in People : IsRun(run[t])
RowShape == \A u \in users : IsRow(u)

OneRowEach == \A u, v \in users : u.username = v.username => u = v

MadeAreThere ==
    \A t \in People : run[t].step = "201" =>
        \E u \in users : /\ u.username = run[t].key[2]
                         /\ (u.password = run[t].password /\ u.role = run[t].role)
                            \/ run[Script].step = "updated"

OneMakerEach ==
    \A s, t \in People :
        run[s].step = "201" /\ run[t].step = "201" /\ run[s].key[2] = run[t].key[2] => s = t

AccountsInv == RunShape /\ RowShape /\ OneRowEach /\ MadeAreThere /\ OneMakerEach

-----------------------------------------------------------------------------
LEMMA InitHolds == Init => AccountsInv
<1> SUFFICES ASSUME Init PROVE AccountsInv
  OBVIOUS
<1>1. RunShape
  BY DEF Init, RunShape, People, Idle, IsRun
<1>2. PICK p \in Passwords : users = {Row(Admin, p, "admin")}
  BY DEF Init
<1>3. RowShape /\ OneRowEach
  BY <1>2 DEF Row, RowShape, OneRowEach, IsRow
<1>4. \A t \in People : run[t].step = "idle"
  BY DEF Init, Idle, People
<1>5. QED
  BY <1>1, <1>3, <1>4 DEF AccountsInv, MadeAreThere, OneMakerEach

\* A step of a thread that leaves the accounts alone and makes none.
LEMMA Elsewhere ==
    ASSUME AccountsInv, NEW t \in Threads, Script \notin Threads, NEW r,
           IsRun(r), r.step # "201", run' = [run EXCEPT ![t] = r], users' = users
    PROVE  AccountsInv'
<1>1. RunShape'
  BY DEF AccountsInv, RunShape, People
<1>2. \A s \in People : run'[s] = IF s = t THEN r ELSE run[s]
  BY DEF AccountsInv, RunShape, People
<1>3. RowShape' /\ OneRowEach'
  BY DEF AccountsInv, RowShape, OneRowEach
<1>4. run'[Script] = run[Script]
  BY <1>2 DEF People
<1>5. MadeAreThere'
  BY <1>2, <1>4 DEF AccountsInv, MadeAreThere
<1>6. OneMakerEach'
  BY <1>2 DEF AccountsInv, OneMakerEach
<1>7. QED
  BY <1>1, <1>3, <1>5, <1>6 DEF AccountsInv

\* A request ends with an answer other than 201.
LEMMA Refused ==
    ASSUME AccountsInv, NEW t \in Threads, Script \notin Threads, NEW s, s # "201",
           Done(t, s), users' = users
    PROVE  AccountsInv'
<1>r. PICK r : r = [Idle EXCEPT !.step = s]
  OBVIOUS
<1>1. IsRun(r) /\ r.step # "201"
  BY <1>r DEF Idle, IsRun
<1>2. run' = [run EXCEPT ![t] = r]
  BY <1>r DEF Done
<1>3. QED
  BY <1>1, <1>2, Elsewhere

-----------------------------------------------------------------------------
(* One lemma per group of actions.                                         *)

\* A copy is taken, stored, looked at: signing in touches no account.
LEMMA SigningInHolds ==
    ASSUME AccountsInv, NEW t \in Threads,
           \/ SignIn(t) \/ StartCheck(t) \/ IsLocked(t) \/ Verify(t) \/ StartFailure(t)
           \/ StoreFailure(t) \/ RecordFailure(t) \/ Reset(t)
    PROVE  AccountsInv'
<1>0. Script \notin Threads
  BY AccessAssumption
<1>1. IsRun(run[t])
  BY DEF AccountsInv, RunShape, People
<1>2. CASE SignIn(t)
  <2>1. PICK k \in Keys, p \in Passwords :
           run' = [run EXCEPT ![t] = [Idle EXCEPT !.step = "check", !.key = k, !.password = p]]
    BY <1>2 DEF SignIn
  <2>2. users' = users
    BY <1>2 DEF SignIn
  <2>r. PICK r : r = [Idle EXCEPT !.step = "check", !.key = k, !.password = p]
    OBVIOUS
  <2>3. IsRun(r) /\ r.step # "201"
    BY <2>r DEF Idle, IsRun
  <2>4. run' = [run EXCEPT ![t] = r]
    BY <2>r, <2>1
  <2>5. QED
    BY <1>0, <2>2, <2>3, <2>4, Elsewhere
<1>3. CASE StartCheck(t) \/ StartFailure(t)
  <2>1. PICK s \in {"locked?", "store"} : Copied(t, s)
    BY <1>3 DEF StartCheck, StartFailure
  <2>r. PICK r : r = [run[t] EXCEPT !.step = s, !.since = now - window_s,
                      !.copy = Recent(failures[run[t].key].times, now - window_s)]
    OBVIOUS
  <2>2. users' = users /\ run' = [run EXCEPT ![t] = r]
    BY <2>r, <2>1 DEF Copied
  <2>3. IsRun(r) /\ r.step # "201"
    BY <1>1, <2>r DEF IsRun
  <2>4. QED
    BY <1>0, <2>2, <2>3, Elsewhere
<1>4. CASE IsLocked(t)
  <2>r. PICK r : r = [run[t] EXCEPT !.copy = <<>>,
                      !.step = IF Len(run[t].copy) >= max_failures THEN "429" ELSE "verify"]
    OBVIOUS
  <2>1. users' = users /\ run' = [run EXCEPT ![t] = r]
    BY <2>r, <1>4 DEF IsLocked
  <2>2. IsRun(r) /\ r.step # "201"
    BY <1>1, <2>r DEF IsRun
  <2>3. QED
    BY <1>0, <2>1, <2>2, Elsewhere
<1>5. CASE Verify(t) \/ StoreFailure(t)
  <2>1. PICK s \in {"500", "reset", "failed", "append"} : Go(t, s)
    BY <1>5 DEF Verify, StoreFailure
  <2>r. PICK r : r = [run[t] EXCEPT !.step = s]
    OBVIOUS
  <2>2. users' = users
    BY <1>5 DEF Verify, StoreFailure
  <2>3. run' = [run EXCEPT ![t] = r]
    BY <2>r, <2>1 DEF Go
  <2>4. IsRun(r) /\ r.step # "201"
    BY <1>1, <2>r DEF IsRun
  <2>5. QED
    BY <1>0, <2>2, <2>3, <2>4, Elsewhere
<1>6. CASE RecordFailure(t) \/ Reset(t)
  <2>1. PICK s \in {"401", "200"} : Done(t, s)
    BY <1>6 DEF RecordFailure, Reset
  <2>2. users' = users
    BY <1>6 DEF RecordFailure, Reset
  <2>3. QED
    BY <1>0, <2>1, <2>2, Refused
<1>7. QED
  BY <1>2, <1>3, <1>4, <1>5, <1>6

\* Looking a name up decides the answer, or what is to be inserted.
LEMMA CreateUserHolds ==
    ASSUME AccountsInv, NEW t \in Threads, CreateUser(t)
    PROVE  AccountsInv'
<1>0. Script \notin Threads /\ users' = users
  BY AccessAssumption DEF CreateUser
<1>1. PICK s \in {"401", "403", "409", "insert"}, name \in Names, p \in Passwords, q \in Roles :
         IF s # "insert" THEN Done(t, s)
         ELSE run' = [run EXCEPT ![t] =
                  [Idle EXCEPT !.step = s, !.key = <<Nobody, name>>, !.password = p, !.role = q]]
  BY ZenonT(60) DEF CreateUser
<1>2. CASE s # "insert"
  <2>1. Done(t, s) /\ s # "201"
    BY <1>1, <1>2
  <2>2. QED
    BY <1>0, <2>1, Refused
<1>3. CASE s = "insert"
  <2>r. PICK r : r = [Idle EXCEPT !.step = s, !.key = <<Nobody, name>>, !.password = p, !.role = q]
    OBVIOUS
  <2>1. run' = [run EXCEPT ![t] = r]
    BY <2>r, <1>1, <1>3
  <2>2. IsRun(r) /\ r.step # "201"
    BY <1>3, <2>r DEF Idle, IsRun
  <2>3. QED
    BY <1>0, <2>1, <2>2, Elsewhere
<1>4. QED
  BY <1>2, <1>3

\* The row goes in if the column stays unique: whoever made the name before
\* would still have a row.
LEMMA CommitUserHolds ==
    ASSUME AccountsInv, NEW t \in People, CommitUser(t)
    PROVE  AccountsInv'
<1> DEFINE new == Row(run[t].key[2], run[t].password, run[t].role)
<1>0. IsRun(run[t]) /\ run[t].step = "insert"
  BY DEF AccountsInv, RunShape, CommitUser
<1>1. CASE Unique(users, new.username)
  <2>1. /\ users' = users \cup {new}
        /\ run' = [run EXCEPT ![t].step = "201"]
    BY <1>1 DEF CommitUser, Go
  <2>r. PICK r : r = [run[t] EXCEPT !.step = "201"]
    OBVIOUS
  <2>q. /\ IsRun(r) /\ r.step = "201" /\ r.key = run[t].key
        /\ r.password = run[t].password /\ r.role = run[t].role
    BY <1>0, <2>r DEF IsRun
  <2>p. run' = [run EXCEPT ![t] = r]
    BY <2>1, <2>r
  <2>2. \A s \in People : run'[s] = IF s = t THEN r ELSE run[s]
    BY <2>p DEF AccountsInv, RunShape
  <2>3. RunShape'
    BY <2>q, <2>p DEF AccountsInv, RunShape
  <2>4. /\ IsRow(new) /\ new.username = run[t].key[2]
        /\ new.password = run[t].password /\ new.role = run[t].role
    BY DEF Row, IsRow
  <2> HIDE DEF new
  <2>5. \A u \in users : u.username # run[t].key[2]
    BY <1>1, <2>4 DEF Unique
  <2>6. RowShape' /\ OneRowEach'
    BY <2>1, <2>4, <2>5 DEF AccountsInv, RowShape, OneRowEach
  <2>7. /\ run'[t].step = "201" /\ run'[t].key = run[t].key
        /\ run'[t].password = run[t].password /\ run'[t].role = run[t].role
    BY <2>q, <2>2
  <2>8. Script \in People
    BY DEF People
  <2>9. MadeAreThere'
    <3> SUFFICES ASSUME NEW s \in People, run'[s].step = "201"
                 PROVE  \E u \in users' :
                           /\ u.username = run'[s].key[2]
                           /\ (u.password = run'[s].password /\ u.role = run'[s].role)
                              \/ run'[Script].step = "updated"
      BY DEF MadeAreThere
    <3>1. CASE s = t
      BY <3>1, <2>1, <2>4, <2>7
    <3>2. CASE s # t
      <4>1. run'[s] = run[s]
        BY <3>2, <2>2
      <4>2. run[Script].step = "updated" => run'[Script].step = "updated"
        BY <1>0, <2>2, <2>8
      <4>3. PICK u \in users : /\ u.username = run[s].key[2]
                               /\ (u.password = run[s].password /\ u.role = run[s].role)
                                  \/ run[Script].step = "updated"
        BY <4>1 DEF AccountsInv, MadeAreThere
      <4>4. u \in users'
        BY <2>1
      <4>5. QED
        BY <4>1, <4>2, <4>3, <4>4
    <3>3. QED
      BY <3>1, <3>2
  <2>10. \A s \in People : s # t /\ run[s].step = "201" => run[s].key[2] # run[t].key[2]
    BY <2>5 DEF AccountsInv, MadeAreThere
  <2>11. OneMakerEach'
    <3> SUFFICES ASSUME NEW a \in People, NEW b \in People, run'[a].step = "201",
                        run'[b].step = "201", run'[a].key[2] = run'[b].key[2]
                 PROVE  a = b
      BY DEF OneMakerEach
    <3>1. CASE a = t \/ b = t
      BY <3>1, <2>2, <2>7, <2>10
    <3>2. CASE a # t /\ b # t
      BY <3>2, <2>2 DEF AccountsInv, OneMakerEach
    <3>3. QED
      BY <3>1, <3>2
  <2>12. QED
    BY <2>3, <2>6, <2>9, <2>11 DEF AccountsInv
<1>2. CASE ~Unique(users, new.username)
  <2>r. PICK r : r = [Idle EXCEPT !.step = "500"]
    OBVIOUS
  <2>1. run' = [run EXCEPT ![t] = r] /\ users' = users
    BY <2>r, <1>2 DEF CommitUser, Done
  <2>2. IsRun(r) /\ r.step = "500"
    BY <2>r DEF Idle, IsRun
  <2>3. \A s \in People : run'[s] = IF s = t THEN r ELSE run[s]
    BY <2>1 DEF AccountsInv, RunShape
  <2>4. RunShape'
    BY <2>1, <2>2 DEF AccountsInv, RunShape
  <2>5. RowShape' /\ OneRowEach'
    BY <2>1 DEF AccountsInv, RowShape, OneRowEach
  <2>6. Script \in People /\ (run[Script].step = "updated" => run'[Script] = run[Script])
    BY <1>0, <2>3 DEF People
  <2>7. MadeAreThere'
    BY <2>1, <2>2, <2>3, <2>6 DEF AccountsInv, MadeAreThere
  <2>8. OneMakerEach'
    BY <2>2, <2>3 DEF AccountsInv, OneMakerEach
  <2>9. QED
    BY <2>4, <2>5, <2>7, <2>8 DEF AccountsInv
<1>3. QED
  BY <1>1, <1>2

\* The script never makes what it sets: an update replaces the row of a name.
LEMMA ScriptHolds ==
    ASSUME AccountsInv, StartScript \/ UpdateUser
    PROVE  AccountsInv'
<1>0. Script \in People
  BY DEF People
<1>1. CASE StartScript
  <2>1. PICK name \in Names, p \in Passwords, q \in Roles, s \in {"insert", "update"} :
           run' = [run EXCEPT ![Script] = [Idle EXCEPT !.key = <<Nobody, name>>, !.password = p,
                                              !.role = q, !.step = s]]
    BY <1>1, Zenon DEF StartScript
  <2>r. PICK r : r = [Idle EXCEPT !.key = <<Nobody, name>>, !.password = p, !.role = q, !.step = s]
    OBVIOUS
  <2>2. run' = [run EXCEPT ![Script] = r] /\ users' = users
    BY <2>r, <1>1, <2>1 DEF StartScript
  <2>3. IsRun(r) /\ r.step # "201"
    BY <2>r DEF Idle, IsRun
  <2>4. \A x \in People : run'[x] = IF x = Script THEN r ELSE run[x]
    BY <2>2 DEF AccountsInv, RunShape
  <2>5. run[Script].step = "idle"
    BY <1>1 DEF StartScript
  <2>6. RunShape'
    BY <2>2, <2>3 DEF AccountsInv, RunShape
  <2>7. RowShape' /\ OneRowEach'
    BY <2>2 DEF AccountsInv, RowShape, OneRowEach
  <2>8. MadeAreThere'
    BY <1>0, <2>2, <2>3, <2>4, <2>5 DEF AccountsInv, MadeAreThere
  <2>9. OneMakerEach'
    BY <2>3, <2>4 DEF AccountsInv, OneMakerEach
  <2>10. QED
    BY <2>6, <2>7, <2>8, <2>9 DEF AccountsInv
<1>2. CASE UpdateUser
  <2> DEFINE me == run[Script]
             new == Row(me.key[2], me.password, me.role)
  <2>1. /\ me.step = "update"
        /\ users' = (users \ Rows(me.key[2])) \cup {new}
        /\ run' = [run EXCEPT ![Script].step = "updated"]
    BY <1>2 DEF UpdateUser
  <2>2. IsRun(me)
    BY <1>0 DEF AccountsInv, RunShape
  <2>r. PICK r : r = [me EXCEPT !.step = "updated"]
    OBVIOUS
  <2>q. IsRun(r) /\ r.step = "updated"
    BY <2>2, <2>r DEF IsRun
  <2>p. run' = [run EXCEPT ![Script] = r]
    BY <2>1, <2>r
  <2>3. \A x \in People : run'[x] = IF x = Script THEN r ELSE run[x]
    BY <2>p DEF AccountsInv, RunShape
  <2>4. RunShape'
    BY <2>q, <2>p DEF AccountsInv, RunShape
  <2>5. IsRow(new) /\ new.username = me.key[2]
    BY DEF Row, IsRow
  <2> HIDE DEF new
  <2>6. RowShape' /\ OneRowEach'
    BY <2>1, <2>5 DEF AccountsInv, RowShape, OneRowEach, Rows
  <2>7. run'[Script].step = "updated"
    BY <1>0, <2>q, <2>3
  <2>8. \A u \in users : \E v \in users' : v.username = u.username
    BY <2>1, <2>5 DEF Rows
  <2>9. MadeAreThere'
    BY <2>3, <2>7, <2>8 DEF AccountsInv, MadeAreThere
  <2>10. OneMakerEach'
    BY <2>3, <2>7 DEF AccountsInv, OneMakerEach
  <2>11. QED
    BY <2>4, <2>6, <2>9, <2>10 DEF AccountsInv
<1>3. QED
  BY <1>1, <1>2

\* A row that is switched off keeps its name, password and role.
LEMMA SwitchOffHolds == AccountsInv /\ SwitchOff => AccountsInv'
<1> SUFFICES ASSUME AccountsInv, SwitchOff PROVE AccountsInv'
  OBVIOUS
<1>1. PICK u \in users : users' = (users \ {u}) \cup {[u EXCEPT !.active = FALSE]}
  BY DEF SwitchOff
<1>o. PICK off : off = [u EXCEPT !.active = FALSE]
  OBVIOUS
<1>r. IsRow(u)
  BY DEF AccountsInv, RowShape
<1>2. /\ IsRow(off) /\ off.username = u.username
      /\ off.password = u.password /\ off.role = u.role
  BY <1>o, <1>r DEF IsRow
<1>3. users' = (users \ {u}) \cup {off}
  BY <1>1, <1>o
<1>4. RowShape' /\ OneRowEach'
  BY <1>2, <1>3 DEF AccountsInv, RowShape, OneRowEach
<1>5. run' = run
  BY DEF SwitchOff
<1>6. \A v \in users : \E w \in users' : /\ w.username = v.username
                                         /\ w.password = v.password /\ w.role = v.role
  BY <1>2, <1>3
<1>7. RunShape' /\ OneMakerEach'
  BY <1>5 DEF AccountsInv, RunShape, OneMakerEach
<1>8. MadeAreThere'
  <2> SUFFICES ASSUME NEW t \in People, run[t].step = "201"
               PROVE  \E w \in users' : /\ w.username = run[t].key[2]
                                        /\ (w.password = run[t].password /\ w.role = run[t].role)
                                           \/ run[Script].step = "updated"
    BY <1>5 DEF MadeAreThere
  <2>1. PICK v \in users : /\ v.username = run[t].key[2]
                           /\ (v.password = run[t].password /\ v.role = run[t].role)
                              \/ run[Script].step = "updated"
    BY DEF AccountsInv, MadeAreThere
  <2>2. PICK w \in users' : /\ w.username = v.username
                            /\ w.password = v.password /\ w.role = v.role
    BY <1>6
  <2>3. QED
    BY <2>1, <2>2
<1>9. QED
  BY <1>4, <1>7, <1>8 DEF AccountsInv

\* What the accounts and the threads are is all the invariant speaks of.
LEMMA UntouchedHolds == AccountsInv /\ run' = run /\ users' = users => AccountsInv'
<1> SUFFICES ASSUME AccountsInv, run' = run, users' = users PROVE AccountsInv'
  OBVIOUS
<1>1. RunShape' /\ RowShape'
  BY DEF AccountsInv, RunShape, RowShape
<1>2. OneRowEach' /\ OneMakerEach'
  BY DEF AccountsInv, OneRowEach, OneMakerEach
<1>3. MadeAreThere'
  BY DEF AccountsInv, MadeAreThere
<1>4. QED
  BY <1>1, <1>2, <1>3 DEF AccountsInv

LEMMA NextHolds == AccountsInv /\ [Next]_vars => AccountsInv'
<1> SUFFICES ASSUME AccountsInv, [Next]_vars PROVE AccountsInv'
  OBVIOUS
<1>1. CASE Tick \/ UNCHANGED vars
  BY <1>1, UntouchedHolds DEF Tick, vars
<1>2. CASE StartScript \/ UpdateUser
  BY <1>2, ScriptHolds
<1>3. CASE CommitUser(Script)
  BY <1>3, CommitUserHolds DEF People
<1>4. CASE SwitchOff
  BY <1>4, SwitchOffHolds
<1>5. ASSUME NEW t \in Threads,
             \/ SignIn(t) \/ StartCheck(t) \/ IsLocked(t) \/ Verify(t) \/ StartFailure(t)
             \/ StoreFailure(t) \/ RecordFailure(t) \/ Reset(t)
      PROVE  AccountsInv'
  BY <1>5, SigningInHolds
<1>6. ASSUME NEW t \in Threads, CreateUser(t)
      PROVE  AccountsInv'
  BY <1>6, CreateUserHolds
<1>7. ASSUME NEW t \in Threads, CommitUser(t)
      PROVE  AccountsInv'
  BY <1>7, CommitUserHolds DEF People
<1>8. QED
  BY <1>1, <1>2, <1>3, <1>4, <1>5, <1>6, <1>7 DEF Next

-----------------------------------------------------------------------------
\* A set without two different elements has at most one.
LEMMA AtMostOne ==
    ASSUME NEW S, \A a, b \in S : a = b
    PROVE  Cardinality(S) <= 1
<1>1. CASE S = {}
  BY <1>1, FS_EmptySet
<1>2. CASE S # {}
  <2>1. PICK a \in S : S = {a}
    BY <1>2
  <2>2. QED
    BY <2>1, FS_Singleton
<1>3. QED
  BY <1>1, <1>2

LEMMA CreatedOnceHolds == AccountsInv => AccountIsCreatedOnce
<1> SUFFICES ASSUME AccountsInv, NEW name \in Names
             PROVE  LET M == {t \in DOMAIN run : run[t].step = "201" /\ run[t].key[2] = name}
                    IN  /\ Cardinality(Rows(name)) <= 1
                        /\ Cardinality(M) <= 1
                        /\ \A t \in M : \E u \in Rows(name) :
                              (u.password = run[t].password /\ u.role = run[t].role)
                              \/ run[Script].step = "updated"
  BY DEF AccountIsCreatedOnce
<1> DEFINE M == {t \in DOMAIN run : run[t].step = "201" /\ run[t].key[2] = name}
<1>1. DOMAIN run = People
  BY DEF AccountsInv, RunShape
<1>2. Cardinality(Rows(name)) <= 1
  <2>1. \A u, v \in Rows(name) : u = v
    BY DEF Rows, AccountsInv, OneRowEach
  <2>2. QED
    BY <2>1, AtMostOne
<1>3. Cardinality(M) <= 1
  <2>1. \A s, t \in M : s = t
    BY <1>1 DEF AccountsInv, OneMakerEach
  <2> HIDE DEF M
  <2>2. QED
    BY <2>1, AtMostOne
<1>4. \A t \in M : \E u \in Rows(name) :
         (u.password = run[t].password /\ u.role = run[t].role) \/ run[Script].step = "updated"
  BY <1>1 DEF Rows, AccountsInv, MadeAreThere
<1>5. QED
  BY <1>2, <1>3, <1>4

\* However many administrators and scripts create one name at once, one row
\* has it, one of them is told it succeeded, and the account is theirs until
\* the script sets it again (auth.py:57-68, models.py:24).
THEOREM AccountsCreatedOnce == Spec => []AccountIsCreatedOnce
<1>1. Init => AccountsInv
  BY InitHolds
<1>2. AccountsInv /\ [Next]_vars => AccountsInv'
  BY NextHolds
<1>3. AccountsInv => AccountIsCreatedOnce
  BY CreatedOnceHolds
<1>4. QED
  BY <1>1, <1>2, <1>3, PTL DEF Spec

-----------------------------------------------------------------------------
(***************************************************************************)
(* The throttle.  Every list, stored or just copied, holds failures that   *)
(* there were, each once: this makes a 429 earned, whatever the threads    *)
(* overwrite of each other.  As long as a key is used by one sign-in at a  *)
(* time the converse holds, too: every failure since the last success that *)
(* is still within the window is in the list, so that whoever is let in    *)
(* had fewer than max_failures.                                            *)
(***************************************************************************)

\* Every element of s is an entry of the log l of its own.
Logged(s, l) ==
    \E f \in [DOMAIN s -> DOMAIN l] :
        /\ \A i, j \in DOMAIN s : f[i] = f[j] => i = j
        /\ \A i \in DOMAIN s : l[f[i]] = s[i]

\* The entries of l after the first ones that are later than cutoff.
Counted(l, first, cutoff) == {i \in first + 1 .. Len(l) : l[i] > cutoff}

\* Every one of them is an element of s of its own.
Covered(s, l, first, cutoff) ==
    \E f \in [Counted(l, first, cutoff) -> DOMAIN s] :
        /\ \A i, j \in Counted(l, first, cutoff) : f[i] = f[j] => i = j
        /\ \A i \in Counted(l, first, cutoff) : s[f[i]] = l[i]

\* _recent keeps the later elements, each once.
Keeps(place, r, s, cutoff) ==
    /\ place \in [DOMAIN r -> DOMAIN s]
    /\ \A i, j \in DOMAIN r : place[i] = place[j] => i = j
    /\ \A i \in DOMAIN r : r[i] = s[place[i]] /\ s[place[i]] > cutoff
    /\ \A j \in DOMAIN s : s[j] > cutoff => \E i \in DOMAIN r : place[i] = j

LEMMA RecentKeeps ==
    ASSUME NEW s \in Seq(Int), NEW cutoff \in Int
    PROVE  /\ Recent(s, cutoff) \in Seq(Int)
           /\ \E place : Keeps(place, Recent(s, cutoff), s, cutoff)
<1> DEFINE I == {i \in DOMAIN s : s[i] > cutoff}
           key == [i \in I |-> i]
           R == Pick(s, I, key)
           N == 1 .. Cardinality(I)
<1>1. Recent(s, cutoff) = R
  BY DEF Recent, Where
<1>2. I \in SUBSET DOMAIN s /\ key \in [I -> Int] /\ I \in SUBSET Int
  OBVIOUS
<1>3. \A j \in DOMAIN s : j \in I <=> s[j] > cutoff
  OBVIOUS
<1> HIDE DEF I, key
<1>4. /\ R \in Seq(Int) /\ Len(R) = Cardinality(I) /\ Cardinality(I) \in Nat
      /\ \E place : Enumerates(place, I, key) /\ \A n \in N : R[n] = s[place[n]]
  BY <1>2, PickIsOrdered
<1>5. PICK place : Enumerates(place, I, key) /\ \A n \in N : R[n] = s[place[n]]
  BY <1>4
<1> HIDE DEF R
<1>6. DOMAIN R = N
  BY <1>4
<1>7. ASSUME NEW m \in N, NEW n \in N, place[m] = place[n] PROVE m = n
  <2>1. Enumerates(place, I, key) /\ Cardinality(I) \in Nat
    BY <1>4, <1>5
  <2>2. QED
    BY <1>2, <1>7, <2>1, EnumeratesOnce
<1>8. place \in [N -> I] /\ \A i \in I : \E n \in N : place[n] = i
  BY <1>5 DEF Enumerates
<1> HIDE DEF N
<1>9. place \in [N -> DOMAIN s]
  BY <1>2, <1>8
<1>10. \A n \in N : R[n] = s[place[n]] /\ s[place[n]] > cutoff
  BY <1>3, <1>5, <1>8, <1>9
<1>11. \A j \in DOMAIN s : s[j] > cutoff => \E n \in N : place[n] = j
  BY <1>3, <1>8
<1>12. Keeps(place, R, s, cutoff)
  BY <1>6, <1>7, <1>9, <1>10, <1>11 DEF Keeps
<1>13. QED
  BY <1>1, <1>4, <1>12

LEMMA LoggedRecent ==
    ASSUME NEW s \in Seq(Int), NEW cutoff \in Int, NEW l \in Seq(Int), Logged(s, l)
    PROVE  Logged(Recent(s, cutoff), l)
<1>1. PICK R : R = Recent(s, cutoff)
  OBVIOUS
<1>2. PICK f \in [DOMAIN s -> DOMAIN l] :
         /\ \A i, j \in DOMAIN s : f[i] = f[j] => i = j
         /\ \A i \in DOMAIN s : l[f[i]] = s[i]
  BY DEF Logged
<1>3. PICK place : Keeps(place, R, s, cutoff)
  BY <1>1, RecentKeeps
<1> DEFINE g == [i \in DOMAIN R |-> f[place[i]]]
<1>4. g \in [DOMAIN R -> DOMAIN l]
  BY <1>2, <1>3 DEF Keeps
<1>5. \A i, j \in DOMAIN R : g[i] = g[j] => i = j
  BY <1>2, <1>3 DEF Keeps
<1>6. \A i \in DOMAIN R : l[g[i]] = R[i]
  BY <1>2, <1>3 DEF Keeps
<1> HIDE DEF g
<1>7. Logged(R, l)
  BY <1>4, <1>5, <1>6 DEF Logged
<1>8. QED
  BY <1>1, <1>7

LEMMA LoggedGrows ==
    ASSUME NEW s \in Seq(Int), NEW l \in Seq(Int), NEW x \in Int, Logged(s, l)
    PROVE  Logged(s, Append(l, x)) /\ Logged(Append(s, x), Append(l, x))
<1>1. PICK f \in [DOMAIN s -> DOMAIN l] :
         /\ \A i, j \in DOMAIN s : f[i] = f[j] => i = j
         /\ \A i \in DOMAIN s : l[f[i]] = s[i]
  BY DEF Logged
<1>2. PICK m \in Seq(Int) : m = Append(l, x)
  <2>1. Append(l, x) \in Seq(Int)
    OBVIOUS
  <2>2. QED
    BY <2>1
<1>3. /\ DOMAIN l = 1 .. Len(l) /\ Len(l) \in Nat /\ DOMAIN m = 1 .. Len(l) + 1
      /\ \A i \in DOMAIN l : m[i] = l[i] /\ m[Len(l) + 1] = x
  BY <1>2
<1>3a. m[Len(l) + 1] = x
  BY <1>2
<1>4. PICK t \in Seq(Int) : t = Append(s, x)
  <2>1. Append(s, x) \in Seq(Int)
    OBVIOUS
  <2>2. QED
    BY <2>1
<1>5. /\ DOMAIN s = 1 .. Len(s) /\ Len(s) \in Nat /\ DOMAIN t = 1 .. Len(s) + 1
      /\ \A i \in DOMAIN s : t[i] = s[i]
  BY <1>4
<1>5a. t[Len(s) + 1] = x
  BY <1>4
<1>6. Logged(s, m)
  <2>1. f \in [DOMAIN s -> DOMAIN m]
    BY <1>1, <1>3
  <2>2. \A i \in DOMAIN s : m[f[i]] = s[i]
    BY <1>1, <1>3
  <2>3. QED
    BY <1>1, <2>1, <2>2 DEF Logged
<1>7. Logged(t, m)
  <2> DEFINE g == [i \in DOMAIN t |-> IF i \in DOMAIN s THEN f[i] ELSE Len(l) + 1]
  <2>1. \A i \in DOMAIN t : i \in DOMAIN s \/ i = Len(s) + 1
    BY <1>5
  <2>2. Len(s) + 1 \notin DOMAIN s /\ Len(l) + 1 \notin DOMAIN l /\ Len(l) + 1 \in DOMAIN m
    BY <1>3, <1>5
  <2>3. g \in [DOMAIN t -> DOMAIN m]
    <3>1. \A i \in DOMAIN s : f[i] \in DOMAIN m
      BY <1>1, <1>3
    <3>2. \A i \in DOMAIN t : (IF i \in DOMAIN s THEN f[i] ELSE Len(l) + 1) \in DOMAIN m
      BY ONLY <2>2, <3>1
    <3>3. QED
      BY <3>2
  <2>4. \A i, j \in DOMAIN t : g[i] = g[j] => i = j
    <3> SUFFICES ASSUME NEW i \in DOMAIN t, NEW j \in DOMAIN t, g[i] = g[j] PROVE i = j
      OBVIOUS
    <3>1. CASE i \in DOMAIN s /\ j \in DOMAIN s
      BY <1>1, <3>1
    <3>2. CASE i \in DOMAIN s /\ j \notin DOMAIN s
      BY <1>1, <2>2, <3>2
    <3>3. CASE i \notin DOMAIN s /\ j \in DOMAIN s
      BY <1>1, <2>2, <3>3
    <3>4. CASE i \notin DOMAIN s /\ j \notin DOMAIN s
      BY <2>1, <3>4
    <3>5. QED
      BY <3>1, <3>2, <3>3, <3>4
  <2>5. \A i \in DOMAIN t : m[g[i]] = t[i]
    BY <1>1, <1>3, <1>3a, <1>5, <1>5a, <2>1, <2>2
  <2> HIDE DEF g
  <2>6. QED
    BY <2>3, <2>4, <2>5 DEF Logged
<1>8. QED
  BY <1>2, <1>4, <1>6, <1>7

LEMMA CountedIsFinite ==
    ASSUME NEW l \in Seq(Int), NEW first \in Nat, NEW cutoff
    PROVE  /\ Counted(l, first, cutoff) \subseteq 1 .. Len(l)
           /\ IsFiniteSet(Counted(l, first, cutoff))
           /\ Cardinality(Counted(l, first, cutoff)) \in Nat
<1>1. Len(l) \in Nat
  OBVIOUS
<1>2. Counted(l, first, cutoff) \subseteq 1 .. Len(l)
  BY <1>1 DEF Counted
<1>3. IsFiniteSet(1 .. Len(l))
  BY <1>1, FS_Interval
<1>4. IsFiniteSet(Counted(l, first, cutoff))
  BY <1>2, <1>3, FS_Subset
<1>5. QED
  BY <1>2, <1>4, FS_CardinalityType

\* A list of later elements is no longer than there are later entries.
LEMMA LoggedCount ==
    ASSUME NEW s \in Seq(Int), NEW l \in Seq(Int), NEW cutoff \in Int, Logged(s, l),
           \A i \in DOMAIN s : s[i] > cutoff
    PROVE  Len(s) <= Cardinality(Counted(l, 0, cutoff))
<1>1. PICK f \in [DOMAIN s -> DOMAIN l] :
         /\ \A i, j \in DOMAIN s : f[i] = f[j] => i = j
         /\ \A i \in DOMAIN s : l[f[i]] = s[i]
  BY DEF Logged
<1>2. DOMAIN s = 1 .. Len(s) /\ Len(s) \in Nat /\ DOMAIN l = 0 + 1 .. Len(l)
  OBVIOUS
<1>3. f \in [DOMAIN s -> Counted(l, 0, cutoff)]
  BY <1>1, <1>2 DEF Counted
<1>4. f \in Injection(DOMAIN s, Counted(l, 0, cutoff))
  BY <1>1, <1>3 DEF Injection, IsInjective
<1>5. IsFiniteSet(Counted(l, 0, cutoff))
  BY CountedIsFinite
<1>6. Cardinality(DOMAIN s) <= Cardinality(Counted(l, 0, cutoff))
  BY <1>4, <1>5, FS_Injection, Zenon
<1>7. Cardinality(1 .. Len(s)) = Len(s)
  BY <1>2, CardinalityUpTo
<1>8. QED
  BY <1>2, <1>6, <1>7

LEMMA CoveredCount ==
    ASSUME NEW s \in Seq(Int), NEW l \in Seq(Int), NEW first \in Nat, NEW cutoff \in Int,
           Covered(s, l, first, cutoff)
    PROVE  Cardinality(Counted(l, first, cutoff)) <= Len(s)
<1> DEFINE C == Counted(l, first, cutoff)
<1>1. PICK f \in [C -> DOMAIN s] : \A i, j \in C : f[i] = f[j] => i = j
  BY DEF Covered
<1>2. f \in Injection(C, DOMAIN s)
  BY <1>1 DEF Injection, IsInjective
<1>3. DOMAIN s = 1 .. Len(s) /\ Len(s) \in Nat
  OBVIOUS
<1>4. IsFiniteSet(1 .. Len(s)) /\ Cardinality(1 .. Len(s)) = Len(s)
  BY <1>3, CardinalityUpTo
<1>4a. IsFiniteSet(DOMAIN s) /\ Cardinality(DOMAIN s) = Len(s)
  BY <1>3, <1>4
<1> HIDE DEF C
<1>5. Cardinality(C) <= Cardinality(DOMAIN s)
  BY <1>2, <1>4a, FS_Injection
<1>6. QED
  BY <1>4a, <1>5 DEF C

LEMMA CoveredLater ==
    ASSUME NEW s, NEW l \in Seq(Int), NEW first \in Nat, NEW cutoff \in Int,
           NEW later \in Int, later >= cutoff, Covered(s, l, first, cutoff)
    PROVE  Covered(s, l, first, later)
<1>1. PICK f \in [Counted(l, first, cutoff) -> DOMAIN s] :
         /\ \A i, j \in Counted(l, first, cutoff) : f[i] = f[j] => i = j
         /\ \A i \in Counted(l, first, cutoff) : s[f[i]] = l[i]
  BY DEF Covered
<1>2. Counted(l, first, later) \subseteq Counted(l, first, cutoff)
  <2> SUFFICES ASSUME NEW i \in Counted(l, first, later) PROVE i \in Counted(l, first, cutoff)
    OBVIOUS
  <2>1. i \in first + 1 .. Len(l) /\ i \in 1 .. Len(l) /\ l[i] > later
    BY DEF Counted
  <2>2. l[i] \in Int
    BY <2>1
  <2>3. QED
    BY <2>1, <2>2 DEF Counted
<1> DEFINE g == [i \in Counted(l, first, later) |-> f[i]]
<1>3. /\ g \in [Counted(l, first, later) -> DOMAIN s]
      /\ \A i, j \in Counted(l, first, later) : g[i] = g[j] => i = j
      /\ \A i \in Counted(l, first, later) : s[g[i]] = l[i]
  BY <1>1, <1>2
<1> HIDE DEF g
<1>4. QED
  BY <1>3 DEF Covered

LEMMA CoveredRecent ==
    ASSUME NEW s \in Seq(Int), NEW cutoff \in Int, NEW l \in Seq(Int), NEW first \in Nat,
           Covered(s, l, first, cutoff)
    PROVE  Covered(Recent(s, cutoff), l, first, cutoff)
<1> DEFINE C == Counted(l, first, cutoff)
<1>1. PICK f \in [C -> DOMAIN s] :
         /\ \A i, j \in C : f[i] = f[j] => i = j
         /\ \A i \in C : s[f[i]] = l[i]
  BY DEF Covered
<1>2. \A i \in C : l[i] > cutoff
  BY DEF Counted
<1> HIDE DEF C
<1>3. PICK R : R = Recent(s, cutoff)
  OBVIOUS
<1>4. PICK place : Keeps(place, R, s, cutoff)
  BY <1>3, RecentKeeps
<1> DEFINE g == [i \in C |-> CHOOSE n \in DOMAIN R : place[n] = f[i]]
<1>5. \A i \in C : g[i] \in DOMAIN R /\ place[g[i]] = f[i]
  <2> TAKE i \in C
  <2>1. f[i] \in DOMAIN s /\ s[f[i]] > cutoff
    BY <1>1, <1>2
  <2>2. \E n \in DOMAIN R : place[n] = f[i]
    BY <1>4, <2>1 DEF Keeps
  <2>3. QED
    BY <2>2
<1>6. g \in [C -> DOMAIN R]
  BY <1>5
<1> HIDE DEF g
<1>7. \A i, j \in C : g[i] = g[j] => i = j
  <2> SUFFICES ASSUME NEW i \in C, NEW j \in C, g[i] = g[j] PROVE i = j
    OBVIOUS
  <2>1. f[i] = f[j]
    BY <1>5
  <2>2. QED
    BY <1>1, <2>1
<1>8. \A i \in C : R[g[i]] = l[i]
  BY <1>1, <1>4, <1>5 DEF Keeps
<1>9. QED
  BY <1>3, <1>6, <1>7, <1>8 DEF Covered, C

LEMMA CoveredGrows ==
    ASSUME NEW s \in Seq(Int), NEW l \in Seq(Int), NEW first \in Nat, NEW cutoff \in Int,
           NEW x \in Int, Covered(s, l, first, cutoff)
    PROVE  Covered(Append(s, x), Append(l, x), first, cutoff)
<1> DEFINE C == Counted(l, first, cutoff)
<1>1. PICK f \in [C -> DOMAIN s] :
         /\ \A i, j \in C : f[i] = f[j] => i = j
         /\ \A i \in C : s[f[i]] = l[i]
  BY DEF Covered
<1>2. PICK m \in Seq(Int) : m = Append(l, x)
  <2>1. Append(l, x) \in Seq(Int)
    OBVIOUS
  <2>2. QED
    BY <2>1
<1>3. /\ DOMAIN l = 1 .. Len(l) /\ Len(l) \in Nat /\ Len(m) = Len(l) + 1
      /\ \A i \in DOMAIN l : m[i] = l[i]
  BY <1>2
<1>3a. m[Len(l) + 1] = x
  BY <1>2
<1>4. PICK t \in Seq(Int) : t = Append(s, x)
  <2>1. Append(s, x) \in Seq(Int)
    OBVIOUS
  <2>2. QED
    BY <2>1
<1>5. /\ DOMAIN s = 1 .. Len(s) /\ Len(s) \in Nat /\ DOMAIN t = 1 .. Len(s) + 1
      /\ \A i \in DOMAIN s : t[i] = s[i]
  BY <1>4
<1>5a. t[Len(s) + 1] = x
  BY <1>4
<1> DEFINE D == Counted(m, first, cutoff)
           g == [i \in D |-> IF i \in C THEN f[i] ELSE Len(s) + 1]
<1>6. \A i \in D : i \in C \/ i = Len(l) + 1
  <2> SUFFICES ASSUME NEW i \in D, i # Len(l) + 1 PROVE i \in C
    OBVIOUS
  <2>1. i \in first + 1 .. Len(l) + 1 /\ m[i] > cutoff
    BY <1>3 DEF Counted
  <2>2. i \in first + 1 .. Len(l) /\ i \in DOMAIN l
    BY <1>3, <2>1
  <2>3. l[i] > cutoff
    BY <1>3, <2>1, <2>2
  <2>4. QED
    BY <2>2, <2>3 DEF Counted
<1>7. C \subseteq DOMAIN l
  BY <1>3, CountedIsFinite
<1>8. Len(l) + 1 \notin C /\ Len(s) + 1 \notin DOMAIN s /\ Len(s) + 1 \in DOMAIN t
  BY <1>3, <1>5, <1>7
<1> HIDE DEF C, D
<1>9. g \in [D -> DOMAIN t]
  BY <1>1, <1>5, <1>8
<1>10. \A i, j \in D : g[i] = g[j] => i = j
  BY <1>1, <1>6, <1>8
<1>11. \A i \in D : t[g[i]] = m[i]
  <2> SUFFICES ASSUME NEW i \in D PROVE t[g[i]] = m[i]
    OBVIOUS
  <2>1. CASE i \in C
    <3>1. g[i] = f[i] /\ f[i] \in DOMAIN s /\ i \in DOMAIN l
      BY <1>1, <1>7, <2>1
    <3>2. QED
      BY <1>1, <1>3, <1>5, <2>1, <3>1
  <2>2. CASE i \notin C
    BY <1>3a, <1>5a, <1>6, <2>2
  <2>3. QED
    BY <2>1, <2>2
<1> HIDE DEF g
<1>12. Covered(t, m, first, cutoff)
  BY <1>9, <1>10, <1>11 DEF Covered, D
<1>13. QED
  BY <1>2, <1>4, <1>12

\* Nothing is left to count once everything is cleared.
LEMMA CoveredCleared ==
    ASSUME NEW s, NEW l \in Seq(Int), NEW cutoff
    PROVE  Covered(s, l, Len(l), cutoff)
<1>1. Counted(l, Len(l), cutoff) = {}
  <2>1. Len(l) \in Nat
    OBVIOUS
  <2>2. Len(l) + 1 .. Len(l) = {}
    BY <2>1
  <2>3. QED
    BY <2>2 DEF Counted
<1>2. PICK f : f = [i \in {} |-> 0]
  OBVIOUS
<1>3. f \in [{} -> DOMAIN s]
  BY <1>2
<1>4. \E g \in [{} -> DOMAIN s] : TRUE
  BY <1>3
<1>5. QED
  BY <1>1, <1>4 DEF Covered

-----------------------------------------------------------------------------
(* What the lists and the threads are like.                                *)

Throttling == {"check", "locked?", "verify", "failed", "store", "append", "reset"}
SigningIn(t) == run[t].step \in Throttling

IsList(f) == f = [times |-> f.times, maker |-> f.maker]

ThrottleShape ==
    /\ now \in Int
    /\ failures = [k \in Keys |-> failures[k]]
    /\ log \in [Keys -> Seq(Int)] /\ cleared \in [Keys -> Nat]
    /\ \A k \in Keys : /\ IsList(failures[k]) /\ failures[k].times \in Seq(Int)
                       /\ cleared[k] <= Len(log[k])

ListOK(k) ==
    /\ Logged(failures[k].times, log[k])
    /\ k \notin overlapped => Covered(failures[k].times, log[k], cleared[k], now - window_s)

\* The copy of r, which is what a thread is doing.
CopyOK(r) ==
    r.step \in {"locked?", "store"} =>
        /\ r.copy \in Seq(Int) /\ r.since \in Int /\ r.since <= now - window_s
        /\ Logged(r.copy, log[r.key])
        /\ \A i \in DOMAIN r.copy : r.copy[i] > r.since
        /\ r.key \notin overlapped => Covered(r.copy, log[r.key], cleared[r.key], r.since)

RefusalOK(r) ==
    r.step = "429" => /\ r.key \in Keys /\ r.since \in Int
                      /\ Cardinality(Counted(log[r.key], 0, r.since)) >= max_failures

LetInOK(r) ==
    r.step = "verify" /\ r.key \notin overlapped =>
        /\ r.since \in Int
        /\ Cardinality(Counted(log[r.key], cleared[r.key], r.since)) < max_failures

ThreadOK(t, r) ==
    /\ r.step \in Throttling => r.key \in Keys
    /\ CopyOK(r) /\ RefusalOK(r) /\ LetInOK(r)
    /\ r.step = "append" /\ r.key \notin overlapped => failures[r.key].maker = t

OneAtATime ==
    \A t, u \in Threads :
        SigningIn(t) /\ SigningIn(u) /\ run[t].key = run[u].key /\ run[t].key \notin overlapped => t = u

ThrottleInv ==
    /\ ThrottleShape /\ OneAtATime
    /\ \A k \in Keys : ListOK(k)
    /\ \A t \in Threads : ThreadOK(t, run[t])

LEMMA ThrottleInit == Init => ThrottleInv
<1> SUFFICES ASSUME Init PROVE ThrottleInv
  OBVIOUS
<1>0. <<>> \in Seq(Int) /\ Len(<<>>) = 0 /\ DOMAIN <<>> = {}
  OBVIOUS
<1>1. ThrottleShape
  <2>1. /\ now = 0 /\ failures = [k \in Keys |-> NoList]
        /\ log = [k \in Keys |-> <<>>] /\ cleared = [k \in Keys |-> 0]
    BY DEF Init
  <2>2. failures = [k \in Keys |-> failures[k]] /\ log \in [Keys -> Seq(Int)] /\ cleared \in [Keys -> Nat]
    BY <1>0, <2>1
  <2>3. \A k \in Keys : failures[k] = NoList /\ log[k] = <<>> /\ cleared[k] = 0
    BY <2>1
  <2>4. IsList(NoList) /\ NoList.times \in Seq(Int)
    BY <1>0 DEF IsList, NoList
  <2>5. QED
    BY <1>0, <2>1, <2>2, <2>3, <2>4 DEF ThrottleShape
<1>2. ASSUME NEW k \in Keys PROVE ListOK(k)
  <2>1. failures[k].times = <<>> /\ log[k] = <<>> /\ cleared[k] = 0
    BY DEF Init, NoList
  <2>2. Logged(<<>>, <<>>)
    <3>1. PICK f : f = [i \in {} |-> 0]
      OBVIOUS
    <3>2. f \in [DOMAIN <<>> -> DOMAIN <<>>]
      BY <1>0, <3>1
    <3>3. QED
      BY <1>0, <3>2 DEF Logged
  <2>3. Covered(<<>>, <<>>, 0, now - window_s)
    BY <1>0, CoveredCleared
  <2>4. QED
    BY <2>1, <2>2, <2>3 DEF ListOK
<1>3. \A t \in Threads : run[t].step = "idle"
  BY DEF Init, Idle
<1>4. OneAtATime /\ \A t \in Threads : ThreadOK(t, run[t])
  BY <1>3 DEF OneAtATime, SigningIn, Throttling, ThreadOK, CopyOK, RefusalOK, LetInOK
<1>5. QED
  BY <1>1, <1>2, <1>4 DEF ThrottleInv

-----------------------------------------------------------------------------
\* More entries count for no less.
LEMMA MoreIsCounted ==
    ASSUME NEW l \in Seq(Int), NEW x \in Int, NEW cutoff \in Int
    PROVE  Cardinality(Counted(l, 0, cutoff)) <= Cardinality(Counted(Append(l, x), 0, cutoff))
<1>1. Append(l, x) \in Seq(Int)
  OBVIOUS
<1>2. PICK m \in Seq(Int) : m = Append(l, x)
  BY <1>1
<1>3. Len(m) = Len(l) + 1 /\ Len(l) \in Nat /\ \A i \in 1 .. Len(l) : m[i] = l[i]
  BY <1>2
<1>4. Counted(l, 0, cutoff) \subseteq Counted(m, 0, cutoff)
  BY <1>3 DEF Counted
<1>5. IsFiniteSet(Counted(m, 0, cutoff))
  BY CountedIsFinite
<1>6. QED
  BY <1>2, <1>4, <1>5, FS_Subset

\* A step that neither signs in nor touches the throttle.
LEMMA QuietHolds ==
    ASSUME RunShape, ThrottleInv, NEW t \in People, NEW r, r.step \notin Throttling \cup {"429"},
           run' = [run EXCEPT ![t] = r], UNCHANGED <<now, failures, ghosts>>
    PROVE  ThrottleInv'
<1>1. now' = now /\ failures' = failures /\ log' = log /\ cleared' = cleared /\ overlapped' = overlapped
  BY DEF ghosts
<1>2. \A u \in People : run'[u] = IF u = t THEN r ELSE run[u]
  BY DEF RunShape, People
<1>3. ThrottleShape'
  BY <1>1 DEF ThrottleInv, ThrottleShape
<1>4. ASSUME NEW k \in Keys PROVE ListOK(k)'
  BY <1>1 DEF ThrottleInv, ListOK
<1>5. OneAtATime'
  BY <1>1, <1>2 DEF ThrottleInv, OneAtATime, SigningIn, People
<1>6. ASSUME NEW u \in Threads PROVE ThreadOK(u, run[u])'
  <2>1. CASE u = t
    <3>1. run'[u] = r
      BY <1>2, <2>1
    <3>2. QED
      BY <3>1 DEF ThreadOK, CopyOK, RefusalOK, LetInOK, Throttling
  <2>2. CASE u # t
    <3>1. run'[u] = run[u]
      BY <1>2, <2>2 DEF People
    <3>2. ThreadOK(u, run[u])
      BY DEF ThrottleInv
    <3>3. QED
      BY <1>1, <3>1, <3>2 DEF ThreadOK, CopyOK, RefusalOK, LetInOK
  <2>3. QED
    BY <2>1, <2>2
<1>7. QED
  BY <1>3, <1>4, <1>5, <1>6 DEF ThrottleInv

\* Time passes; the window moves on.
LEMMA TickHolds == ThrottleInv /\ Tick => ThrottleInv'
<1> SUFFICES ASSUME ThrottleInv, Tick PROVE ThrottleInv'
  OBVIOUS
<1>1. /\ now' = now + 1 /\ run' = run /\ failures' = failures /\ log' = log
      /\ cleared' = cleared /\ overlapped' = overlapped
  BY DEF Tick, ghosts
<1>2. now \in Int /\ window_s \in Int
  BY AccessAssumption DEF ThrottleInv, ThrottleShape
<1>2a. now' - window_s = now + 1 - window_s
  BY <1>1, <1>2
<1>3. ThrottleShape'
  BY <1>1, <1>2 DEF ThrottleInv, ThrottleShape
<1>4. ASSUME NEW k \in Keys PROVE ListOK(k)'
  <2>1. Logged(failures[k].times, log[k])
    BY DEF ThrottleInv, ListOK
  <2>2. ASSUME k \notin overlapped
        PROVE  Covered(failures[k].times, log[k], cleared[k], now + 1 - window_s)
    <3>1. Covered(failures[k].times, log[k], cleared[k], now - window_s)
      BY <2>2 DEF ThrottleInv, ListOK
    <3>2. log[k] \in Seq(Int) /\ cleared[k] \in Nat
      BY DEF ThrottleInv, ThrottleShape
    <3>3. now - window_s \in Int /\ now + 1 - window_s \in Int /\ now + 1 - window_s >= now - window_s
      BY <1>2
    <3>4. QED
      BY <3>1, <3>2, <3>3, CoveredLater
  <2>3. QED
    BY <1>1, <1>2a, <2>1, <2>2 DEF ListOK
<1>5. OneAtATime'
  BY <1>1 DEF ThrottleInv, OneAtATime, SigningIn
<1>6. ASSUME NEW u \in Threads PROVE ThreadOK(u, run[u])'
  <2>1. ThreadOK(u, run[u])
    BY DEF ThrottleInv
  <2>2. ASSUME run[u].since \in Int, run[u].since <= now - window_s
        PROVE  run[u].since <= now + 1 - window_s
    BY <1>2, <2>2
  <2>3. CopyOK(run[u])'
    BY <1>1, <1>2a, <2>1, <2>2 DEF ThreadOK, CopyOK
  <2>4. QED
    BY <1>1, <2>1, <2>3 DEF ThreadOK, RefusalOK, LetInOK
<1>7. QED
  BY <1>3, <1>4, <1>5, <1>6 DEF ThrottleInv

\* A step of a sign-in leaves every other one as it is: those of its key
\* overlap with it.
LEMMA OwnStepHolds ==
    ASSUME RunShape, ThrottleInv, NEW t \in Threads, NEW r, NEW k, SigningIn(t), k = run[t].key,
           run' = [run EXCEPT ![t] = r], r.step \in Throttling => r.key = k,
           now' = now, overlapped' = overlapped, ThrottleShape',
           \A j \in Keys \ {k} : /\ failures'[j] = failures[j] /\ log'[j] = log[j]
                                 /\ cleared'[j] = cleared[j],
           log'[k] = log[k] \/ log'[k] = Append(log[k], now),
           ListOK(k)', ThreadOK(t, r)'
    PROVE  ThrottleInv'
<1>1. \A u \in Threads : run'[u] = IF u = t THEN r ELSE run[u]
  BY DEF RunShape, People
<1>2. ASSUME NEW j \in Keys PROVE ListOK(j)'
  <2>1. CASE j = k
    BY <2>1
  <2>2. CASE j # k
    BY <2>2 DEF ThrottleInv, ListOK
  <2>3. QED
    BY <2>1, <2>2
<1>3. OneAtATime'
  <2> SUFFICES ASSUME NEW s \in Threads, NEW u \in Threads, SigningIn(s)', SigningIn(u)',
                      run'[s].key = run'[u].key, run'[s].key \notin overlapped
               PROVE  s = u
    BY DEF OneAtATime
  <2>1. ASSUME NEW v \in Threads, SigningIn(v)' PROVE SigningIn(v) /\ run'[v].key = run[v].key
    BY <1>1, <2>1 DEF SigningIn
  <2>2. SigningIn(s) /\ SigningIn(u) /\ run[s].key = run[u].key /\ run[s].key \notin overlapped
    BY <2>1
  <2>3. QED
    BY <2>2 DEF ThrottleInv, OneAtATime
<1>4. ASSUME NEW u \in Threads PROVE ThreadOK(u, run[u])'
  <2>1. CASE u = t
    BY <1>1, <2>1 DEF ThreadOK, CopyOK, RefusalOK, LetInOK
  <2>2. CASE u # t
    <3>1. PICK a : a = run[u]
      OBVIOUS
    <3>2. run'[u] = a /\ ThreadOK(u, a)
      BY <1>1, <2>2, <3>1 DEF ThrottleInv
    <3>3. CASE a.step \notin Throttling \cup {"429"}
      BY <3>2, <3>3 DEF ThreadOK, CopyOK, RefusalOK, LetInOK, Throttling
    <3>4. CASE a.step \in Throttling \cup {"429"} /\ a.key # k
      <4>1. a.key \in Keys \ {k}
        BY <3>2, <3>4 DEF ThreadOK, RefusalOK
      <4>2. failures'[a.key] = failures[a.key] /\ log'[a.key] = log[a.key] /\ cleared'[a.key] = cleared[a.key]
        BY <4>1
      <4>3. ThreadOK(u, a)'
        BY <3>2, <4>2 DEF ThreadOK, CopyOK, RefusalOK, LetInOK
      <4>4. QED
        BY <3>2, <4>3 DEF ThreadOK, CopyOK, RefusalOK, LetInOK
    <3>5. CASE a.step = "429" /\ a.key = k
      <4>1. a.since \in Int /\ k \in Keys /\ Cardinality(Counted(log[k], 0, a.since)) >= max_failures
        BY <3>2, <3>5 DEF ThreadOK, RefusalOK
      <4>2. log[k] \in Seq(Int) /\ log'[k] \in Seq(Int) /\ now \in Int
        BY <4>1 DEF ThrottleInv, ThrottleShape
      <4>3. Cardinality(Counted(log[k], 0, a.since)) <= Cardinality(Counted(Append(log[k], now), 0, a.since))
        BY <4>1, <4>2, MoreIsCounted
      <4>4. /\ Cardinality(Counted(log[k], 0, a.since)) \in Nat
            /\ Cardinality(Counted(log'[k], 0, a.since)) \in Nat /\ max_failures \in Nat
        BY <4>2, CountedIsFinite, AccessAssumption
      <4>a. Cardinality(Counted(log'[k], 0, a.since)) >= Cardinality(Counted(log[k], 0, a.since))
        <5>1. CASE log'[k] = log[k]
          BY <4>4, <5>1
        <5>2. CASE log'[k] = Append(log[k], now)
          BY <4>3, <4>4, <5>2
        <5>3. QED
          BY <5>1, <5>2
      <4>5. Cardinality(Counted(log'[k], 0, a.since)) >= max_failures
        BY <4>1, <4>4, <4>a
      <4>6. QED
        BY <3>2, <3>5, <4>1, <4>5 DEF ThreadOK, CopyOK, RefusalOK, LetInOK, Throttling
    <3>6. CASE a.step \in Throttling /\ a.key = k
      <4>1. k \in overlapped
        BY <2>2, <3>1, <3>6 DEF ThrottleInv, OneAtATime, SigningIn
      <4>2. k \in Keys
        BY <3>2, <3>6 DEF ThreadOK
      <4>3. log[k] \in Seq(Int) /\ now \in Int
        BY <4>2 DEF ThrottleInv, ThrottleShape
      <4>4. ASSUME a.copy \in Seq(Int), Logged(a.copy, log[k]) PROVE Logged(a.copy, log'[k])
        BY <4>3, <4>4, LoggedGrows, ZenonT(60)
      <4>5. CopyOK(a)'
        BY <3>2, <3>6, <4>1, <4>4 DEF ThreadOK, CopyOK
      <4>6. ThreadOK(u, a)'
        BY <3>6, <4>1, <4>2, <4>5 DEF ThreadOK, RefusalOK, LetInOK, Throttling
      <4>7. QED
        BY <3>2, <4>6 DEF ThreadOK, CopyOK, RefusalOK, LetInOK
    <3>7. QED
      BY <3>3, <3>4, <3>5, <3>6
  <2>3. QED
    BY <2>1, <2>2
<1>5. QED
  BY <1>2, <1>3, <1>4 DEF ThrottleInv

-----------------------------------------------------------------------------
(* The steps of a sign-in.                                                 *)

LEMMA SignInHolds ==
    ASSUME RunShape, ThrottleInv, NEW t \in Threads, SignIn(t)
    PROVE  ThrottleInv'
<1>1. PICK k \in Keys, p \in Passwords :
         /\ run' = [run EXCEPT ![t] = [Idle EXCEPT !.step = "check", !.key = k, !.password = p]]
         /\ overlapped' = overlapped \cup (IF UnderWay(k) \ {t} = {} THEN {} ELSE {k})
  BY DEF SignIn
<1>2. now' = now /\ failures' = failures /\ log' = log /\ cleared' = cleared /\ Free(t)
  BY DEF SignIn
<1>r. PICK r : r = [Idle EXCEPT !.step = "check", !.key = k, !.password = p]
  OBVIOUS
<1>3. r.step = "check" /\ r.key = k
  BY <1>r DEF Idle
<1>4. \A u \in Threads : run'[u] = IF u = t THEN r ELSE run[u]
  BY <1>1, <1>r DEF RunShape, People
<1>5. overlapped \subseteq overlapped'
  BY <1>1
<1>6. ThrottleShape'
  BY <1>2 DEF ThrottleInv, ThrottleShape
<1>7. ASSUME NEW j \in Keys PROVE ListOK(j)'
  BY <1>2, <1>5 DEF ThrottleInv, ListOK
<1>8. OneAtATime'
  <2>1. ASSUME NEW u \in Threads, u # t, SigningIn(u), run[u].key = k PROVE k \in overlapped'
    <3>1. u \in UnderWay(k) \ {t}
      BY <2>1 DEF UnderWay, SigningIn, Throttling, Free, Answers
    <3>2. QED
      BY <1>1, <3>1
  <2> SUFFICES ASSUME NEW s \in Threads, NEW u \in Threads, SigningIn(s)', SigningIn(u)',
                      run'[s].key = run'[u].key, run'[s].key \notin overlapped', s # u
               PROVE  FALSE
    BY DEF OneAtATime
  <2>2. CASE s = t
    BY <1>3, <1>4, <2>1, <2>2 DEF SigningIn
  <2>3. CASE u = t
    BY <1>3, <1>4, <2>1, <2>3 DEF SigningIn
  <2>4. CASE s # t /\ u # t
    BY <1>4, <1>5, <2>4 DEF SigningIn, ThrottleInv, OneAtATime
  <2>5. QED
    BY <2>2, <2>3, <2>4
<1>9. ASSUME NEW u \in Threads PROVE ThreadOK(u, run[u])'
  <2>1. CASE u = t
    <3>1. run'[u] = r
      BY <1>4, <2>1
    <3>2. QED
      BY <1>3, <3>1 DEF ThreadOK, CopyOK, RefusalOK, LetInOK, Throttling
  <2>2. CASE u # t
    <3>1. run'[u] = run[u] /\ ThreadOK(u, run[u])
      BY <1>4, <2>2 DEF ThrottleInv
    <3>2. QED
      BY <1>2, <1>5, <3>1 DEF ThreadOK, CopyOK, RefusalOK, LetInOK
  <2>3. QED
    BY <2>1, <2>2
<1>10. QED
  BY <1>6, <1>7, <1>8, <1>9 DEF ThrottleInv

\* _recent, up to the copy.
LEMMA CopiedHolds ==
    ASSUME RunShape, ThrottleInv, NEW t \in Threads, SigningIn(t),
           NEW s \in {"locked?", "store"}, Copied(t, s)
    PROVE  ThrottleInv'
<1>k. PICK k : k = run[t].key
  OBVIOUS
<1>c. PICK cutoff : cutoff = now - window_s
  OBVIOUS
<1>r. PICK r : r = [run[t] EXCEPT !.step = s, !.since = cutoff, !.copy = Recent(failures[k].times, cutoff)]
  OBVIOUS
<1>1. /\ run' = [run EXCEPT ![t] = r] /\ now' = now /\ failures' = failures /\ log' = log
      /\ cleared' = cleared /\ overlapped' = overlapped
  BY <1>k, <1>c, <1>r DEF Copied, ghosts
<1>2. IsRun(run[t])
  BY DEF RunShape, People
<1>3. /\ r.step = s /\ r.key = k /\ r.since = cutoff
      /\ r.copy = Recent(failures[k].times, cutoff)
  BY <1>k, <1>r, <1>2 DEF IsRun
<1>4. k \in Keys
  BY <1>k DEF ThrottleInv, ThreadOK, SigningIn
<1>5. /\ cutoff \in Int /\ cutoff <= now - window_s
      /\ failures[k].times \in Seq(Int) /\ log[k] \in Seq(Int) /\ cleared[k] \in Nat
  <2>1. now \in Int /\ window_s \in Int
    BY AccessAssumption DEF ThrottleInv, ThrottleShape
  <2>2. QED
    BY <1>c, <1>4, <2>1 DEF ThrottleInv, ThrottleShape
<1>6. ListOK(k)
  BY <1>4 DEF ThrottleInv
<1>7. r.copy \in Seq(Int) /\ \A i \in DOMAIN r.copy : r.copy[i] > cutoff
  <2>1. PICK place : Keeps(place, r.copy, failures[k].times, cutoff)
    BY <1>3, <1>5, RecentKeeps
  <2>2. \A i \in DOMAIN r.copy : r.copy[i] > cutoff
    BY <2>1 DEF Keeps
  <2>3. QED
    BY <1>3, <1>5, <2>2, RecentKeeps
<1>8. Logged(r.copy, log[k])
  BY <1>3, <1>5, <1>6, LoggedRecent DEF ListOK
<1>9. k \notin overlapped => Covered(r.copy, log[k], cleared[k], cutoff)
  BY <1>c, <1>3, <1>5, <1>6, CoveredRecent DEF ListOK
<1>10. CopyOK(r)'
  BY <1>1, <1>3, <1>5, <1>7, <1>8, <1>9 DEF CopyOK
<1>11. ThreadOK(t, r)'
  BY <1>3, <1>4, <1>10 DEF ThreadOK, RefusalOK, LetInOK, Throttling
<1>12. ListOK(k)'
  BY <1>1, <1>6 DEF ListOK
<1>13. ThrottleShape'
  BY <1>1 DEF ThrottleInv, ThrottleShape
<1>14. QED
  BY <1>1, <1>3, <1>11, <1>12, <1>13, <1>k, OwnStepHolds

\* Its copy is stored under the key.
LEMMA StoredList ==
    ASSUME RunShape, ThrottleInv, NEW t \in Threads, run[t].step \in {"locked?", "store"},
           NEW k, k = run[t].key, StoreCopy(t), UNCHANGED <<now, ghosts>>
    PROVE  /\ k \in Keys /\ ThrottleShape' /\ ListOK(k)' /\ failures'[k].maker = t
           /\ \A j \in Keys \ {k} : failures'[j] = failures[j]
<1>1. /\ now' = now /\ log' = log /\ cleared' = cleared /\ overlapped' = overlapped
      /\ failures' = [failures EXCEPT ![k] = [times |-> run[t].copy, maker |-> t]]
  BY DEF StoreCopy, ghosts
<1>2. k \in Keys /\ CopyOK(run[t])
  BY DEF ThrottleInv, ThreadOK, Throttling
<1>3. /\ run[t].copy \in Seq(Int) /\ run[t].since \in Int /\ run[t].since <= now - window_s
      /\ Logged(run[t].copy, log[k])
      /\ k \notin overlapped => Covered(run[t].copy, log[k], cleared[k], run[t].since)
  BY <1>2 DEF CopyOK
<1>f. PICK f : f = [times |-> run[t].copy, maker |-> t]
  OBVIOUS
<1>4. IsList(f) /\ f.times = run[t].copy /\ f.maker = t
  BY <1>f DEF IsList
<1>5. failures' = [j \in Keys |-> IF j = k THEN f ELSE failures[j]]
  BY <1>1, <1>2, <1>f DEF ThrottleInv, ThrottleShape
<1>6. failures'[k] = f /\ \A j \in Keys \ {k} : failures'[j] = failures[j]
  BY <1>2, <1>5
<1>7. ThrottleShape'
  <2>1. failures' = [j \in Keys |-> failures'[j]]
    BY <1>5
  <2>2. \A j \in Keys : IsList(failures'[j]) /\ failures'[j].times \in Seq(Int)
    BY <1>3, <1>4, <1>6 DEF ThrottleInv, ThrottleShape
  <2>3. QED
    BY <1>1, <2>1, <2>2 DEF ThrottleInv, ThrottleShape
<1>8. ASSUME k \notin overlapped PROVE Covered(run[t].copy, log[k], cleared[k], now - window_s)
  <2>1. now \in Int /\ window_s \in Int
    BY AccessAssumption DEF ThrottleInv, ThrottleShape
  <2>2. now - window_s \in Int /\ now - window_s >= run[t].since
    BY <1>3, <2>1
  <2>3. log[k] \in Seq(Int) /\ cleared[k] \in Nat
    BY <1>2 DEF ThrottleInv, ThrottleShape
  <2>4. QED
    BY <1>3, <1>8, <2>2, <2>3, CoveredLater
<1>9. ListOK(k)'
  BY <1>1, <1>3, <1>4, <1>6, <1>8 DEF ListOK
<1>10. QED
  BY <1>2, <1>4, <1>6, <1>7, <1>9

LEMMA IsLockedHolds ==
    ASSUME RunShape, ThrottleInv, NEW t \in Threads, IsLocked(t)
    PROVE  ThrottleInv'
<1>k. PICK k : k = run[t].key
  OBVIOUS
<1>r. PICK r : r = [run[t] EXCEPT !.copy = <<>>,
                    !.step = IF Len(run[t].copy) >= max_failures THEN "429" ELSE "verify"]
  OBVIOUS
<1>1. /\ run[t].step = "locked?" /\ StoreCopy(t) /\ run' = [run EXCEPT ![t] = r]
      /\ now' = now /\ log' = log /\ cleared' = cleared /\ overlapped' = overlapped
      /\ UNCHANGED <<now, ghosts>>
  BY <1>r DEF IsLocked, ghosts
<1>2. IsRun(run[t])
  BY DEF RunShape, People
<1>3. /\ r.step = IF Len(run[t].copy) >= max_failures THEN "429" ELSE "verify"
      /\ r.key = k /\ r.since = run[t].since
  BY <1>k, <1>r, <1>2 DEF IsRun
<1>4. /\ k \in Keys /\ ThrottleShape' /\ ListOK(k)'
      /\ \A j \in Keys \ {k} : failures'[j] = failures[j]
  BY <1>1, <1>k, StoredList
<1>5. CopyOK(run[t])
  BY DEF ThrottleInv, ThreadOK
<1>6. /\ run[t].copy \in Seq(Int) /\ run[t].since \in Int
      /\ Logged(run[t].copy, log[k])
      /\ \A i \in DOMAIN run[t].copy : run[t].copy[i] > run[t].since
      /\ k \notin overlapped => Covered(run[t].copy, log[k], cleared[k], run[t].since)
  BY <1>1, <1>5, <1>k DEF CopyOK
<1>7. log[k] \in Seq(Int) /\ cleared[k] \in Nat
  BY <1>4 DEF ThrottleInv, ThrottleShape
<1>8. /\ Len(run[t].copy) \in Nat /\ max_failures \in Nat
      /\ Cardinality(Counted(log[k], 0, r.since)) \in Nat
      /\ Cardinality(Counted(log[k], cleared[k], r.since)) \in Nat
  <2>1. Len(run[t].copy) \in Nat
    BY <1>6
  <2>2. max_failures \in Nat
    BY AccessAssumption
  <2>3. 0 \in Nat
    OBVIOUS
  <2>4. Cardinality(Counted(log[k], 0, r.since)) \in Nat
    BY <1>7, <2>3, CountedIsFinite
  <2>5. Cardinality(Counted(log[k], cleared[k], r.since)) \in Nat
    BY <1>7, CountedIsFinite
  <2>6. QED
    BY <2>1, <2>2, <2>4, <2>5
<1>9. Len(run[t].copy) <= Cardinality(Counted(log[k], 0, r.since))
  BY <1>3, <1>6, <1>7, LoggedCount
<1>10. k \notin overlapped => Cardinality(Counted(log[k], cleared[k], r.since)) <= Len(run[t].copy)
  BY <1>3, <1>6, <1>7, CoveredCount
<1>11. RefusalOK(r)'
  <2>1. r.step = "429" => Cardinality(Counted(log[k], 0, r.since)) >= max_failures
    BY <1>3, <1>8, <1>9
  <2>2. QED
    BY <1>1, <1>3, <1>4, <1>6, <2>1 DEF RefusalOK
<1>12. LetInOK(r)'
  <2>1. r.step = "verify" /\ k \notin overlapped =>
           Cardinality(Counted(log[k], cleared[k], r.since)) < max_failures
    BY <1>3, <1>8, <1>10
  <2>2. QED
    BY <1>1, <1>3, <1>6, <2>1 DEF LetInOK
<1>13. ThreadOK(t, r)'
  BY <1>3, <1>4, <1>11, <1>12 DEF ThreadOK, CopyOK
<1>14. SigningIn(t)
  BY <1>1 DEF SigningIn, Throttling
<1>15. QED
  BY <1>1, <1>3, <1>4, <1>13, <1>14, <1>k, OwnStepHolds

LEMMA StoreFailureHolds ==
    ASSUME RunShape, ThrottleInv, NEW t \in Threads, StoreFailure(t)
    PROVE  ThrottleInv'
<1>k. PICK k : k = run[t].key
  OBVIOUS
<1>r. PICK r : r = [run[t] EXCEPT !.step = "append"]
  OBVIOUS
<1>1. /\ run[t].step = "store" /\ StoreCopy(t) /\ run' = [run EXCEPT ![t] = r]
      /\ now' = now /\ log' = log /\ cleared' = cleared /\ overlapped' = overlapped
      /\ UNCHANGED <<now, ghosts>>
  BY <1>r DEF StoreFailure, Go, ghosts
<1>2. IsRun(run[t])
  BY DEF RunShape, People
<1>3. r.step = "append" /\ r.key = k
  BY <1>k, <1>r, <1>2 DEF IsRun
<1>4. /\ k \in Keys /\ ThrottleShape' /\ ListOK(k)' /\ failures'[k].maker = t
      /\ \A j \in Keys \ {k} : failures'[j] = failures[j]
  BY <1>1, <1>k, StoredList
<1>5. ThreadOK(t, r)'
  BY <1>3, <1>4 DEF ThreadOK, CopyOK, RefusalOK, LetInOK
<1>6. SigningIn(t)
  BY <1>1 DEF SigningIn, Throttling
<1>7. QED
  BY <1>1, <1>3, <1>4, <1>5, <1>6, <1>k, OwnStepHolds

LEMMA VerifyHolds ==
    ASSUME RunShape, ThrottleInv, NEW t \in Threads, Verify(t)
    PROVE  ThrottleInv'
<1>k. PICK k : k = run[t].key
  OBVIOUS
<1>1. PICK s \in {"500", "reset", "failed"} : Go(t, s)
  BY DEF Verify
<1>r. PICK r : r = [run[t] EXCEPT !.step = s]
  OBVIOUS
<1>2. /\ run[t].step = "verify" /\ run' = [run EXCEPT ![t] = r] /\ now' = now /\ failures' = failures
      /\ log' = log /\ cleared' = cleared /\ overlapped' = overlapped
  BY <1>1, <1>r DEF Verify, Go, ghosts
<1>3. IsRun(run[t])
  BY DEF RunShape, People
<1>4. r.step = s /\ r.key = k
  BY <1>k, <1>r, <1>3 DEF IsRun
<1>5. k \in Keys /\ SigningIn(t)
  BY <1>2, <1>k DEF ThrottleInv, ThreadOK, Throttling, SigningIn
<1>6. ListOK(k) /\ ThrottleShape
  BY <1>5 DEF ThrottleInv
<1>7. ListOK(k)' /\ ThrottleShape'
  BY <1>2, <1>6 DEF ListOK, ThrottleShape
<1>8. ThreadOK(t, r)'
  BY <1>4, <1>5 DEF ThreadOK, CopyOK, RefusalOK, LetInOK
<1>9. QED
  BY <1>2, <1>4, <1>5, <1>7, <1>8, <1>k, OwnStepHolds

\* A failure goes to the log, and to the list of whoever is still its maker.
LEMMA RecordFailureHolds ==
    ASSUME RunShape, ThrottleInv, NEW t \in Threads, RecordFailure(t)
    PROVE  ThrottleInv'
<1>k. PICK k : k = run[t].key
  OBVIOUS
<1>r. PICK r : r = [Idle EXCEPT !.step = "401"]
  OBVIOUS
<1>1. /\ run[t].step = "append" /\ run' = [run EXCEPT ![t] = r]
      /\ failures' = IF failures[k].maker # t THEN failures
                     ELSE [failures EXCEPT ![k].times = Append(@, now), ![k].maker = Nobody]
      /\ log' = [log EXCEPT ![k] = Append(@, now)]
      /\ now' = now /\ cleared' = cleared /\ overlapped' = overlapped
  BY <1>k, <1>r DEF RecordFailure, Done
<1>2. r.step = "401"
  BY <1>r DEF Idle
<1>3. k \in Keys /\ SigningIn(t) /\ ThreadOK(t, run[t])
  BY <1>1, <1>k DEF ThrottleInv, ThreadOK, Throttling, SigningIn
<1>4. /\ now \in Int /\ window_s \in Int /\ log \in [Keys -> Seq(Int)] /\ cleared \in [Keys -> Nat]
      /\ failures = [j \in Keys |-> failures[j]]
      /\ \A j \in Keys : /\ IsList(failures[j]) /\ failures[j].times \in Seq(Int)
                         /\ cleared[j] <= Len(log[j])
  BY AccessAssumption DEF ThrottleInv, ThrottleShape
<1>5. ListOK(k)
  BY <1>3 DEF ThrottleInv
<1>6. log' \in [Keys -> Seq(Int)] /\ \A j \in Keys : log'[j] = IF j = k THEN Append(log[k], now) ELSE log[j]
  <2>1. Append(log[k], now) \in Seq(Int)
    BY <1>3, <1>4
  <2>2. QED
    BY <1>1, <1>3, <1>4, <2>1
<1>g. PICK g : g = failures[k]
  OBVIOUS
<1>7. PICK f : f = [g EXCEPT !.times = Append(@, now), !.maker = Nobody]
  OBVIOUS
<1>8. IsList(f) /\ f.times = Append(failures[k].times, now)
  <2>1. IsList(g)
    BY <1>3, <1>4, <1>g
  <2>2. IsList(f) /\ f.times = Append(g.times, now)
    BY <1>7, <2>1 DEF IsList
  <2>3. QED
    BY <1>g, <2>2
<1>9. failures' = [j \in Keys |-> IF j = k /\ failures[k].maker = t THEN f ELSE failures[j]]
  BY <1>1, <1>3, <1>4, <1>7, <1>g
<1>10. \A j \in Keys : failures'[j] = IF j = k /\ failures[k].maker = t THEN f ELSE failures[j]
  BY <1>9
<1>11. ThrottleShape'
  <2>1. failures' = [j \in Keys |-> failures'[j]]
    BY <1>9
  <2>2. Append(failures[k].times, now) \in Seq(Int)
    BY <1>3, <1>4
  <2>3. \A j \in Keys : IsList(failures'[j]) /\ failures'[j].times \in Seq(Int)
    BY <1>4, <1>8, <1>10, <2>2
  <2>4. ASSUME NEW j \in Keys PROVE cleared[j] <= Len(log'[j])
    <3>1. cleared[j] \in Nat /\ cleared[j] <= Len(log[j]) /\ log[j] \in Seq(Int)
      BY <1>4
    <3>2. Len(log[j]) \in Nat /\ Len(Append(log[j], now)) = Len(log[j]) + 1
      BY <3>1
    <3>3. Len(log'[j]) = Len(log[j]) \/ Len(log'[j]) = Len(log[j]) + 1
      BY <1>6, <3>2
    <3>4. QED
      BY <3>1, <3>2, <3>3
  <2>5. QED
    BY <1>1, <1>4, <1>6, <2>1, <2>3, <2>4 DEF ThrottleShape
<1>12. ListOK(k)'
  <2>1. /\ failures[k].times \in Seq(Int) /\ log[k] \in Seq(Int) /\ cleared[k] \in Nat
        /\ now - window_s \in Int
    BY <1>3, <1>4
  <2>2. log'[k] = Append(log[k], now)
    BY <1>3, <1>6
  <2>3. CASE failures[k].maker = t
    <3>1. failures'[k].times = Append(failures[k].times, now)
      BY <1>3, <1>8, <1>10, <2>3
    <3>2. Logged(failures[k].times, log[k])
      BY <1>5 DEF ListOK
    <3>3. Logged(Append(failures[k].times, now), Append(log[k], now))
      BY <1>4, <2>1, <3>2, LoggedGrows
    <3>4. ASSUME k \notin overlapped
          PROVE  Covered(Append(failures[k].times, now), Append(log[k], now), cleared[k], now - window_s)
      <4>1. Covered(failures[k].times, log[k], cleared[k], now - window_s)
        BY <1>5, <3>4 DEF ListOK
      <4>2. QED
        BY <1>4, <2>1, <4>1, CoveredGrows
    <3>5. QED
      BY <1>1, <2>2, <3>1, <3>3, <3>4 DEF ListOK
  <2>4. CASE failures[k].maker # t
    <3>1. k \in overlapped
      BY <1>1, <1>3, <1>k, <2>4 DEF ThreadOK
    <3>2. failures'[k] = failures[k]
      BY <1>3, <1>10, <2>4
    <3>3. Logged(failures[k].times, log[k])
      BY <1>5 DEF ListOK
    <3>4. Logged(failures[k].times, Append(log[k], now))
      BY <1>4, <2>1, <3>3, LoggedGrows
    <3>5. QED
      BY <1>1, <2>2, <3>1, <3>2, <3>4 DEF ListOK
  <2>5. QED
    BY <2>3, <2>4
<1>13. ThreadOK(t, r)'
  BY <1>2 DEF ThreadOK, CopyOK, RefusalOK, LetInOK, Throttling
<1>14. \A j \in Keys \ {k} : failures'[j] = failures[j] /\ log'[j] = log[j] /\ cleared'[j] = cleared[j]
  BY <1>1, <1>6, <1>10
<1>15. log'[k] = Append(log[k], now) /\ r.step \notin Throttling
  BY <1>2, <1>3, <1>6 DEF Throttling
<1>16. QED
  BY <1>1, <1>3, <1>11, <1>12, <1>13, <1>14, <1>15, <1>k, OwnStepHolds

\* A success wipes the list out.
LEMMA ResetHolds ==
    ASSUME RunShape, ThrottleInv, NEW t \in Threads, Reset(t)
    PROVE  ThrottleInv'
<1>k. PICK k : k = run[t].key
  OBVIOUS
<1>r. PICK r : r = [Idle EXCEPT !.step = "200"]
  OBVIOUS
<1>1. /\ run[t].step = "reset" /\ run' = [run EXCEPT ![t] = r]
      /\ failures' = [failures EXCEPT ![k] = NoList]
      /\ cleared'  = [cleared EXCEPT ![k] = Len(log[k])]
      /\ now' = now /\ log' = log /\ overlapped' = overlapped
  BY <1>k, <1>r DEF Reset, Done
<1>2. r.step = "200"
  BY <1>r DEF Idle
<1>3. k \in Keys /\ SigningIn(t)
  BY <1>1, <1>k DEF ThrottleInv, ThreadOK, Throttling, SigningIn
<1>4. /\ now \in Int /\ log \in [Keys -> Seq(Int)] /\ cleared \in [Keys -> Nat]
      /\ failures = [j \in Keys |-> failures[j]]
      /\ \A j \in Keys : /\ IsList(failures[j]) /\ failures[j].times \in Seq(Int)
                         /\ cleared[j] <= Len(log[j])
  BY DEF ThrottleInv, ThrottleShape
<1>5. log[k] \in Seq(Int) /\ Len(log[k]) \in Nat
  BY <1>3, <1>4
<1>6. IsList(NoList) /\ NoList.times = <<>> /\ <<>> \in Seq(Int)
  BY DEF IsList, NoList
<1>7. failures' = [j \in Keys |-> IF j = k THEN NoList ELSE failures[j]]
  BY <1>1, <1>3, <1>4
<1>8. \A j \in Keys : failures'[j] = IF j = k THEN NoList ELSE failures[j]
  BY <1>7
<1>9. cleared' \in [Keys -> Nat] /\ \A j \in Keys : cleared'[j] = IF j = k THEN Len(log[k]) ELSE cleared[j]
  BY <1>1, <1>3, <1>4, <1>5
<1>10. ThrottleShape'
  <2>1. failures' = [j \in Keys |-> failures'[j]]
    BY <1>7
  <2>2. \A j \in Keys : IsList(failures'[j]) /\ failures'[j].times \in Seq(Int)
    BY <1>4, <1>6, <1>8
  <2>3. \A j \in Keys : cleared'[j] <= Len(log[j])
    BY <1>4, <1>5, <1>9
  <2>4. QED
    BY <1>1, <1>4, <1>9, <2>1, <2>2, <2>3 DEF ThrottleShape
<1>11. ListOK(k)'
  <2>1. DOMAIN <<>> = {}
    OBVIOUS
  <2>2. Logged(<<>>, log[k])
    <3>1. PICK f : f = [i \in {} |-> 0]
      OBVIOUS
    <3>2. f \in [{} -> DOMAIN log[k]]
      BY <3>1
    <3>3. QED
      BY <2>1, <3>2 DEF Logged
  <2>3. \A cutoff : Covered(<<>>, log[k], Len(log[k]), cutoff)
    BY <1>5, CoveredCleared
  <2>4. failures'[k].times = <<>> /\ cleared'[k] = Len(log[k])
    BY <1>3, <1>6, <1>8, <1>9
  <2>5. QED
    BY <1>1, <2>2, <2>3, <2>4 DEF ListOK
<1>12. ThreadOK(t, r)'
  BY <1>2 DEF ThreadOK, CopyOK, RefusalOK, LetInOK, Throttling
<1>13. \A j \in Keys \ {k} : failures'[j] = failures[j] /\ log'[j] = log[j] /\ cleared'[j] = cleared[j]
  BY <1>1, <1>8, <1>9
<1>14. r.step \notin Throttling
  BY <1>2 DEF Throttling
<1>15. QED
  BY <1>1, <1>3, <1>10, <1>11, <1>12, <1>13, <1>14, <1>k, OwnStepHolds

\* Accounts are another matter.
LEMMA AccountStepHolds ==
    ASSUME RunShape, ThrottleInv, NEW t \in People,
           \/ t \in Threads /\ (CreateUser(t) \/ CommitUser(t))
           \/ t = Script /\ (StartScript \/ CommitUser(t) \/ UpdateUser)
    PROVE  ThrottleInv'
<1>1. UNCHANGED <<now, failures, ghosts>>
  BY DEF CreateUser, CommitUser, StartScript, UpdateUser
<1>2. IsRun(run[t])
  BY DEF RunShape
<1>3. \E r : run' = [run EXCEPT ![t] = r] /\ r.step \notin Throttling \cup {"429"}
  <2>1. ASSUME NEW s \in {"401", "403", "409", "500"}, Done(t, s)
        PROVE  \E r : run' = [run EXCEPT ![t] = r] /\ r.step \notin Throttling \cup {"429"}
    <3>r. PICK r : r = [Idle EXCEPT !.step = s]
      OBVIOUS
    <3>1. r.step = s
      BY <3>r DEF Idle
    <3>2. run' = [run EXCEPT ![t] = r] /\ r.step \notin Throttling \cup {"429"}
      BY <2>1, <3>r, <3>1 DEF Done, Throttling
    <3>3. QED
      BY <3>2
  <2>2. ASSUME NEW s \in {"insert", "update"}, NEW x, NEW p, NEW q,
               run' = [run EXCEPT ![t] =
                          [Idle EXCEPT !.step = s, !.key = x, !.password = p, !.role = q]]
        PROVE  \E r : run' = [run EXCEPT ![t] = r] /\ r.step \notin Throttling \cup {"429"}
    <3>r. PICK r : r = [Idle EXCEPT !.step = s, !.key = x, !.password = p, !.role = q]
      OBVIOUS
    <3>1. r.step = s
      BY <3>r DEF Idle
    <3>2. run' = [run EXCEPT ![t] = r] /\ r.step \notin Throttling \cup {"429"}
      BY <2>2, <3>r, <3>1 DEF Throttling
    <3>3. QED
      BY <3>2
  <2>3. ASSUME NEW s \in {"201", "updated"}, run' = [run EXCEPT ![t].step = s]
        PROVE  \E r : run' = [run EXCEPT ![t] = r] /\ r.step \notin Throttling \cup {"429"}
    <3>r. PICK r : r = [run[t] EXCEPT !.step = s]
      OBVIOUS
    <3>1. r.step = s
      BY <1>2, <3>r DEF IsRun
    <3>2. run' = [run EXCEPT ![t] = r] /\ r.step \notin Throttling \cup {"429"}
      BY <2>3, <3>r, <3>1 DEF Throttling
    <3>3. QED
      BY <3>2
  <2>4. CASE CreateUser(t)
    <3>1. PICK caller \in Names, name \in Names, p \in Passwords, q \in Roles :
             LET s == IF Rows(caller) = {} \/ \E u \in Rows(caller) : ~u.active THEN "401"
                      ELSE IF ~Permitted(caller, {"admin"}) THEN "403"
                      ELSE IF Rows(name) # {} THEN "409" ELSE "insert"
             IN  IF s # "insert" THEN Done(t, s)
                 ELSE run' = [run EXCEPT ![t] =
                     [Idle EXCEPT !.step = s, !.key = <<Nobody, name>>, !.password = p, !.role = q]]
      BY <2>4 DEF CreateUser
    <3>2. PICK s \in {"401", "403", "409", "insert"} :
             IF s # "insert" THEN Done(t, s)
             ELSE run' = [run EXCEPT ![t] =
                     [Idle EXCEPT !.step = s, !.key = <<Nobody, name>>, !.password = p, !.role = q]]
      BY <3>1
    <3>3. QED
      BY <2>1, <2>2, <3>2
  <2>5. CASE CommitUser(t)
    BY <2>1, <2>3, <2>5 DEF CommitUser, Go
  <2>6. CASE t = Script /\ StartScript
    <3>1. PICK name \in Names, p \in Passwords, q \in Roles :
             run' = [run EXCEPT ![Script] =
                        [Idle EXCEPT !.key = <<Nobody, name>>, !.password = p, !.role = q,
                            !.step = IF Rows(name) = {} THEN "insert" ELSE "update"]]
      BY <2>6 DEF StartScript
    <3>2. PICK s \in {"insert", "update"} : s = IF Rows(name) = {} THEN "insert" ELSE "update"
      OBVIOUS
    <3>r. PICK r : r = [Idle EXCEPT !.key = <<Nobody, name>>, !.password = p, !.role = q, !.step = s]
      OBVIOUS
    <3>3. r.step = s
      BY <3>r DEF Idle
    <3>4. run' = [run EXCEPT ![t] = r] /\ r.step \notin Throttling \cup {"429"}
      BY <2>6, <3>1, <3>2, <3>r, <3>3 DEF Throttling
    <3>5. QED
      BY <3>4
  <2>7. CASE t = Script /\ UpdateUser
    BY <2>3, <2>7 DEF UpdateUser
  <2>8. QED
    BY <2>4, <2>5, <2>6, <2>7
<1>4. QED
  BY <1>1, <1>3, QuietHolds

LEMMA UnchangedThrottleHolds ==
    ASSUME ThrottleInv, run' = run, UNCHANGED <<now, failures, ghosts>>
    PROVE  ThrottleInv'
<1>1. now' = now /\ failures' = failures /\ log' = log /\ cleared' = cleared /\ overlapped' = overlapped
  BY DEF ghosts
<1>2. ThrottleShape' /\ OneAtATime'
  BY <1>1 DEF ThrottleInv, ThrottleShape, OneAtATime, SigningIn
<1>3. \A k \in Keys : ListOK(k)'
  BY <1>1 DEF ThrottleInv, ListOK
<1>4. ASSUME NEW t \in Threads PROVE ThreadOK(t, run[t])'
  <2>1. ThreadOK(t, run[t])
    BY DEF ThrottleInv
  <2>2. QED
    BY <1>1, <2>1 DEF ThreadOK, CopyOK, RefusalOK, LetInOK
<1>5. QED
  BY <1>2, <1>3, <1>4 DEF ThrottleInv

LEMMA ThrottleNext == AccountsInv /\ ThrottleInv /\ [Next]_vars => ThrottleInv'
<1> SUFFICES ASSUME AccountsInv, ThrottleInv, [Next]_vars PROVE ThrottleInv'
  OBVIOUS
<1>0. RunShape
  BY DEF AccountsInv
<1>1. CASE Tick
  BY <1>1, TickHolds
<1>2. CASE StartScript \/ CommitUser(Script) \/ UpdateUser
  BY <1>0, <1>2, AccountStepHolds DEF People
<1>3. CASE SwitchOff \/ UNCHANGED vars
  <2>1. run' = run /\ UNCHANGED <<now, failures, ghosts>>
    BY <1>3 DEF SwitchOff, vars, ghosts
  <2>2. QED
    BY <2>1, UnchangedThrottleHolds
<1>4. ASSUME NEW t \in Threads, SignIn(t) PROVE ThrottleInv'
  BY <1>0, <1>4, SignInHolds
<1>5. ASSUME NEW t \in Threads, StartCheck(t) \/ StartFailure(t) PROVE ThrottleInv'
  <2>1. SigningIn(t) /\ \E s \in {"locked?", "store"} : Copied(t, s)
    BY <1>5 DEF StartCheck, StartFailure, SigningIn, Throttling
  <2>2. QED
    BY <1>0, <2>1, CopiedHolds
<1>6. ASSUME NEW t \in Threads, IsLocked(t) \/ Verify(t) \/ StoreFailure(t) PROVE ThrottleInv'
  BY <1>0, <1>6, IsLockedHolds, VerifyHolds, StoreFailureHolds
<1>7. ASSUME NEW t \in Threads, RecordFailure(t) \/ Reset(t) PROVE ThrottleInv'
  BY <1>0, <1>7, RecordFailureHolds, ResetHolds
<1>8. ASSUME NEW t \in Threads, CreateUser(t) \/ CommitUser(t) PROVE ThrottleInv'
  BY <1>0, <1>8, AccountStepHolds DEF People
<1>9. QED
  BY <1>1, <1>2, <1>3, <1>4, <1>5, <1>6, <1>7, <1>8 DEF Next

LEMMA LockoutHolds == ThrottleInv => LockoutIsEarned
<1> SUFFICES ASSUME ThrottleInv, NEW t \in Threads, NEW k, k = run[t].key
             PROVE  /\ run[t].step = "429" => FailuresSince(k, 0, run[t].since) >= max_failures
                    /\ run[t].step = "verify" /\ k \notin overlapped =>
                          FailuresSince(k, cleared[k], run[t].since) < max_failures
  BY DEF LockoutIsEarned
<1>1. RefusalOK(run[t]) /\ LetInOK(run[t])
  BY DEF ThrottleInv, ThreadOK
<1>2. \A from, cutoff : FailuresSince(k, from, cutoff) = Cardinality(Counted(log[k], from, cutoff))
  BY DEF FailuresSince, Counted
<1>3. QED
  BY <1>1, <1>2 DEF RefusalOK, LetInOK

\* A sign-in is refused with 429 only after max_failures failures of its key
\* within the window, in whatever order any number of threads copy, store and
\* append; and while no two sign-ins of a key overlap, one that is let in had
\* fewer since the last success (security.py:93-106, auth.py:21-36).
THEOREM LockoutsAreEarned == Spec => []LockoutIsEarned
<1>1. Init => AccountsInv /\ ThrottleInv
  BY InitHolds, ThrottleInit
<1>2. (AccountsInv /\ ThrottleInv) /\ [Next]_vars => (AccountsInv /\ ThrottleInv)'
  BY NextHolds, ThrottleNext
<1>3. AccountsInv /\ ThrottleInv => LockoutIsEarned
  BY LockoutHolds
<1>4. QED
  BY <1>1, <1>2, <1>3, PTL DEF Spec

-----------------------------------------------------------------------------
(***************************************************************************)
(* What a page shows of a case was the case once, however late it came.    *)
(* A case that has reached review never leaves it but to be closed, a      *)
(* closed one stays closed, and its advisory decision stays: so what was   *)
(* shown of a case in review, or loaded by a decision, names the advisory  *)
(* decision the case has today.  A decision is checked against the row it  *)
(* has loaded and writes only what it changes of that row; that is why one *)
(* that loaded an open case cannot open a case another has closed.         *)
(***************************************************************************)
Detail == [job : {"queued", "running", "failed", "done"},
           status : {"case_created", "human_review", "closed"},
           advisory : Decision \cup {None}, pending : Others \cup {Me, None}]

Reviewed(d) == d.status \in {"human_review", "closed"}

\* An analysis that is not done leaves nothing to review, and nobody decides
\* before.  (A proposal may be pending on a closed case.)
Sound(d) == /\ d \in Detail
            /\ Reviewed(d) => d.job = "done"
            /\ d.pending # None => Reviewed(d)

CasesOK == case = [c \in Cases |-> case[c]] /\ \A c \in Cases : Sound(case[c])

\* What somebody holds of a case is not out of date in what matters.
Known(d, c, cases) ==
    /\ d \in Detail
    /\ d.status = "human_review" => Reviewed(cases[c]) /\ cases[c].advisory = d.advisory

\* A row that a decision has loaded, in a table that has gone on since.
Loaded(d, c, cases) ==
    /\ Sound(d) /\ Reviewed(d)
    /\ Reviewed(cases[c]) /\ cases[c].advisory = d.advisory
    /\ d.status = "closed" => cases[c].status = "closed"

\* What a decision makes of the row it has loaded.
Follows(d, e) ==
    /\ Sound(e) /\ Reviewed(e) /\ e.advisory = d.advisory
    /\ d.status = "closed" => e.status = "closed"

\* A decision of another analyst under way.
TheirOK(o, cases) == o.of \in Cases /\ Loaded(o.before, o.of, cases) /\ Follows(o.before, o.new)
TheirsOK == \A o \in theirs : TheirOK(o, case)

\* The view is of the case selected, and what it holds is of that case.
PageOK == /\ views \in Nat /\ mount \in 0 .. views /\ selected \in Cases \cup {None}
          /\ mount # 0 => selected \in Cases
          /\ detail = NoDetail \/ (mount # 0 /\ Known(detail, selected, case))

IsMessage(m) ==
    m = [kind |-> m.kind, of |-> m.of, choice |-> m.choice, ack |-> m.ack, view |-> m.view,
         in |-> m.in, panel |-> m.panel, shown |-> m.shown, state |-> m.state,
         answer |-> m.answer, before |-> m.before]

Expected(kind) == IF kind = "sign_off" THEN "decide" ELSE "confirm-escalation"

\* What was decided, beside what was shown.
AsShown(m) ==
    /\ m.before.advisory = m.shown.advisory
    /\ m.kind # "reject" => Mode(m.before, Me) = Mode(m.shown, Me)
    /\ m.kind = "reject" => m.before.pending \notin {None, Me}

\* A request or answer on its way: whose it is, what it was made from, the
\* row it has loaded, and what it did if it was accepted.
MessageOK(m, cases, on, of, n) ==
    /\ IsMessage(m) /\ m.of \in Cases /\ m.kind \in {"get", "sign_off", "confirm", "reject"}
    /\ m.state \in {"sent", "loaded", "ok", "error", "401"}
    /\ m.view \in 1 .. n /\ (m.view = on => m.of = of)
    /\ m.kind # "get" => Known(m.shown, m.of, cases) /\ Mode(m.shown, Me) = Expected(m.kind)
    /\ m.state = "loaded" => /\ m.kind # "get" /\ AsShown(m)
                             /\ Loaded(m.before, m.of, cases) /\ Accepted(m, m.before, Me)
    /\ m.state = "ok" => /\ Known(m.answer, m.of, cases)
                         /\ m.answer.status = "closed" => cases[m.of].status = "closed"
                         /\ m.kind # "get" => AsShown(m)

NetOK == \A m \in net : MessageOK(m, case, mount, selected, views)

ConsoleInv == CasesOK /\ PageOK /\ NetOK /\ TheirsOK

-----------------------------------------------------------------------------
(* What is known stays known, and messages stay what they are.             *)

\* A step takes no case out of review but to close it, and keeps its advice.
Stays(old, new) ==
    \A c \in Cases : Reviewed(old[c]) =>
        /\ Reviewed(new[c]) /\ new[c].advisory = old[c].advisory
        /\ old[c].status = "closed" => new[c].status = "closed"

LEMMA KnownStays ==
    ASSUME NEW old, NEW new, Stays(old, new), NEW c \in Cases, NEW d, Known(d, c, old)
    PROVE  Known(d, c, new)
  BY DEF Stays, Known

LEMMA LoadedStays ==
    ASSUME NEW old, NEW new, Stays(old, new), NEW c \in Cases, NEW d, Loaded(d, c, old)
    PROVE  Loaded(d, c, new)
  BY DEF Stays, Loaded

\* The page may stay, show nothing, or show a view newer than any message's.
LEMMA MessageStays ==
    ASSUME NEW old, NEW new, Stays(old, new), NEW on, NEW of, NEW n \in Nat,
           NEW on2, NEW of2, NEW n2 \in Nat, n <= n2,
           (on2 = on /\ of2 = of) \/ on2 = 0 \/ on2 = n + 1,
           NEW m, MessageOK(m, old, on, of, n)
    PROVE  MessageOK(m, new, on2, of2, n2)
<1>1. m.view \in 1 .. n2 /\ (m.view = on2 => m.of = of2)
  BY DEF MessageOK
<1>2. m.kind # "get" => Known(m.shown, m.of, new)
  BY KnownStays DEF MessageOK
<1>3. m.state = "ok" => /\ Known(m.answer, m.of, new)
                        /\ m.answer.status = "closed" => new[m.of].status = "closed"
  BY KnownStays DEF MessageOK, Stays, Reviewed
<1>4. m.state = "loaded" => Loaded(m.before, m.of, new)
  BY LoadedStays DEF MessageOK
<1>5. QED
  BY <1>1, <1>2, <1>3, <1>4 DEF MessageOK

\* Whether its panel is still there is nothing the invariant speaks of.
LEMMA PanelDoesNotMatter ==
    ASSUME NEW m, NEW cases, NEW on, NEW of, NEW n, MessageOK(m, cases, on, of, n),
           NEW p, NEW o, o = [m EXCEPT !.panel = p]
    PROVE  MessageOK(o, cases, on, of, n)
<1>1. /\ IsMessage(o) /\ o.kind = m.kind /\ o.of = m.of /\ o.view = m.view /\ o.shown = m.shown
      /\ o.state = m.state /\ o.answer = m.answer /\ o.before = m.before
      /\ o.choice = m.choice /\ o.ack = m.ack
  BY DEF MessageOK, IsMessage
<1>2. AsShown(m) => AsShown(o)
  BY <1>1 DEF AsShown
<1>3. Accepted(m, m.before, Me) => Accepted(o, o.before, Me)
  BY <1>1 DEF Accepted
<1>4. QED
  BY <1>1, <1>2, <1>3 DEF MessageOK

LEMMA SameCases == ASSUME NEW c PROVE Stays(c, c)
  BY DEF Stays

\* The cases go on, the page is as it was, and what is on its way was so
\* before or fits the cases now.
LEMMA CasesGoOn ==
    ASSUME ConsoleInv, CasesOK', Stays(case, case'), UNCHANGED tab,
           \A o \in net' : o \in net \/ MessageOK(o, case', mount, selected, views),
           \A o \in theirs' : o \in theirs \/ TheirOK(o, case')
    PROVE  ConsoleInv'
<1>1. /\ mount' = mount /\ selected' = selected /\ views' = views /\ detail' = detail
      /\ views \in Nat
  BY DEF tab, ConsoleInv, PageOK
<1>2. PageOK'
  <2>1. CASE detail = NoDetail
    BY <1>1, <2>1 DEF ConsoleInv, PageOK
  <2>2. CASE detail # NoDetail
    <3>1. mount # 0 /\ selected \in Cases /\ Known(detail, selected, case)
      BY <2>2 DEF ConsoleInv, PageOK
    <3>2. Known(detail, selected, case')
      BY <3>1, KnownStays
    <3>3. QED
      BY <1>1, <3>1, <3>2 DEF ConsoleInv, PageOK
  <2>3. QED
    BY <2>1, <2>2
<1>3. ASSUME NEW m \in net PROVE MessageOK(m, case', mount, selected, views)
  <2>1. MessageOK(m, case, mount, selected, views) /\ views \in Nat
    BY DEF ConsoleInv, NetOK, PageOK
  <2>2. QED
    BY <2>1, MessageStays
<1>4. NetOK'
  BY <1>1, <1>3 DEF NetOK
<1>5. ASSUME NEW o \in theirs PROVE TheirOK(o, case')
  <2>1. o.of \in Cases /\ Loaded(o.before, o.of, case) /\ Follows(o.before, o.new)
    BY DEF ConsoleInv, TheirsOK, TheirOK
  <2>2. Loaded(o.before, o.of, case')
    BY <2>1, LoadedStays
  <2>3. QED
    BY <2>1, <2>2 DEF TheirOK
<1>6. TheirsOK'
  BY <1>5 DEF TheirsOK
<1>7. QED
  BY <1>2, <1>4, <1>6 DEF ConsoleInv

LEMMA TheirsGoOn == ASSUME ConsoleInv, UNCHANGED <<case, theirs>> PROVE TheirsOK'
  BY DEF ConsoleInv, TheirsOK

\* Some of the messages, changed or not, and a page that is as it was.
LEMMA FewerMessages ==
    ASSUME ConsoleInv, NEW m \in net, NEW o, MessageOK(o, case, mount, selected, views),
           NEW kept, kept \subseteq {o}, net' = (net \ {m}) \cup kept, UNCHANGED <<case, tab, theirs>>
    PROVE  ConsoleInv'
<1>1. CasesOK' /\ Stays(case, case')
  BY SameCases DEF ConsoleInv, CasesOK
<1>2. \A n \in net' : n \in net \/ MessageOK(n, case', mount, selected, views)
  OBVIOUS
<1>3. QED
  BY <1>1, <1>2, CasesGoOn

-----------------------------------------------------------------------------
(* The page.                                                               *)

LEMMA GetIsMessage ==
    ASSUME NEW c \in Cases, NEW n \in Nat, NEW view \in 1 .. n, NEW in, NEW cases
    PROVE  MessageOK(Get(c, view, in), cases, view, c, n)
<1>1. PICK m : m = Get(c, view, in)
  OBVIOUS
<1>2. /\ IsMessage(m) /\ m.kind = "get" /\ m.of = c /\ m.view = view /\ m.state = "sent"
  BY <1>1 DEF Get, IsMessage
<1>3. QED
  BY <1>1, <1>2 DEF MessageOK

\* A view appears, of the case selected: no message on its way is for it.
LEMMA AppearHolds ==
    ASSUME ConsoleInv, NEW in, NEW c \in Cases \cup {None},
           selected' = c, UNCHANGED <<case, theirs>>, Appear(c, in)
    PROVE  ConsoleInv'
<1>0. None \notin Cases
  BY PeopleAssumption
<1>1. CasesOK' /\ TheirsOK' /\ detail' = NoDetail /\ views \in Nat
  BY TheirsGoOn DEF ConsoleInv, CasesOK, PageOK, Appear
<1>2. CASE c = None
  <2>1. mount' = 0 /\ views' = views /\ net' = net
    BY <1>2 DEF Appear
  <2>2. PageOK'
    BY <1>1, <2>1 DEF PageOK
  <2>3. ASSUME NEW m \in net PROVE MessageOK(m, case, 0, c, views)
    <3>1. MessageOK(m, case, mount, selected, views) /\ Stays(case, case)
      BY SameCases DEF ConsoleInv, NetOK
    <3>2. QED
      BY <1>1, <3>1, MessageStays
  <2>4. NetOK'
    BY <2>1, <2>3 DEF NetOK
  <2>5. QED
    BY <1>1, <2>2, <2>4 DEF ConsoleInv
<1>3. CASE c # None
  <2>1. /\ views' = views + 1 /\ mount' = views + 1 /\ c \in Cases
        /\ net' = net \cup {Get(c, mount', in)}
    BY <1>3 DEF Appear
  <2>2. PageOK'
    BY <1>1, <2>1 DEF PageOK
  <2>3. ASSUME NEW m \in net PROVE MessageOK(m, case, views + 1, c, views + 1)
    <3>1. MessageOK(m, case, mount, selected, views) /\ Stays(case, case)
      BY SameCases DEF ConsoleInv, NetOK
    <3>2. QED
      BY <1>1, <3>1, MessageStays
  <2>4. MessageOK(Get(c, views + 1, in), case, views + 1, c, views + 1)
    BY <1>1, <2>1, GetIsMessage
  <2>5. NetOK'
    BY <2>1, <2>3, <2>4 DEF NetOK
  <2>6. QED
    BY <1>1, <2>2, <2>5 DEF ConsoleInv
<1>4. QED
  BY <1>2, <1>3

\* The page is left: no message is for a view that is not there.
LEMMA LeaveHolds ==
    ASSUME ConsoleInv, LeavePage, UNCHANGED <<case, theirs>>,
           \A o \in net' : MessageOK(o, case, mount, selected, views)
    PROVE  ConsoleInv'
<1>1. CasesOK' /\ TheirsOK' /\ PageOK' /\ views \in Nat
  BY TheirsGoOn DEF ConsoleInv, CasesOK, PageOK, LeavePage
<1>2. ASSUME NEW o \in net' PROVE MessageOK(o, case, 0, selected, views)
  BY <1>1, MessageStays, SameCases
<1>3. NetOK'
  BY <1>2 DEF NetOK, LeavePage
<1>4. QED
  BY <1>1, <1>3 DEF ConsoleInv

LEMMA PollHolds == ASSUME ConsoleInv, Poll PROVE ConsoleInv'
<1>1. /\ net' = net \cup {Get(selected, mount, session)} /\ UNCHANGED <<case, tab, theirs>>
      /\ selected \in Cases /\ views \in Nat /\ mount \in 1 .. views
  BY DEF Poll, ConsoleInv, PageOK
<1>2. MessageOK(Get(selected, mount, session), case, mount, selected, views)
  BY <1>1, GetIsMessage
<1>3. CasesOK' /\ Stays(case, case')
  BY <1>1, SameCases DEF ConsoleInv, CasesOK
<1>4. \A o \in net' : o \in net \/ MessageOK(o, case', mount, selected, views)
  BY <1>1, <1>2
<1>5. QED
  BY <1>1, <1>3, <1>4, CasesGoOn

\* A decision goes out with what the page shows, in the mode that offers it.
LEMMA ClickHolds == ASSUME ConsoleInv, Click PROVE ConsoleInv'
<1>1. /\ UNCHANGED <<case, theirs, selected, mount, views, detail>>
      /\ selected \in Cases /\ views \in Nat /\ mount \in 1 .. views
      /\ Known(detail, selected, case)
  BY DEF Click, ConsoleInv, PageOK
<1>2. PICK kind \in {"sign_off", "confirm", "reject"}, choice \in Decision :
          /\ kind = "sign_off" => Mode(detail, Me) = "decide"
          /\ kind # "sign_off" => Mode(detail, Me) = "confirm-escalation"
          /\ net' = net \cup {[Get(selected, mount, session) EXCEPT
                 !.kind = kind, !.choice = choice, !.ack = NeedsOverride(detail, choice),
                 !.panel = TRUE, !.shown = detail]}
  BY Zenon DEF Click
<1>3. PICK g : g = Get(selected, mount, session)
  OBVIOUS
<1>4. PICK m : m = [g EXCEPT !.kind = kind, !.choice = choice,
                        !.ack = NeedsOverride(detail, choice), !.panel = TRUE, !.shown = detail]
  OBVIOUS
<1>5. IsMessage(g) /\ g.of = selected /\ g.view = mount /\ g.state = "sent"
  BY <1>3 DEF Get, IsMessage
<1>6. /\ IsMessage(m) /\ m.kind = kind /\ m.of = selected /\ m.view = mount
      /\ m.state = "sent" /\ m.shown = detail
  BY <1>4, <1>5 DEF IsMessage
<1>7. MessageOK(m, case, mount, selected, views)
  BY <1>1, <1>2, <1>6 DEF MessageOK, Expected
<1>8. net' = net \cup {m}
  BY <1>2, <1>3, <1>4
<1>9. NetOK'
  BY <1>1, <1>7, <1>8 DEF ConsoleInv, NetOK
<1>10. CasesOK' /\ PageOK' /\ TheirsOK'
  BY <1>1, TheirsGoOn DEF ConsoleInv, CasesOK, PageOK
<1>11. QED
  BY <1>9, <1>10 DEF ConsoleInv

-----------------------------------------------------------------------------
(* The service.                                                            *)

\* What an accepted decision makes of the row, and what the row was.
LEMMA EffectHolds ==
    ASSUME NEW d, Sound(d), NEW who \in Others \cup {Me}, NEW m,
           m.kind \in {"sign_off", "confirm", "reject"}, Accepted(m, d, who)
    PROVE  /\ Follows(d, Effect(m, d, who)) /\ Reviewed(d)
           /\ m.kind # "reject" /\ who = Me => Mode(d, Me) = Expected(m.kind)
           /\ m.kind = "reject" => d.pending \notin {None, who}
<1>0. who # None /\ d \in Detail
  BY PeopleAssumption DEF Sound
<1>1. Reviewed(d) /\ d.job = "done" /\ (m.kind # "reject" => d.status = "human_review")
  BY <1>0 DEF Accepted, MaySignOff, Sound, Reviewed
<1>2. /\ m.kind # "reject" /\ who = Me => Mode(d, Me) = Expected(m.kind)
      /\ m.kind = "reject" => d.pending \notin {None, who}
  BY <1>0, <1>1 DEF Accepted, MaySignOff, Mode, Expected
<1>3. CASE m.kind = "sign_off" /\ m.choice = "ESCALATE"
  <2>1. PICK e : e = [d EXCEPT !.pending = who]
    OBVIOUS
  <2>2. /\ e \in Detail /\ e.pending = who /\ e.status = d.status
        /\ e.job = d.job /\ e.advisory = d.advisory
    BY <1>0, <2>1 DEF Detail
  <2>3. Effect(m, d, who) = e
    BY <1>3, <2>1 DEF Effect
  <2>4. QED
    BY <1>1, <1>2, <2>2, <2>3 DEF Follows, Sound, Reviewed
<1>4. CASE m.kind = "sign_off" /\ m.choice # "ESCALATE"
  <2>1. PICK e : e = [d EXCEPT !.status = "closed"]
    OBVIOUS
  <2>2. /\ e \in Detail /\ e.pending = d.pending /\ e.status = "closed"
        /\ e.job = d.job /\ e.advisory = d.advisory
    BY <1>0, <2>1 DEF Detail
  <2>3. Effect(m, d, who) = e
    BY <1>4, <2>1 DEF Effect
  <2>4. QED
    BY <1>1, <1>2, <2>2, <2>3 DEF Follows, Sound, Reviewed
<1>5. CASE m.kind = "confirm"
  <2>1. PICK e : e = [d EXCEPT !.status = "closed", !.pending = None]
    OBVIOUS
  <2>2. /\ e \in Detail /\ e.pending = None /\ e.status = "closed"
        /\ e.job = d.job /\ e.advisory = d.advisory
    BY <1>0, <2>1 DEF Detail
  <2>3. Effect(m, d, who) = e
    BY <1>5, <2>1 DEF Effect, Closed
  <2>4. QED
    BY <1>1, <1>2, <2>2, <2>3 DEF Follows, Sound, Reviewed
<1>6. CASE m.kind = "reject"
  <2>1. PICK e : e = [d EXCEPT !.pending = None]
    OBVIOUS
  <2>2. /\ e \in Detail /\ e.pending = None /\ e.status = d.status
        /\ e.job = d.job /\ e.advisory = d.advisory
    BY <1>0, <2>1 DEF Detail
  <2>3. Effect(m, d, who) = e
    BY <1>6, <2>1 DEF Effect
  <2>4. QED
    BY <1>1, <1>2, <2>2, <2>3 DEF Follows, Sound, Reviewed
<1>7. QED
  BY <1>3, <1>4, <1>5, <1>6

\* One case changes, and stays sound.
LEMMA OneCaseChanges ==
    ASSUME CasesOK, NEW c \in Cases, NEW d, Sound(d), case' = [case EXCEPT ![c] = d],
           Reviewed(case[c]) => /\ Reviewed(d) /\ d.advisory = case[c].advisory
                                /\ case[c].status = "closed" => d.status = "closed"
    PROVE  CasesOK' /\ Stays(case, case') /\ case'[c] = d
<1>1. \A x \in Cases : case'[x] = IF x = c THEN d ELSE case[x]
  BY DEF CasesOK
<1>2. case' = [x \in Cases |-> case'[x]]
  BY DEF CasesOK
<1>3. QED
  BY <1>1, <1>2 DEF CasesOK, Stays

\* Saving what a decision made of a row it had loaded: a case in review stays
\* so or is closed, whatever was saved in between.
LEMMA SavedHolds ==
    ASSUME CasesOK, NEW c \in Cases, NEW d, NEW e, Loaded(d, c, case), Follows(d, e),
           case' = [case EXCEPT ![c] = Saved(@, d, e)]
    PROVE  /\ CasesOK' /\ Stays(case, case') /\ Known(e, c, case')
           /\ e.status = "closed" => case'[c].status = "closed"
<1>1. PICK x : x = case[c]
  OBVIOUS
<1>2. PICK s : s = Saved(x, d, e)
  OBVIOUS
<1>3. /\ x \in Detail /\ d \in Detail /\ e \in Detail /\ Reviewed(x) /\ Reviewed(d) /\ Reviewed(e)
      /\ x.job = "done" /\ d.job = "done" /\ e.job = "done"
      /\ x.advisory = d.advisory /\ e.advisory = d.advisory
      /\ d.status = "closed" => x.status = "closed"
      /\ d.status = "closed" => e.status = "closed"
  BY <1>1 DEF CasesOK, Loaded, Follows, Sound
<1>4. s = [job |-> "done", status |-> IF e.status = d.status THEN x.status ELSE e.status,
           advisory |-> x.advisory, pending |-> IF e.pending = d.pending THEN x.pending ELSE e.pending]
  <2>1. DOMAIN x = {"job", "status", "advisory", "pending"}
    BY <1>3 DEF Detail
  <2>2. s = [f \in {"job", "status", "advisory", "pending"} |->
                 IF e[f] = d[f] THEN x[f] ELSE e[f]]
    BY <1>2, <2>1 DEF Saved
  <2>3. QED
    BY <1>3, <2>2
<1>5. /\ s.status = (IF e.status = d.status THEN x.status ELSE e.status) /\ s.job = "done"
      /\ s.advisory = x.advisory
      /\ s.pending = (IF e.pending = d.pending THEN x.pending ELSE e.pending)
      /\ s \in Detail
  BY <1>3, <1>4 DEF Detail
<1>6. Reviewed(s) /\ Sound(s)
  BY <1>3, <1>5 DEF Sound, Reviewed
<1>7. /\ x.status = "closed" => s.status = "closed"
      /\ e.status = "closed" => s.status = "closed"
  BY <1>3, <1>5 DEF Reviewed
<1>8. case' = [case EXCEPT ![c] = s]
  BY <1>1, <1>2
<1>9. CasesOK' /\ Stays(case, case') /\ case'[c] = s
  BY <1>1, <1>5, <1>6, <1>7, <1>8, OneCaseChanges
<1>10. QED
  BY <1>3, <1>5, <1>6, <1>7, <1>9 DEF Known

LEMMA AnalyseHolds ==
    ASSUME ConsoleInv, NEW c \in Cases, Analyse(c)
    PROVE  ConsoleInv'
<1>0. CasesOK /\ Sound(case[c]) /\ UNCHANGED <<tab, net, theirs>>
  BY DEF ConsoleInv, CasesOK, Analyse
<1>1. case[c].job \in {"queued", "running"} /\ ~Reviewed(case[c]) /\ case[c].pending = None
  BY <1>0 DEF Analyse, Sound, Reviewed, Detail
<1>2. PICK d : Sound(d) /\ case' = [case EXCEPT ![c] = d]
  <2>1. CASE \E j \in {"running", "failed"} : case' = [case EXCEPT ![c].job = j]
    <3>1. PICK j \in {"running", "failed"} : case' = [case EXCEPT ![c].job = j]
      BY <2>1
    <3>2. PICK d : d = [case[c] EXCEPT !.job = j]
      OBVIOUS
    <3>3. d \in Detail /\ d.status = case[c].status /\ d.pending = case[c].pending
      BY <1>0, <3>2 DEF Sound, Detail
    <3>4. Sound(d)
      BY <1>1, <3>3 DEF Sound, Reviewed
    <3>5. case' = [case EXCEPT ![c] = d]
      BY <3>1, <3>2
    <3>6. QED
      BY <3>4, <3>5
  <2>2. CASE \E a \in Advice : case' = [case EXCEPT ![c] =
                 [job |-> "done", status |-> "human_review", advisory |-> a, pending |-> None]]
    <3>1. PICK a \in Advice : case' = [case EXCEPT ![c] =
                 [job |-> "done", status |-> "human_review", advisory |-> a, pending |-> None]]
      BY <2>2
    <3>2. Sound([job |-> "done", status |-> "human_review", advisory |-> a, pending |-> None])
      BY AdviceAssumption DEF Sound, Detail, Reviewed
    <3>3. QED
      BY <3>1, <3>2
  <2>3. QED
    BY <2>1, <2>2 DEF Analyse
<1>3. CasesOK' /\ Stays(case, case')
  BY <1>0, <1>1, <1>2, OneCaseChanges
<1>4. QED
  BY <1>0, <1>3, CasesGoOn

\* Another decision has loaded the row it is checked against.
LEMMA OtherLoadsHolds ==
    ASSUME ConsoleInv, NEW c \in Cases, OtherLoads(c)
    PROVE  ConsoleInv'
<1>0. CasesOK /\ Sound(case[c]) /\ UNCHANGED <<case, tab, net>>
  BY DEF ConsoleInv, CasesOK, OtherLoads
<1>1. PICK who \in Others, kind \in {"sign_off", "confirm", "reject"}, choice \in Decision :
          LET m == [kind |-> kind, choice |-> choice, ack |-> TRUE]
          IN  /\ Accepted(m, case[c], who)
              /\ theirs' = theirs \cup {[of |-> c, before |-> case[c], new |-> Effect(m, case[c], who)]}
  BY Zenon DEF OtherLoads
<1>2. PICK m : m = [kind |-> kind, choice |-> choice, ack |-> TRUE]
  OBVIOUS
<1>3. PICK e : e = Effect(m, case[c], who)
  OBVIOUS
<1>4. PICK o : o = [of |-> c, before |-> case[c], new |-> e]
  OBVIOUS
<1>5. Accepted(m, case[c], who) /\ theirs' = theirs \cup {o} /\ m.kind = kind
  BY <1>1, <1>2, <1>3, <1>4
<1>6. Follows(case[c], e) /\ Reviewed(case[c])
  BY <1>0, <1>3, <1>5, EffectHolds
<1>7. o.of = c /\ o.before = case[c] /\ o.new = e
  BY <1>4
<1>8. TheirOK(o, case)
  BY <1>0, <1>6, <1>7 DEF TheirOK, Loaded
<1>9. CasesOK' /\ Stays(case, case') /\ case' = case
  BY <1>0, SameCases DEF CasesOK
<1>10. /\ \A n \in net' : n \in net
       /\ \A n \in theirs' : n \in theirs \/ TheirOK(n, case')
  BY <1>0, <1>5, <1>8
<1>11. QED
  BY <1>0, <1>9, <1>10, CasesGoOn

LEMMA OtherCommitsHolds ==
    ASSUME ConsoleInv, NEW o \in theirs, OtherCommits(o)
    PROVE  ConsoleInv'
<1>1. CasesOK /\ o.of \in Cases /\ Loaded(o.before, o.of, case) /\ Follows(o.before, o.new)
  BY DEF ConsoleInv, TheirsOK, TheirOK
<1>2. /\ case' = [case EXCEPT ![o.of] = Saved(@, o.before, o.new)]
      /\ UNCHANGED <<tab, net>> /\ \A n \in theirs' : n \in theirs
  BY DEF OtherCommits
<1>3. CasesOK' /\ Stays(case, case')
  BY <1>1, <1>2, SavedHolds
<1>4. QED
  BY <1>2, <1>3, CasesGoOn

\* A request is refused or lost: it did nothing and holds nothing.
LEMMA RefusedMessage ==
    ASSUME ConsoleInv, NEW m \in net, NEW s \in {"error", "401"}, NEW o,
           \/ o = [m EXCEPT !.state = s]
           \/ o = [m EXCEPT !.state = s, !.answer = NoDetail, !.before = NoDetail]
    PROVE  MessageOK(o, case, mount, selected, views)
<1>1. MessageOK(m, case, mount, selected, views)
  BY DEF ConsoleInv, NetOK
<1>2. /\ IsMessage(o) /\ o.kind = m.kind /\ o.of = m.of /\ o.view = m.view
      /\ o.shown = m.shown /\ o.state = s
  BY <1>1 DEF MessageOK, IsMessage
<1>3. QED
  BY <1>1, <1>2 DEF MessageOK

\* A request to read is answered with the row as it is.
LEMMA ReadHolds ==
    ASSUME ConsoleInv, NEW m \in net, m.kind = "get", NEW o,
           o = [m EXCEPT !.state = "ok", !.answer = case[m.of]]
    PROVE  MessageOK(o, case, mount, selected, views)
<1>1. MessageOK(m, case, mount, selected, views) /\ Sound(case[m.of])
  BY DEF ConsoleInv, NetOK, CasesOK, MessageOK
<1>2. /\ IsMessage(o) /\ o.kind = "get" /\ o.of = m.of /\ o.view = m.view
      /\ o.state = "ok" /\ o.answer = case[m.of]
  BY <1>1 DEF MessageOK, IsMessage
<1>3. Known(o.answer, o.of, case)
  BY <1>1, <1>2 DEF Known, Sound, Reviewed
<1>4. QED
  BY <1>1, <1>2, <1>3 DEF MessageOK

\* A decision is accepted on the row as it is, which is as it was shown.
LEMMA AcceptedHolds ==
    ASSUME ConsoleInv, NEW m \in net, m.kind # "get", Accepted(m, case[m.of], Me), NEW o,
           o = [m EXCEPT !.state = "loaded", !.before = case[m.of]]
    PROVE  MessageOK(o, case, mount, selected, views)
<1> DEFINE d == case[m.of]
<1>1. /\ MessageOK(m, case, mount, selected, views) /\ Sound(d)
      /\ m.kind \in {"sign_off", "confirm", "reject"}
      /\ Known(m.shown, m.of, case) /\ Mode(m.shown, Me) = Expected(m.kind)
  BY DEF ConsoleInv, NetOK, CasesOK, MessageOK
<1>2. /\ IsMessage(o) /\ o.kind = m.kind /\ o.of = m.of /\ o.view = m.view /\ o.shown = m.shown
      /\ o.choice = m.choice /\ o.ack = m.ack /\ o.state = "loaded" /\ o.before = d
  BY <1>1 DEF MessageOK, IsMessage
<1>3. /\ Reviewed(d)
      /\ m.kind # "reject" => Mode(d, Me) = Expected(m.kind)
      /\ m.kind = "reject" => d.pending \notin {None, Me}
  BY <1>1, EffectHolds
<1>4. m.shown.status = "human_review"
  BY <1>1 DEF Mode, Expected
<1>5. d.advisory = m.shown.advisory
  BY <1>1, <1>4 DEF Known
<1>6. AsShown(o)
  BY <1>1, <1>2, <1>3, <1>5 DEF AsShown
<1>7. Accepted(o, o.before, Me)
  BY <1>2 DEF Accepted
<1>8. Loaded(o.before, o.of, case)
  BY <1>1, <1>2, <1>3 DEF Loaded
<1>9. QED
  BY <1>1, <1>2, <1>6, <1>7, <1>8 DEF MessageOK

LEMMA ServeHolds ==
    ASSUME ConsoleInv, NEW m \in net, Serve(m)
    PROVE  ConsoleInv'
<1>1. UNCHANGED <<case, tab, theirs>> /\ \A n : Keep(n) \subseteq {n}
  BY DEF Serve, Keep
<1>2. CASE m.in \in expired
  <2>1. PICK o : o = [m EXCEPT !.state = "401"]
    OBVIOUS
  <2>2. net' = (net \ {m}) \cup Keep(o)
    BY <1>2, <2>1 DEF Serve
  <2>3. MessageOK(o, case, mount, selected, views)
    BY <2>1, RefusedMessage
  <2>4. QED
    BY <1>1, <2>2, <2>3, FewerMessages
<1>3. CASE m.in \notin expired /\ m.kind = "get"
  <2>1. PICK o : o = [m EXCEPT !.state = "ok", !.answer = case[m.of]]
    OBVIOUS
  <2>2. net' = (net \ {m}) \cup Keep(o)
    BY <1>3, <2>1 DEF Serve
  <2>3. MessageOK(o, case, mount, selected, views)
    BY <1>3, <2>1, ReadHolds
  <2>4. QED
    BY <1>1, <2>2, <2>3, FewerMessages
<1>4. CASE m.in \notin expired /\ m.kind # "get" /\ Accepted(m, case[m.of], Me)
  <2>1. PICK o : o = [m EXCEPT !.state = "loaded", !.before = case[m.of]]
    OBVIOUS
  <2>2. net' = (net \ {m}) \cup Keep(o)
    BY <1>4, <2>1 DEF Serve
  <2>3. MessageOK(o, case, mount, selected, views)
    BY <1>4, <2>1, AcceptedHolds
  <2>4. QED
    BY <1>1, <2>2, <2>3, FewerMessages
<1>5. CASE m.in \notin expired /\ m.kind # "get" /\ ~Accepted(m, case[m.of], Me)
  <2>1. PICK o : o = [m EXCEPT !.state = "error"]
    OBVIOUS
  <2>2. net' = (net \ {m}) \cup Keep(o)
    BY <1>5, <2>1 DEF Serve
  <2>3. MessageOK(o, case, mount, selected, views)
    BY <2>1, RefusedMessage
  <2>4. QED
    BY <1>1, <2>2, <2>3, FewerMessages
<1>6. QED
  BY <1>2, <1>3, <1>4, <1>5

\* A decision is saved and answered, on a row that has gone on.
LEMMA CommitHolds ==
    ASSUME ConsoleInv, NEW m \in net, Commit(m)
    PROVE  ConsoleInv'
<1>1. PICK e : e = Effect(m, m.before, Me)
  OBVIOUS
<1>2. PICK o : o = [m EXCEPT !.state = "ok", !.answer = e]
  OBVIOUS
<1>3. /\ case' = [case EXCEPT ![m.of] = Saved(@, m.before, e)]
      /\ net' = (net \ {m}) \cup {o} /\ UNCHANGED <<tab, theirs>> /\ m.state = "loaded"
  BY <1>1, <1>2 DEF Commit
<1>4. /\ MessageOK(m, case, mount, selected, views) /\ CasesOK /\ views \in Nat
      /\ m.kind \in {"sign_off", "confirm", "reject"} /\ m.of \in Cases /\ AsShown(m)
      /\ Loaded(m.before, m.of, case) /\ Accepted(m, m.before, Me)
  BY <1>3 DEF ConsoleInv, NetOK, PageOK, MessageOK
<1>5. Sound(m.before)
  BY <1>4 DEF Loaded
<1>6. Follows(m.before, e)
  BY <1>1, <1>4, <1>5, EffectHolds
<1>7. /\ CasesOK' /\ Stays(case, case') /\ Known(e, m.of, case')
      /\ e.status = "closed" => case'[m.of].status = "closed"
  BY <1>3, <1>4, <1>6, SavedHolds
<1>8. /\ IsMessage(o) /\ o.kind = m.kind /\ o.of = m.of /\ o.view = m.view /\ o.shown = m.shown
      /\ o.state = "ok" /\ o.answer = e /\ o.before = m.before
  BY <1>2, <1>4 DEF MessageOK, IsMessage
<1>9. AsShown(o)
  BY <1>4, <1>8 DEF AsShown
<1>10. MessageOK(m, case', mount, selected, views)
  BY <1>4, <1>7, MessageStays
<1>11. MessageOK(o, case', mount, selected, views)
  BY <1>7, <1>8, <1>9, <1>10 DEF MessageOK
<1>12. /\ \A n \in net' : n \in net \/ MessageOK(n, case', mount, selected, views)
       /\ \A n \in theirs' : n \in theirs
  BY <1>3, <1>11
<1>13. QED
  BY <1>3, <1>7, <1>12, CasesGoOn

LEMMA LoseHolds ==
    ASSUME ConsoleInv, NEW m \in net, Lose(m)
    PROVE  ConsoleInv'
<1>1. PICK o : o = [m EXCEPT !.state = "error", !.answer = NoDetail, !.before = NoDetail]
  OBVIOUS
<1>2. net' = (net \ {m}) \cup Keep(o) /\ UNCHANGED <<case, tab, theirs>>
  BY <1>1 DEF Lose
<1>3. MessageOK(o, case, mount, selected, views)
  BY <1>1, RefusedMessage
<1>4. Keep(o) \subseteq {o}
  BY DEF Keep
<1>5. QED
  BY <1>2, <1>3, <1>4, FewerMessages

-----------------------------------------------------------------------------
(* An answer reaches the page.                                             *)

LEMMA ArriveHolds ==
    ASSUME ConsoleInv, NEW m \in net, Arrive(m)
    PROVE  ConsoleInv'
<1> DEFINE Drop(orphaned) == net' = {[n EXCEPT !.panel = @ /\ ~orphaned] : n \in net \ {m}}
<1>1. /\ MessageOK(m, case, mount, selected, views) /\ m.state \in {"ok", "error", "401"}
      /\ UNCHANGED <<case, theirs>> /\ CasesOK
  BY DEF ConsoleInv, NetOK, MessageOK, Arrive
<1>2. ASSUME NEW b, Drop(b), NEW o \in net'
      PROVE  MessageOK(o, case, mount, selected, views)
  <2>1. PICK n \in net : o = [n EXCEPT !.panel = @ /\ ~b]
    BY <1>2
  <2>2. MessageOK(n, case, mount, selected, views)
    BY DEF ConsoleInv, NetOK
  <2>3. PICK p : p = (n.panel /\ ~b)
    OBVIOUS
  <2>4. o = [n EXCEPT !.panel = p]
    BY <2>1, <2>3
  <2>5. QED
    BY <2>2, <2>4, PanelDoesNotMatter
<1>3. CASE m.state = "401"
  <2>1. Drop(FALSE) /\ LeavePage
    BY <1>3 DEF Arrive
  <2>2. QED
    BY <1>1, <1>2, <2>1, LeaveHolds
<1>4. ASSUME NEW b, Drop(b), mount' = mount, selected' = selected, views' = views, detail' = detail
      PROVE  ConsoleInv'
  <2> HIDE DEF Drop
  <2>1. \A o \in net' : MessageOK(o, case, mount, selected, views)
    BY <1>2, <1>4
  <2>2. case' = case /\ mount' = mount /\ selected' = selected /\ views' = views
    BY <1>1, <1>4
  <2>3. NetOK'
    BY <2>1, <2>2 DEF NetOK
  <2>4. CasesOK' /\ PageOK' /\ TheirsOK'
    BY <1>1, <1>4, TheirsGoOn DEF ConsoleInv, CasesOK, PageOK
  <2>5. QED
    BY <2>3, <2>4 DEF ConsoleInv
<1>5. CASE m.state # "401" /\ m.view # mount
  <2>1. Drop(FALSE) /\ UNCHANGED tab
    BY <1>5 DEF Arrive
  <2>2. QED
    BY <1>4, <2>1 DEF tab
<1>6. CASE m.state = "error" /\ m.view = mount
  <2>1. /\ Drop(m.kind = "get")
        /\ UNCHANGED <<session, selected, mount, views, detail>>
    BY <1>6 DEF Arrive
  <2>2. PICK b : b = (m.kind = "get")
    OBVIOUS
  <2>3. Drop(b)
    BY <2>1, <2>2
  <2> HIDE DEF Drop
  <2>4. QED
    BY <1>4, <2>1, <2>3
<1>7. CASE m.state = "ok" /\ m.view = mount
  <2>1. /\ Drop(FALSE) /\ detail' = m.answer
        /\ mount' = mount /\ selected' = selected /\ views' = views
    BY <1>1, <1>7 DEF Arrive
  <2>2. NetOK'
    BY <1>1, <1>2, <2>1 DEF NetOK
  <2>3. mount # 0 /\ m.of = selected /\ Known(m.answer, selected, case)
    BY <1>1, <1>7 DEF MessageOK
  <2>4. PageOK'
    BY <1>1, <2>1, <2>3 DEF ConsoleInv, PageOK
  <2>5. CasesOK' /\ TheirsOK'
    BY <1>1, TheirsGoOn DEF CasesOK
  <2>6. QED
    BY <2>2, <2>4, <2>5 DEF ConsoleInv
<1>8. QED
  BY <1>1, <1>3, <1>5, <1>6, <1>7

-----------------------------------------------------------------------------
(* The invariant and what it gives.                                        *)

LEMMA ConsoleStarts == ConsoleInit => ConsoleInv
<1> SUFFICES ASSUME ConsoleInit PROVE ConsoleInv
  OBVIOUS
<1>1. Sound(Fresh)
  BY DEF Fresh, Sound, Detail, Reviewed
<1>2. CasesOK
  BY <1>1 DEF ConsoleInit, CasesOK
<1>3. QED
  BY <1>2 DEF ConsoleInit, ConsoleInv, PageOK, NetOK, TheirsOK

LEMMA ConsoleGoesOn == ConsoleInv /\ [ConsoleNext]_consoleVars => ConsoleInv'
<1> SUFFICES ASSUME ConsoleInv, [ConsoleNext]_consoleVars PROVE ConsoleInv'
  OBVIOUS
<1>1. CASE LogIn
  <2>1. /\ selected \in Cases \cup {None} /\ selected' = selected /\ UNCHANGED <<case, theirs>>
        /\ Appear(selected, session')
    BY <1>1 DEF LogIn, ConsoleInv, PageOK
  <2>2. QED
    BY <2>1, AppearHolds
<1>2. CASE LogOut
  BY <1>2, LeaveHolds DEF LogOut, ConsoleInv, NetOK
<1>3. CASE Expire \/ UNCHANGED consoleVars
  <2>1. UNCHANGED <<case, tab, net, theirs>>
    BY <1>3 DEF Expire, consoleVars, tab
  <2>2. CasesOK'
    BY <2>1 DEF ConsoleInv, CasesOK
  <2>3. QED
    BY <2>1, <2>2, CasesGoOn, SameCases
<1>4. CASE Poll \/ Click
  BY <1>4, PollHolds, ClickHolds
<1>5. ASSUME NEW c \in Cases, Select(c) PROVE ConsoleInv'
  <2>1. selected' = c /\ UNCHANGED <<case, theirs>> /\ Appear(c, session)
    BY <1>5 DEF Select
  <2>2. QED
    BY <2>1, AppearHolds
<1>6. ASSUME NEW c \in Cases, Analyse(c) \/ OtherLoads(c) PROVE ConsoleInv'
  BY <1>6, AnalyseHolds, OtherLoadsHolds
<1>7. ASSUME NEW m \in net, Serve(m) \/ Commit(m) \/ Lose(m) \/ Arrive(m) PROVE ConsoleInv'
  BY <1>7, ServeHolds, CommitHolds, LoseHolds, ArriveHolds
<1>8. ASSUME NEW o \in theirs, OtherCommits(o) PROVE ConsoleInv'
  BY <1>8, OtherCommitsHolds
<1>9. QED
  BY <1>1, <1>2, <1>3, <1>4, <1>5, <1>6, <1>7, <1>8 DEF ConsoleNext

\* A page's decision is accepted only on a row with the advisory decision the
\* page showed, awaiting what the page offered, and one that was told to have
\* closed a case has closed it for good, whatever overlaps: for any number of
\* cases, sessions, views, requests and other analysts.
THEOREM DecisionsAreAsShown == ConsoleSpec => []DecisionsRestOnWhatWasShown
<1>1. ConsoleInit => ConsoleInv
  BY ConsoleStarts
<1>2. ConsoleInv /\ [ConsoleNext]_consoleVars => ConsoleInv'
  BY ConsoleGoesOn
<1>3. ConsoleInv => DecisionsRestOnWhatWasShown
  BY DEF ConsoleInv, NetOK, MessageOK, AsShown, Known, Loaded, DecisionsRestOnWhatWasShown
<1>4. QED
  BY <1>1, <1>2, <1>3, PTL DEF ConsoleSpec
=============================================================================
