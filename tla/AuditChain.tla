----------------------------- MODULE AuditChain -----------------------------
(***************************************************************************)
(* The hash chain over the audit rows of one case:                         *)
(* backend/app/services/audit_chain.py.  Writers append events, each row   *)
(* holding the hash of the row before it; a reader loads the rows and      *)
(* checks them one by one; meanwhile rows may be lost, altered, exchanged  *)
(* or renumbered by something other than the program.  (CaseService models *)
(* writers that race for a sequence number; here an append is one step.)   *)
(*                                                                         *)
(* A hash is abstracted to the sequence of all that went into it.  That is *)
(* what SHA-256 without collisions gives: hash_n = SHA-256(hash_n-1 ||     *)
(* event n), and hash_n-1 has a fixed length, so equal hashes have equal   *)
(* pasts.  Nobody recomputes hashes after damage, as the module's own      *)
(* comment assumes.                                                        *)
(***************************************************************************)
EXTENDS Naturals, Sequences

CONSTANTS Contents,   \* what an event says besides its number
          MaxBatch,   \* bound: events of one append (11 in a whole analysis)
          MaxRows,    \* bound: the length of the trail
          MaxDamage   \* bound: how often the rows are damaged

ASSUME BoundsAssumption == MaxBatch \in Nat /\ MaxRows \in Nat /\ MaxDamage \in Nat

VARIABLES rows,      \* the rows of the case, ordered by seq
          appended,  \* ghost: every trail that append_events has left or extended
          damage,    \* how often the rows have been damaged
          reader     \* a verification: the rows it loaded and where it is

vars == <<rows, appended, damage, reader>>

-----------------------------------------------------------------------------
(* Hashes and rows.                                                        *)

GENESIS == <<>>

\* row_to_event: the number is part of what is hashed.
Row_to_event(row) == [seq |-> row.seq, content |-> row.content]
Event_hash(prev, event) == Append(prev, event)

Seqs   == 1 .. MaxRows
Event  == [seq : Seqs, content : Contents]
Hash   == Seq(Event)
Row    == [seq : Seqs, content : Contents, prev_hash : Hash, hash : Hash]

\* ChainReport; bad is the position of the row that the loop returned at.
Running == [ok |-> FALSE, bad |-> 0, reason |-> "running"]
Report  == [ok : BOOLEAN, bad : Nat,
            reason : {"running", "", "gap", "link", "content"}]

Idle == [rows |-> <<>>, at |-> 1, prev |-> GENESIS, report |-> Running, on |-> FALSE]

Init ==
    /\ rows = <<>>
    /\ appended = {<<>>}
    /\ damage = 0
    /\ reader = Idle

-----------------------------------------------------------------------------
(* append_events                                                           *)

\* The last number of the stored trail.
LastSeq == IF rows = <<>> THEN 0 ELSE rows[Len(rows)].seq

\* The hash that the first new row continues.  (Seeded fault: each call of
\* append_events starts a chain of its own.)
LastHashFresh == GENESIS
LastHash == IF rows = <<>> THEN GENESIS ELSE rows[Len(rows)].hash

\* The events of a batch with their final numbers.
Final(batch) == [i \in DOMAIN batch |-> [seq |-> LastSeq + i, content |-> batch[i]]]

HashAfter(events, i) == LastHash \o SubSeq(events, 1, i)

NewRows(batch) ==
    [i \in DOMAIN batch |->
        [seq |-> LastSeq + i, content |-> batch[i],
         prev_hash |-> HashAfter(Final(batch), i - 1),
         hash      |-> Event_hash(HashAfter(Final(batch), i - 1), Final(batch)[i])]]

Append_events ==
    \E n \in 1 .. MaxBatch : \E batch \in [1 .. n -> Contents] :
        /\ LastSeq + n <= MaxRows
        /\ rows' = rows \o NewRows(batch)
        /\ appended' = appended \cup {HashAfter(Final(batch), i) : i \in 0 .. n}
        /\ UNCHANGED <<damage, reader>>

-----------------------------------------------------------------------------
(* Damage to the table.                                                    *)

Without(s, i) == SubSeq(s, 1, i - 1) \o SubSeq(s, i + 1, Len(s))

Lose(i) == rows' = Without(rows, i)
Alter(i) == \E c \in Contents \ {rows[i].content} :
                rows' = [rows EXCEPT ![i].content = c]
\* Two rows change places: each takes the other's number.
Exchange(i, j) == rows' = [rows EXCEPT ![i] = [rows[j] EXCEPT !.seq = rows[i].seq],
                                       ![j] = [rows[i] EXCEPT !.seq = rows[j].seq]]
\* The numbers are made consecutive again.
Renumber == rows' = [i \in DOMAIN rows |-> [rows[i] EXCEPT !.seq = i]]

Damaged ==
    /\ damage < MaxDamage
    /\ damage' = damage + 1
    /\ \/ \E i \in DOMAIN rows : Lose(i) \/ Alter(i)
       \/ \E i, j \in DOMAIN rows : i < j /\ Exchange(i, j)
       \/ Renumber
    /\ UNCHANGED <<appended, reader>>

-----------------------------------------------------------------------------
(* verify_chain: the rows are loaded at once and then checked in order.    *)

Load_rows ==
    /\ ~reader.on
    /\ reader' = [Idle EXCEPT !.rows = rows, !.on = TRUE]
    /\ UNCHANGED <<rows, appended, damage>>

\* (Seeded fault: the link to the row before is all that is compared.)
WrongLinkOnly(row, at, prev) ==
    IF row.seq # at THEN "gap" ELSE IF row.prev_hash # prev THEN "link" ELSE ""
Wrong(row, at, prev) ==
    CASE row.seq # at                                      -> "gap"
      [] row.seq = at /\ row.prev_hash # prev              -> "link"
      [] /\ row.seq = at /\ row.prev_hash = prev
         /\ Event_hash(prev, Row_to_event(row)) # row.hash -> "content"
      [] OTHER                                             -> ""

Passed(row) == [reader EXCEPT !.at = @ + 1, !.prev = row.hash]

Check_row ==
    /\ reader.on /\ reader.report = Running
    /\ reader.at <= Len(reader.rows)
    /\ LET row == reader.rows[reader.at]
           why == Wrong(row, reader.at, reader.prev)
       IN  reader' = IF why = ""
                     THEN Passed(row)
                     ELSE [reader EXCEPT !.report =
                              [ok |-> FALSE, bad |-> reader.at, reason |-> why]]
    /\ UNCHANGED <<rows, appended, damage>>

All_checked ==
    /\ reader.on /\ reader.report = Running
    /\ reader.at > Len(reader.rows)
    /\ reader' = [reader EXCEPT !.report = [ok |-> TRUE, bad |-> 0, reason |-> ""]]
    /\ UNCHANGED <<rows, appended, damage>>

\* The response is sent; the next request starts from nothing.
Respond ==
    /\ reader.on /\ reader.report # Running
    /\ reader' = Idle
    /\ UNCHANGED <<rows, appended, damage>>

Verify == Load_rows \/ Check_row \/ All_checked \/ Respond

Next == Append_events \/ Damaged \/ Verify

Spec == Init /\ [][Next]_vars

-----------------------------------------------------------------------------
(* What must hold.                                                         *)

Events(s) == [i \in DOMAIN s |-> Row_to_event(s[i])]

\* The trail, the ghost and the reader keep their types; a trail is
\* strictly ordered and never longer than its last number says.
TypeOK ==
    /\ rows \in Seq(Row)
    /\ \A i \in DOMAIN rows : rows[i].seq >= i
    /\ \A i, j \in DOMAIN rows : i < j => rows[i].seq < rows[j].seq
    /\ appended \subseteq Hash
    /\ damage \in 0 .. MaxDamage
    /\ reader.rows \in Seq(Row) /\ reader.at \in Nat \ {0} /\ reader.prev \in Hash
    /\ reader.report \in Report /\ reader.on \in BOOLEAN

\* A trail that verify_chain accepts is, event for event, one that
\* append_events has left: nothing in it is altered, exchanged or renumbered
\* and nothing is missing before its last event.  (Events lost at its end are
\* not noticed; the trail is then an earlier one, or grown from it.)
VerifiedIsAuthentic ==
    reader.report.ok => Events(reader.rows) \in appended

\* When it reports an event, everything before that event can be relied on.
EventsBeforeTheBadOneAreAuthentic ==
    reader.report.bad # 0 =>
        /\ reader.report.bad \in DOMAIN reader.rows
        /\ Events(SubSeq(reader.rows, 1, reader.report.bad - 1)) \in appended

\* Rows that nothing has damaged are never reported, in however many batches
\* they were appended and however they interleave with the verification.
NoFalseAlarm == reader.report.bad # 0 => damage > 0
=============================================================================
