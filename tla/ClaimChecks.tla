---------------------------- MODULE ClaimChecks ----------------------------
(***************************************************************************)
(* Does the cited evidence contain what a claim says?  The evidence        *)
(* validator (guardrails/evidence_validator.py) and the critique that      *)
(* combines its verdicts with the policy of Guardrails                     *)
(* (guardrails/self_critique.py).                                          *)
(*                                                                         *)
(* A text is the set of its phrases, and a phrase is what extract_tokens   *)
(* reads in it: one of the constructors below.  Numbers are in hundredths; *)
(* a day is a year, a month and a day of the month; an id is a tuple.       *)
(***************************************************************************)
EXTENDS Guardrails, Integers, FiniteSets

\* class Tokens
NoTokens == [ids |-> {}, numbers |-> {}, dates |-> {}, hours |-> {}, currencies |-> {},
             times |-> {}, monthDays |-> {}]

Id(i)              == [NoTokens EXCEPT !.ids = {i}]
Number(v, places)  == [NoTokens EXCEPT !.numbers = {[value |-> v, places |-> places]}]
Currency(c)        == [NoTokens EXCEPT !.currencies = {c}]
Date(day)          == [NoTokens EXCEPT !.dates = {day}]         \* ISO, or prose with the year
MonthDay(m, d)     == [NoTokens EXCEPT !.monthDays = {<<m, d>>}]   \* prose without it
Clock(h, m)        == [NoTokens EXCEPT !.hours = {h % 24}, !.times = {<<h % 24, m>>}]
Stamp(day, h, m)   == [NoTokens EXCEPT !.dates = {day}, !.hours = {h}, !.times = {<<h, m>>}]
Hour24(h, pm)      == (h % 12) + (IF pm THEN 12 ELSE 0)
ClockAmPm(h, m, pm) == [NoTokens EXCEPT !.hours = {Hour24(h, pm)}, !.times = {<<Hour24(h, pm), m>>}]
AmPm(h, pm)        == [NoTokens EXCEPT !.hours = {Hour24(h, pm)}]

\* What a phrase is, whatever its words: it says something, a number has at
\* most two places, and a day without a year is a month and a day.
IsPhrase(p) ==
    /\ \E f \in DOMAIN NoTokens : p[f] # {}
    /\ \A n \in p.numbers : n.value \in Int /\ n.places \in 0 .. 2
    /\ \A x \in p.monthDays : x = <<x[1], x[2]>>

Tokens(text) == [f \in DOMAIN NoTokens |-> UNION {p[f] : p \in text}]

-----------------------------------------------------------------------------
(* EvidenceIndex: what each item and chunk contains.  An item of evidence  *)
(* has the phrases of its description and payload, the numbers of the      *)
(* payload as they are, and perhaps an hour_of_day (-1: none).             *)

ItemOf(ref, kind, text, numbers, hour_of_day) ==
    LET said == Tokens(text)
    IN  [ref |-> ref, kind |-> kind,
         numbers |-> {n.value : n \in said.numbers} \cup numbers,
         tokens  |-> [said EXCEPT !.ids = @ \cup {ref},
                                  !.hours = @ \cup (IF hour_of_day >= 0 THEN {hour_of_day} ELSE {})]]

EvidenceIndex(evidence, chunks) ==
    {ItemOf(e.id, "evidence", e.text, e.numbers, e.hour_of_day) : e \in evidence}
    \cup {ItemOf(c.id, "knowledge", c.text, {}, -1) : c \in chunks}

\* resolve: a citation is an id, with or without the prefix of the prompt.
Resolved(index, refs) == {i \in index : \E r \in refs : r.id = i.ref}
Unknown(index, refs)  == {r \in refs : \A i \in index : i.ref # r.id}
CaseItems(items)      == {i \in items : i.kind = "evidence"}

-----------------------------------------------------------------------------
Unit == <<100, 10, 1>>                          \* of a number with 0, 1, 2 places
Around(n, d) == n.value - d .. n.value + d

\* Half a unit of the last place as written.  (Seeded fault: a whole one.)
WithinAUnit(n, a) == a \in Around(n, Unit[n.places + 1])
WithinHalf(n, a)  == a \in Around(n, Unit[n.places + 1] \div 2)

\* _missing: what none of the items contains; a day of a month is also
\* contained in a full date.
Missing(tokens, items) ==
    LET have(f) == UNION {i.tokens[f] : i \in items}
    IN  [f \in DOMAIN tokens |->
            CASE f = "numbers"   -> {n \in tokens.numbers : \A i \in items : \A a \in i.numbers : ~WithinHalf(n, a)}
              [] f = "monthDays" -> tokens.monthDays \ (have(f) \cup {<<d[2], d[3]>> : d \in have("dates")})
              [] OTHER           -> tokens[f] \ have(f)]

\* check_claim
CheckClaim(index, text, kind, refs) ==
    LET items   == Resolved(index, refs)
        missing == Missing(Tokens(text), items)
        derived_only == missing.ids = {} /\ missing.dates = {} /\ missing.currencies = {}
    IN  IF Unknown(index, refs) # {} \/ items = {} \/ (kind = "fact" /\ CaseItems(items) = {})
        THEN "unsupported"
        ELSE IF Tokens(text) = NoTokens THEN "unverifiable"
        ELSE IF missing = NoTokens THEN "supported"
        ELSE IF kind = "inference" /\ derived_only THEN "unverifiable" ELSE "unsupported"

TextGrounded(index, text) == Missing(Tokens(text), CaseItems(index)) = NoTokens

\* The verdicts SelfCritique.review collects, and what it makes of them.
ClaimChecksOf(index, inv) ==
    {CheckClaim(index, f.statement, f.kind, f.refs) : f \in inv.findings}
    \cup (IF Unknown(index, inv.evidence) # {} THEN {"unsupported"} ELSE {})

CritiqueOf(evidence, chunks, inv) ==
    LET index == EvidenceIndex(evidence, chunks)
    IN  Critique({e.finding : e \in evidence},
                 [action   |-> inv.action,
                  claims   |-> ClaimChecksOf(index, inv),
                  grounded |-> TextGrounded(index, inv.summary)])

-----------------------------------------------------------------------------
(* What the verdicts are for, said without tokens and tolerances.          *)

Distance(a, b) == IF a < b THEN b - a ELSE a - b

\* A number with so many places is what a reads as when rounded to them.
IsRoundingOf(n, a) ==
    \A other \in {n.value - Unit[n.places + 1], n.value + Unit[n.places + 1]} :
        Distance(n.value, a) <= Distance(other, a)

\* The items tell, between them, all there is in a phrase.
Told(p, items) ==
    /\ \A f \in {"ids", "dates", "hours", "currencies", "times"} :
           \A x \in p[f] : \E i \in items : x \in i.tokens[f]
    /\ \A n \in p.numbers : \E i \in items : \E a \in i.numbers : IsRoundingOf(n, a)
    /\ \A x \in p.monthDays : \E i \in items :
           \/ x \in i.tokens.monthDays
           \/ \E day \in i.tokens.dates : x[1] = day[2] /\ x[2] = day[3]

\* A claim passes only if everything it cites exists and it cites something,
\* of the case if it is a fact; it is called supported only if the cited items
\* tell every phrase of it.  A claim that only repeats what an item it cites
\* tells is never called unsupported, and one more citation of something that
\* exists never makes a verdict worse (evidence_validator.py:3-14, 339-392).
VerdictIsHonest(index, text, kind, refs) ==
    LET verdict == CheckClaim(index, text, kind, refs)
        cited   == Resolved(index, refs)
        exists(r) == \E i \in index : i.ref = r.id
        rank == [unsupported |-> 0, unverifiable |-> 1, supported |-> 2]
    IN  /\ verdict # "unsupported" =>
               /\ refs # {} /\ \A r \in refs : exists(r)
               /\ kind = "fact" => CaseItems(cited) # {}
        /\ verdict = "supported" => text # {} /\ \A p \in text : Told(p, cited)
        /\ (refs # {} /\ (\A r \in refs : exists(r))
              /\ \E i \in CaseItems(cited) : \A p \in text : Told(p, {i}))
           => verdict # "unsupported" /\ (text # {} => verdict = "supported")
        /\ \A i \in index :
               (refs # {} /\ \A r \in refs : exists(r))
               => rank[CheckClaim(index, text, kind, refs \cup {[prefix |-> "E:", id |-> i.ref]})] >= rank[verdict]
=============================================================================
