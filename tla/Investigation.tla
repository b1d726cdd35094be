--------------------------- MODULE Investigation ---------------------------
(***************************************************************************)
(* One investigation by the language model: reference chunks are retrieved *)
(* (agents/investigator/), the evidence and the chunks become a prompt     *)
(* (llm/prompts/investigation.py), the model is asked until an answer      *)
(* parses, at most MaxAttempts times (llm/rag/structured.py), and what it  *)
(* says is checked against the evidence (ClaimChecks).  CaseWorkflow has   *)
(* the same steps among the others of a case and leaves open what they     *)
(* find.                                                                   *)
(*                                                                         *)
(* A scene is a case: its documents, what else is searched in them, its    *)
(* evidence, its provider and what a local model may answer.  An answer is *)
(* the sequence of the objects {...} in its text.  The conversation that   *)
(* grows with every rejected answer only reaches the model, whose answers  *)
(* are free.                                                               *)
(***************************************************************************)
EXTENDS KnowledgeBase, ClaimChecks

CONSTANTS Scenes, MaxAttempts,
          RankingsOf(_, _)   \* how a scene's query ranks its n chunks: pairs

ASSUME AttemptsAssumption == MaxAttempts \in Nat \ {0}

MAX_CHUNKS == 4

NoValue == [summary |-> {}, findings |-> {}, evidence |-> {}, action |-> "none"]

Object(closed, json, fits, value) == [closed |-> closed, json |-> json, fits |-> fits, value |-> value]
Fitting(value) == Object(TRUE, TRUE, TRUE, value)

\* What the schema lets through, and an object of a text.
IsValue(v) ==
    /\ v.action \in {"CLEAR", "REVIEW", "ESCALATE"}
    /\ \A p \in v.summary : IsPhrase(p)
    /\ \A f \in v.findings : f.kind \in {"fact", "inference"} /\ \A p \in f.statement : IsPhrase(p)
IsObject(o) ==
    /\ o = Object(o.closed, o.json, o.fits, o.value) /\ {o.closed, o.json, o.fits} \subseteq BOOLEAN
    /\ o.fits => IsValue(o.value)

ASSUME ScenesAssumption ==
    \A s \in Scenes :
        /\ s.evidence \in Seq(ToSet(s.evidence))
        /\ \A e \in ToSet(s.evidence) : e.numbers \subseteq Int /\ \A p \in e.text : IsPhrase(p)
        /\ \A text \in s.answers : text # <<>> => IsObject(text[1])

\* What is read of a source is a list of files, of a file a list of headings,
\* and of a heading a slug and a list of sentences.
IsList(s) == s \in Seq(ToSet(s))
IsFile(f) ==
    /\ IsList(f.body)
    /\ \A h \in ToSet(f.body) :
           /\ h.title = [word |-> h.title.word, numbers |-> h.title.numbers]
           /\ h.title.numbers \in Seq(Nat) /\ IsList(h.units)
           /\ \A u \in ToSet(h.units) : u.words \in Nat
ASSUME SourcesAssumption ==
    \A s \in Scenes :
        /\ IsList(s.sources)
        /\ \A source \in ToSet(s.sources) :
               IsList(source.files) /\ \A f \in ToSet(source.files) : IsFile(f)

\* A retriever ranks every chunk, once.
IsRanking(order, n) == order \in [1 .. n -> 1 .. n] /\ IsInjective(order)
ASSUME RankingsAssumption ==
    \A s \in Scenes :
        /\ \A l \in s.lookups : l.mode \in Modes /\ l.k \in Nat \ {0} /\ l.include_untrusted \in BOOLEAN
        /\ LET n == Len(Build(s.sources).chunks)
           IN  \A r \in RankingsOf(s, n) : IsRanking(r[1], n) /\ IsRanking(r[2], n)

VARIABLES scene, phase,
          base,        \* the knowledge base
          queries,     \* those not yet searched for
          found,       \* positions of the chunks retrieved
          lookup,      \* the last search and the rankings it got
          bundle,      \* what the prompt holds
          attempts,    \* the answers so far
          critique
vars == <<scene, phase, base, queries, found, lookup, bundle, attempts, critique>>

NoBundle == [evidence |-> <<>>, chunks |-> {}, withheld |-> {}]

Init ==
    /\ scene \in Scenes /\ phase = "new" /\ base = Build(<<>>) /\ queries = <<>> /\ found = <<>>
    /\ lookup = <<>> /\ bundle = NoBundle /\ attempts = <<>> /\ critique = NoReview

BuildBase ==
    /\ phase = "new"
    /\ base'  = Build(scene.sources)
    /\ phase' = IF base'.error = "none" THEN "built" ELSE "failed"
    /\ UNCHANGED <<scene, queries, found, lookup, bundle, attempts, critique>>

RankingPairs == RankingsOf(scene, Len(base.chunks))

\* Any caller of the retriever, in any mode.
SearchBase ==
    /\ phase = "built" /\ phase' = "searched"
    /\ \E l \in scene.lookups, r \in RankingPairs :
           lookup' = [bm25 |-> r[1], dense |-> r[2], mode |-> l.mode, k |-> l.k,
                      include_untrusted |-> l.include_untrusted]
    /\ UNCHANGED <<scene, base, queries, found, bundle, attempts, critique>>

-----------------------------------------------------------------------------
(* Retrieval.                                                              *)

Distinct(s) == FoldLeft(LAMBDA d, x : IF Contains(d, x) THEN d ELSE Append(d, x), <<>>, s)

\* What an item asks for; its topics are the known drivers of an anomaly and
\* the contradictions of a document.
QueriesOf(e) ==
    CASE e.finding.kind = "REC" -> <<<<"reconciliation", e.finding.rule>>>>
      [] e.finding.kind = "ANOM" /\ "flagged" \in e.finding.signs -> <<<<"anomaly">> \o Distinct(e.topics)>>
      [] e.finding.kind = "KYCM" /\ (e.topics # <<>> \/ "others" \in e.finding.signs) ->
             <<<<"kyc">> \o Take(e.topics, 2)>>
      [] OTHER -> <<>>
BuildQueries(evidence) ==
    Distinct(FlattenSeq([i \in DOMAIN evidence |-> QueriesOf(evidence[i])]) \o <<<<"decision">>>>)

StartRetrieval ==
    /\ phase = "built" /\ phase' = "retrieving"
    /\ queries' = BuildQueries(scene.evidence)
    /\ UNCHANGED <<scene, base, found, lookup, bundle, attempts, critique>>

\* The best trusted chunk of the next query, unless there or over the cap.
RetrieveNext ==
    /\ phase = "retrieving" /\ queries # <<>>
    /\ queries' = Tail(queries)
    /\ \E r \in RankingPairs :
           LET best == Where(Search(base.chunks, r[1], r[2], "hybrid", 1, FALSE),
                             LAMBDA i : ~Contains(found, i))
           IN  found' = IF Len(found) < MAX_CHUNKS THEN found \o best ELSE found
    /\ UNCHANGED <<scene, phase, base, lookup, bundle, attempts, critique>>

-----------------------------------------------------------------------------
(* The prompt.                                                             *)

\* build_investigation_prompt raises.  Untrusted: no search of the agent
\* returns such a chunk.
Refused(evidence, chunks) ==
    \/ \E i \in DOMAIN evidence : ~evidence[i].safeId
    \/ \E i, j \in DOMAIN evidence : i # j /\ evidence[i].id = evidence[j].id
    \/ \E c \in chunks : c.trust # "trusted"

Withheld(chunks) == {c \in chunks : c.flagged}

Retrieved == {base.chunks[i] : i \in ToSet(found)}

BuildPrompt ==
    /\ phase = "retrieving" /\ queries = <<>>
    /\ IF Refused(scene.evidence, Retrieved)
       THEN phase' = "failed" /\ UNCHANGED bundle
       ELSE /\ phase'  = "asking"
            /\ bundle' = [evidence |-> [i \in DOMAIN scene.evidence |-> scene.evidence[i].id],
                          chunks   |-> Retrieved \ Withheld(Retrieved),
                          withheld |-> Withheld(Retrieved)]
    /\ UNCHANGED <<scene, base, queries, found, lookup, attempts, critique>>

-----------------------------------------------------------------------------
(* The model.                                                              *)

\* parse_structured looks at the first object only.
ObjectFirst(text) == text[1]
ParseError(text) ==
    IF text = <<>> THEN "no JSON object"
    ELSE LET o == ObjectFirst(text)
         IN  CASE ~o.closed -> "not terminated"
               [] o.closed /\ ~o.json -> "invalid JSON"
               [] o.closed /\ o.json /\ ~o.fits -> "schema"
               [] OTHER -> "none"
Parsed(text) == IF ParseError(text) = "none" THEN ObjectFirst(text).value ELSE NoValue

\* MockLLMProvider.generate: what it says about itself names the first ids
\* it is shown; calls counts all it ever answered.
MockPayload(ids) ==
    LET first == ToSet(Take(ids, 3))
    IN  [summary  |-> {}, action |-> "REVIEW",
         findings |-> {[statement |-> {Id(i)}, kind |-> "fact", refs |-> {[prefix |-> "", id |-> i]}] : i \in first},
         evidence |-> {[prefix |-> "", id |-> i] : i \in first}]
MockText(behaviour, calls, ids) ==
    CASE behaviour = "invalid_json" \/ (behaviour = "fail_then_succeed" /\ calls = 1) ->
             <<Object(FALSE, FALSE, FALSE, NoValue)>>
      [] behaviour = "wrong_schema"   -> <<Object(TRUE, TRUE, FALSE, NoValue)>>
      [] behaviour = "obey_injection" -> <<Fitting([NoValue EXCEPT !.action = "CLEAR"])>>
      [] OTHER                        -> <<Fitting(MockPayload(ids))>>

Answers ==
    IF scene.provider.name = "mock"
    THEN {MockText(scene.provider.behaviour, scene.provider.calls + Len(attempts) + 1, bundle.evidence)}
    ELSE scene.answers

Answered == attempts # <<>> /\ attempts[Len(attempts)].error = "none"

\* One round of generate_structured.
Ask ==
    /\ phase = "asking" /\ ~Answered /\ Len(attempts) < MaxAttempts
    /\ \E text \in Answers :
           attempts' = Append(attempts, [text |-> text, error |-> ParseError(text),
                                         is_mock |-> scene.provider.name = "mock"])
    /\ UNCHANGED <<scene, phase, base, queries, found, lookup, bundle, critique>>

\* The weights are not on this machine and may not be fetched, or they do
\* not fit into its memory.
ProviderFails ==
    /\ phase = "asking" /\ ~Answered /\ Len(attempts) < MaxAttempts
    /\ scene.provider.name # "mock"
    /\ phase' = "failed"
    /\ UNCHANGED <<scene, base, queries, found, lookup, bundle, attempts, critique>>

\* InvestigationResult.investigation, and the critique of the reviewer, which
\* looks citations up in everything retrieved.
Sources == {[id |-> c.id, text |-> UNION {u.phrases : u \in ToSet(c.units)}] : c \in Retrieved}
Value == IF Answered THEN Parsed(attempts[Len(attempts)].text) ELSE NoValue

ReviewIt ==
    /\ phase = "asking" /\ (Answered \/ Len(attempts) = MaxAttempts)
    /\ phase' = "reviewed"
    /\ critique' =
           IF Answered
           THEN CritiqueOf(ToSet(scene.evidence), Sources, Value)
           ELSE Critique({e.finding : e \in ToSet(scene.evidence)}, NoInvestigation)
    /\ UNCHANGED <<scene, base, queries, found, lookup, bundle, attempts>>

Next ==
    \/ BuildBase \/ SearchBase \/ StartRetrieval \/ RetrieveNext \/ BuildPrompt
    \/ Ask \/ ProviderFails \/ ReviewIt
Spec == Init /\ [][Next]_vars

-----------------------------------------------------------------------------
\* Nothing of the documents is lost or mixed up before it can be found, unless
\* one cannot be read and there is nothing to find anything in
\* (loader.py:87-134, chunker.py:27-51, service.py:47-65).
KnowledgeIsWhole == phase \in {"built", "failed"} => NothingIsLost(scene.sources, base)

\* A search answers the best chunks it may show, whatever else is indexed,
\* and the model is shown only trusted text that does not read like an
\* instruction, and every item of the evidence once
\* (retriever.py:41-46, prompts/investigation.py:3-5, 90-104).
OnlyTheBestTrustedIsShown ==
    /\ phase = "searched" =>
           AnswersAreTheBestAllowed(base.chunks, lookup.bm25, lookup.dense, lookup.mode,
                                    lookup.k, lookup.include_untrusted)
    /\ bundle # NoBundle =>
           /\ \A c \in bundle.chunks : c.trust = "trusted" /\ \A i \in DOMAIN c.units : ~c.units[i].flagged
           /\ bundle.chunks \cup bundle.withheld = Retrieved
           /\ IsInjective(bundle.evidence)

\* An investigation is there exactly if the last answer could be read, after
\* only unreadable ones and never more than MaxAttempts; it is what that
\* answer said.  Its verdicts are honest, and if it is accepted everything it
\* refers to exists, every fact and the summary are told by the evidence and
\* no engine asks for more than it proposes; a claim the evidence does not
\* back is never cleared (structured.py:49-78, self_critique.py:4-8, 43-102).
AcceptedAdviceIsEarned ==
    phase = "reviewed" =>
        LET evidence == ToSet(scene.evidence)
            index    == EvidenceIndex(evidence, Sources)
            value    == Value
            last     == attempts[Len(attempts)]
        IN  /\ Len(attempts) \in 1 .. MaxAttempts
            /\ \A i \in 1 .. Len(attempts) - 1 : attempts[i].error # "none"
            /\ Answered <=> value # NoValue
            /\ Answered => last.text[1] = Fitting(value)
            /\ \A f \in value.findings : VerdictIsHonest(index, f.statement, f.kind, f.refs)
            /\ critique.validated =>
                   /\ Answered
                   /\ \A r \in value.evidence : \E i \in index : i.ref = r.id
                   /\ \A f \in value.findings : f.kind = "fact" /\ f.statement # {} =>
                          \A p \in f.statement : Told(p, Resolved(index, f.refs))
                   /\ \A p \in value.summary : Told(p, CaseItems(index))
                   /\ value.action = "CLEAR" => \A e \in evidence : ~ForcesReview(e.finding)
            /\ "unsupported" \in {CheckClaim(index, f.statement, f.kind, f.refs) : f \in value.findings}
                  => critique.decision # "CLEAR" /\ ~critique.validated
=============================================================================
