-------------------------- MODULE MCInvestigation --------------------------
(* Scenes, each about one part of an investigation.                        *)
EXTENDS Investigation

unit(text, words, flagged, phrases) == [text |-> text, words |-> words, flagged |-> flagged, phrases |-> phrases]
title(numbers) == [word |-> "t", numbers |-> numbers]
heading(numbers, units) == [title |-> title(numbers), units |-> units]
file(path, id, body) == [path |-> path, inside |-> TRUE, suffix |-> ".md", large |-> FALSE,
                         bytes |-> "text", id |-> id, body |-> body]
trusted(files) == [files |-> files, trust |-> "trusted"]
scene_of(sources, lookups, evidence, provider, answers) ==
    [sources |-> sources, lookups |-> lookups, evidence |-> evidence, provider |-> provider, answers |-> answers]
mock(behaviour, calls) == [name |-> "mock", behaviour |-> behaviour, calls |-> calls]
qwen == [name |-> "qwen"]

item(id, kind, signs, topics, text, numbers, hour) ==
    [id |-> id, safeId |-> TRUE, topics |-> topics, text |-> text, numbers |-> numbers, hour_of_day |-> hour,
     finding |-> [kind |-> kind, of |-> id, rule |-> IF kind = "REC" THEN "REC-003" ELSE "none",
                  severity |-> IF kind = "REC" THEN "low" ELSE "none", nth |-> 1, signs |-> signs]]

short  == unit("s", 1, FALSE, {})
middle == unit("m", 2, FALSE, {})
odd    == unit("o", 2, TRUE, {})
long   == unit("l", 5, FALSE, {})
plain  == file("p", "KB-1", <<heading(<<>>, <<short>>)>>)

\* 1. One section of up to five sentences of any length and repetition, and
\* files of every kind.
texts == UNION {[1 .. n -> {short, middle, odd, long}] : n \in 0 .. 5}
bodies == {<<heading(<<>>, t)>> : t \in texts}
          \cup {[i \in 1 .. 3 |-> heading(n[i], <<short, long>>)] : n \in [1 .. 3 -> {<<>>, <<2>>, <<3>>}]}
folders == {<<trusted(<<f, plain>>)>> :
                f \in {[plain EXCEPT !.inside = FALSE], [plain EXCEPT !.suffix = ".pdf"],
                       [plain EXCEPT !.large = TRUE], [plain EXCEPT !.bytes = "invalid"],
                       [plain EXCEPT !.body = <<>>], [plain EXCEPT !.id = "KB-2"], plain}
                      \cup {[plain EXCEPT !.bytes = b, !.inside = in, !.suffix = s, !.large = l] :
                                b \in {"missing", "locked"}, in \in BOOLEAN, s \in {".md", ".pdf"}, l \in BOOLEAN}}
           \cup {<<trusted(<<plain>>), [files |-> <<plain>>, trust |-> "untrusted"]>>,
                 <<trusted(<<[plain EXCEPT !.suffix = ".pdf"]>>)>>}
documents == {scene_of(<<trusted(<<file("p", "KB-1", b)>>)>>, {}, <<>>, mock("valid", 0), {}) : b \in bodies}
             \cup {scene_of(f, {}, <<>>, mock("wrong_schema", 0), {}) : f \in folders}

\* 2. Four chunks, two of them from a source that is not trusted, in every
\* order, for searches of every kind.
page(id) == file(id, id, <<heading(<<>>, <<unit(id, 2, FALSE, {})>>)>>)
lookups == [mode : Modes, k : 1 .. 2, include_untrusted : BOOLEAN]
searches == {scene_of(<<trusted(<<page("KB-1"), page("KB-3")>>),
                        [files |-> <<page("KB-2"), page("KB-4")>>, trust |-> "untrusted"]>>,
                      lookups, <<>>, mock("valid", 0), {})}

\* 3. Items that ask for something, one of them twice, chunks that read like
\* an instruction, and every behaviour of the mock provider.
manual == <<trusted(<<file("p", "KB-1", <<heading(<<>>, <<middle>>), heading(<<2>>, <<odd>>)>>), page("KB-2")>>)>>
rec  == item(<<"TXN-1">>, "REC", {}, <<>>, {}, {}, -1)
anom == item(<<"ANOM-1">>, "ANOM", {"flagged"}, <<"velocity", "night", "velocity">>, {}, {}, -1)
kycm == item(<<"KYCM-1">>, "KYCM", {"others", "dob"}, <<"dob">>, {}, {}, -1)
cases == {scene_of(manual, {}, e, mock(b, c), {}) :
             e \in {<<>>, <<rec>>, <<rec, anom, kycm>>, <<rec, rec>>, <<rec, [anom EXCEPT !.safeId = FALSE]>>,
                    <<anom, kycm, rec, [rec EXCEPT !.id = <<"TXN-2">>]>>},
             b \in {"valid", "invalid_json", "wrong_schema", "prose_wrapped", "fail_then_succeed", "obey_injection"},
             c \in {0, 1}}

\* 4. A local model that says one thing about two items and a chunk, in up to
\* two phrases, with any citations.
day == <<2024, 3, 5>>
other == <<2024, 4, 5>>
one == item(<<"TXN-1">>, "TX", {}, <<>>, {Number(2531, 2), Currency("USD"), Stamp(day, 13, 5)}, {2531, 90000}, 12)
two == item(<<"REC-1">>, "REC", {}, <<>>, {Number(90000, 1), Date(other), Id(<<"TXN-1">>)}, {90040}, -1)
guide == <<trusted(<<file("p", "KB-1", <<heading(<<>>, <<unit("g", 2, FALSE, {Number(1000, 0), Id(<<"REC-003">>)})>>)>>)>>)>>
phrases == {Id(<<"TXN-1">>), Id(<<"TXN-9">>), Number(2500, 0), Number(2530, 1), Number(2600, 0), Number(90040, 2),
            Number(1000, 0), Currency("USD"), Currency("EUR"), Date(day), Date(other), MonthDay(3, 5),
            MonthDay(12, 5), Clock(13, 5), ClockAmPm(1, 5, TRUE), AmPm(12, TRUE), AmPm(12, FALSE), Stamp(other, 13, 5)}
statements == {{p, q} : p \in phrases, q \in phrases} \cup {{}}
ref(id) == [prefix |-> "E:", id |-> id]
knowledge == [prefix |-> "K:", id |-> <<"KB-1", title(<<>>), 0>>]
citations == {{}, {ref(<<"TXN-1">>)}, {ref(<<"REC-1">>)}, {ref(<<"TXN-1">>), ref(<<"REC-1">>)}, {ref(<<"TXN-9">>)},
              {ref(<<"TXN-1">>), ref(<<"TXN-9">>)}, {knowledge}, {ref(<<"REC-1">>), knowledge}}
says(summary, f, e, action) == [summary |-> summary, findings |-> f, evidence |-> e, action |-> action]
finding(s, k, r) == [statement |-> s, kind |-> k, refs |-> r]
claims == {says({}, {finding(s, k, r)}, {}, "REVIEW") : s \in statements, k \in {"fact", "inference"}, r \in citations}
advice == {says(s, f, e, a) : s \in {{}, {Number(2500, 0)}, {Number(1000, 0)}},
                              f \in {{}, {finding({Id(<<"TXN-1">>)}, "fact", {ref(<<"TXN-1">>)}),
                                          finding({Currency("EUR")}, "fact", {ref(<<"TXN-1">>)})},
                                     {finding({Currency("USD")}, "fact", {ref(<<"TXN-1">>)}),
                                      finding({}, "inference", {ref(<<"REC-1">>)})}},
                              e \in {{}, {ref(<<"TXN-1">>)}, {ref(<<"TXN-9">>)}}, a \in {"CLEAR", "REVIEW", "ESCALATE"}}
unreadable == {<<>>, <<Object(FALSE, FALSE, FALSE, NoValue)>>, <<Object(TRUE, FALSE, FALSE, NoValue)>>,
               <<Object(TRUE, TRUE, FALSE, NoValue), Fitting(MockPayload(<< <<"TXN-1">> >>))>>}
answers == {scene_of(guide, {}, <<one, two>>, qwen, {<<Fitting(v)>> : v \in claims}),
            scene_of(guide, {}, <<one, [two EXCEPT !.finding.severity = "high"]>>, qwen,
                     {<<Fitting(v)>> : v \in advice} \cup unreadable),
            scene_of(guide, {}, <<one, two>>, qwen, {<<Fitting(v)>> : v \in advice} \cup unreadable)}

MCScenes == documents \cup searches \cup cases \cup answers

\* The scenes that are not about searching take the chunks as they come.
MCRankingsOf(s, n) ==
    LET orders == {p \in [1 .. n -> 1 .. n] : IsInjective(p)}
    IN  IF s \in searches \cup cases THEN orders \X orders ELSE {<<[i \in 1 .. n |-> i], [i \in 1 .. n |-> i]>>}
=============================================================================
