--------------------------- MODULE KnowledgeBase ---------------------------
(***************************************************************************)
(* The reference documents: which files are loaded, into which sections    *)
(* and chunks they are cut, and what a search of the chunks answers        *)
(* (knowledge_base/ingestion/loader.py, chunking/chunker.py, service.py,   *)
(* retrieval/retriever.py).                                                *)
(*                                                                         *)
(* A file is a record; it may be a link that leads nowhere (its bytes are  *)
(* "missing") or one that may not be read ("locked"), or hold what is no   *)
(* document ("invalid").  Its body is the sequence of its headings with the*)
(* sentences under each (text before the first heading is not indexed).  A *)
(* sentence has a text, a length in words, the phrases a claim could quote *)
(* and whether it reads like an instruction.  A slug is a word and the     *)
(* numbers after it.  How BM25 and the embeddings rank the chunks for a    *)
(* query is given: two permutations of the positions, best first.          *)
(***************************************************************************)
EXTENDS SequencesExt, Naturals, FiniteSets, Filters

CONSTANTS MaxWords, OverlapWords, MinWords,   \* ChunkingConfig
          CandidateK                          \* Retriever.candidate_k

ASSUME ChunkingAssumption ==
    MaxWords \in Nat \ {0} /\ OverlapWords \in Nat /\ MinWords \in Nat \ {0}
ASSUME CandidateAssumption == CandidateK \in Nat \ {0}

ALLOWED_SUFFIXES == {".md", ".txt"}
RRF_K == 60
Modes == {"bm25", "dense", "hybrid"}

Least(m, n) == IF m < n THEN m ELSE n
Larger(m, n) == IF m < n THEN n ELSE m
Take(s, n)  == SubSeq(s, 1, Least(n, Len(s)))

-----------------------------------------------------------------------------
(* Loading.                                                                *)

\* The id of a section is the slug of its title, numbered from 2 if taken.
SectionId(slug, sections) ==
    LET used == {sections[i].id : i \in DOMAIN sections}
        numbered(n) == [slug EXCEPT !.numbers = Append(@, n)]
        free == {n \in 2 .. Len(sections) + 2 : numbered(n) \notin used}
    IN  IF slug \notin used THEN slug
        ELSE numbered(CHOOSE n \in free : \A m \in free : n <= m)

\* _split_sections: a heading with nothing under it is no section.
Sections(body) ==
    FoldLeft(LAMBDA done, h :
                 IF h.units = <<>> THEN done
                 ELSE Append(done, [id |-> SectionId(h.title, done), title |-> h.title, units |-> h.units]),
             <<>>, body)

\* Why load_documents rejects a file, in the order it looks.
Reason(f, seen) ==
    CASE ~f.inside                         -> "outside_source_root"
      [] f.suffix \notin ALLOWED_SUFFIXES  -> "unsupported_extension"
      [] f.large                           -> "file_too_large"
      [] f.bytes = "invalid"               -> "invalid_document"
      [] Sections(f.body) = <<>>           -> "no_content"
      [] f.id \in seen                     -> "duplicate_document_id"
      [] OTHER                             -> "none"

LoadDocuments(files, trust) ==
    FoldLeft(LAMBDA r, f :
                 LET reason == Reason(f, {r.documents[i].id : i \in DOMAIN r.documents})
                 IN  IF reason # "none" THEN [r EXCEPT !.rejected = Append(@, <<f.path, reason>>)]
                     ELSE [r EXCEPT !.documents = Append(@,
                              [id |-> f.id, trust |-> trust, sections |-> Sections(f.body)])],
             [documents |-> <<>>, rejected |-> <<>>], files)

\* The OSError of stat() or of read_bytes(), which nothing catches.
Stops(f) ==
    /\ f.inside /\ f.suffix \in ALLOWED_SUFFIXES
    /\ f.bytes = "missing" \/ (f.bytes = "locked" /\ ~f.large)
Unreadable(sources) == {f \in UNION {ToSet(s.files) : s \in ToSet(sources)} : Stops(f)}

-----------------------------------------------------------------------------
(* Chunking.                                                               *)

Words(units) == SumFunctionOnSet([i \in DOMAIN units |-> units[i].words], DOMAIN units)

\* The sentences at the end that are repeated at the start of the next chunk.
Carried(units) ==
    LET from == {n \in 1 .. Len(units) + 1 : Words(SubSeq(units, n, Len(units))) <= OverlapWords}
    IN  SubSeq(units, CHOOSE n \in from : \A m \in from : n <= m, Len(units))

Grow(cut, unit) ==
    IF cut.current # <<>> /\ Words(cut.current) + unit.words > MaxWords
    THEN [chunks  |-> Append(cut.chunks, cut.current),
          current |-> Append(Carried(cut.current), unit)]
    ELSE [cut EXCEPT !.current = Append(@, unit)]

\* A short last chunk joins the one before, without what that already has.
\* (Seeded fault: it is dropped.)
JoinedDropped(last, tail) == last
Joined(last, tail) == last \o Where(tail, LAMBDA u : \A i \in DOMAIN last : last[i] # u)

SplitSection(units) ==
    LET cut    == FoldLeft(Grow, [chunks |-> <<>>, current |-> <<>>], units)
        chunks == IF cut.current = <<>> THEN cut.chunks ELSE Append(cut.chunks, cut.current)
        n      == Len(chunks)
    IN  IF n > 1 /\ Words(chunks[n]) < MinWords
        THEN Append(SubSeq(chunks, 1, n - 2), Joined(chunks[n - 1], chunks[n]))
        ELSE chunks

ChunksOfSection(d, s) ==
    LET texts == SplitSection(s.units)
    IN  [i \in DOMAIN texts |->
            [id      |-> <<d.id, s.id, i - 1>>,
             trust   |-> d.trust,
             flagged |-> \E j \in DOMAIN texts[i] : texts[i][j].flagged,
             units   |-> texts[i]]]
ChunkDocument(d) == FlattenSeq([i \in DOMAIN d.sections |-> ChunksOfSection(d, d.sections[i])])

\* KnowledgeBase.build when everything can be read: every source, or an error.
BuildFrom(sources) ==
    LET loaded    == [i \in DOMAIN sources |-> LoadDocuments(sources[i].files, sources[i].trust)]
        documents == FlattenSeq([i \in DOMAIN sources |-> loaded[i].documents])
        chunks    == FlattenSeq([i \in DOMAIN documents |-> ChunkDocument(documents[i])])
    IN  [documents |-> documents, chunks |-> chunks,
         rejected  |-> FlattenSeq([i \in DOMAIN sources |-> loaded[i].rejected]),
         error     |-> IF \E i, j \in DOMAIN documents : i # j /\ documents[i].id = documents[j].id
                       THEN "collision"
                       ELSE IF chunks = <<>> THEN "empty" ELSE "none"]

\* One file that cannot be read and there is no base at all.
NotBuilt == [documents |-> <<>>, chunks |-> <<>>, rejected |-> <<>>, error |-> "unreadable"]
Build(sources) == IF Unreadable(sources) = {} THEN BuildFrom(sources) ELSE NotBuilt

-----------------------------------------------------------------------------
(* Searching.                                                              *)

Allowed(chunks, include_untrusted) ==
    {i \in DOMAIN chunks : include_untrusted \/ chunks[i].trust = "trusted"}

\* How many the vector store is asked for, so that the chunks dropped
\* afterwards crowd nothing out.  (Seeded fault: as if none were dropped.)
FetchCrowded(chunks, allowed, k) ==
    Least(Len(chunks), Larger(k, CandidateK))
Fetch(chunks, allowed, k) ==
    Least(Len(chunks), Larger(k, CandidateK) + Len(chunks) - Cardinality(allowed))

\* 1 / (RRF_K + rank), and nothing for one not listed, in units of which
\* there are so many in 1 that different sums for n chunks stay different.
Finest(n) == 4 * (RRF_K + n) * (RRF_K + n) * (RRF_K + n) * (RRF_K + n)
Reciprocal(order, i, unit) ==
    IF \E r \in DOMAIN order : order[r] = i
    THEN unit \div (RRF_K + CHOOSE r \in DOMAIN order : order[r] = i) ELSE 0

Permitted(order, allowed) == Where(order, LAMBDA i : i \in allowed)

\* Search; equal sums go by chunk id, for which the position stands.
Search(chunks, bm25, dense, mode, k, include_untrusted) ==
    LET allowed    == Allowed(chunks, include_untrusted)
        lexical    == Permitted(bm25, allowed)
        dense_top  == Permitted(Take(dense, Fetch(chunks, allowed, k)), allowed)
        candidates == Take(lexical, Larger(k, CandidateK))
        unit       == Finest(Len(chunks))
        fused      == [i \in ToSet(candidates) \cup ToSet(dense_top) |->
                          Reciprocal(candidates, i, unit) + Reciprocal(dense_top, i, unit)]
    IN  CASE mode = "bm25"   -> Take(lexical, k)
          [] mode = "dense"  -> Take(dense_top, k)
          [] mode = "hybrid" -> Take(Pick([i \in DOMAIN chunks |-> i], DOMAIN fused,
                                          [i \in DOMAIN fused |-> -fused[i]]), k)

-----------------------------------------------------------------------------
\* Unless one of those that are opened cannot be read, which leaves no base at
\* all, every file is loaded or rejected with a reason; and of a loaded one no
\* sentence under a heading is lost: it is in a chunk of its own section, the
\* chunks have different ids, keep the order of the text and exceed the limit
\* by no more than the overlap, a long sentence and a short end
\* (loader.py:87-134, chunker.py:27-51).
NothingIsLost(sources, base) ==
    /\ IF Unreadable(sources) # {} THEN base = NotBuilt
       ELSE Len(base.documents) + Len(base.rejected) = Len(FlattenSeq([i \in DOMAIN sources |-> sources[i].files]))
    /\ base.error # "collision" =>
           \A i, j \in DOMAIN base.chunks : base.chunks[i].id = base.chunks[j].id => i = j
    /\ \A d \in ToSet(base.documents) : \A s \in ToSet(d.sections) :
           LET mine == {c \in ToSet(base.chunks) : c.id[1] = d.id /\ c.id[2] = s.id}
               longest == CHOOSE n \in {u.words : u \in ToSet(s.units)} :
                              \A u \in ToSet(s.units) : u.words <= n
               bound == Larger(OverlapWords + longest, MaxWords) + MinWords - 1
               at(u) == {p \in DOMAIN s.units : s.units[p] = u}
           IN  base.error # "collision" =>
                   /\ \A u \in ToSet(s.units) : \E c \in mine : u \in ToSet(c.units)
                   /\ \A c \in mine : /\ ToSet(c.units) \subseteq ToSet(s.units)
                                      /\ Words(c.units) <= bound
                                      /\ \A p, q \in DOMAIN c.units : p < q =>
                                             \E v \in at(c.units[p]), w \in at(c.units[q]) : v < w

\* The answer holds the k best of the chunks that may be shown: no chunk is
\* missing because forbidden ones took its place, and none comes after one it
\* beats in every ranking that counts (retriever.py:41-74).
AnswersAreTheBestAllowed(chunks, bm25, dense, mode, k, include_untrusted) ==
    LET allowed == Allowed(chunks, include_untrusted)
        found   == Search(chunks, bm25, dense, mode, k, include_untrusted)
        place(order, i) == CHOOSE r \in DOMAIN order : order[r] = i
        beats(i, j) == /\ mode # "dense" => place(bm25, i) < place(bm25, j)
                       /\ mode # "bm25"  => place(dense, i) < place(dense, j)
    IN  /\ Len(found) = Least(k, Cardinality(allowed)) /\ IsInjective(found)
        /\ ToSet(found) \subseteq allowed
        /\ \A i \in allowed, r \in DOMAIN found :
               beats(i, found[r]) => \E q \in 1 .. r - 1 : found[q] = i
=============================================================================
