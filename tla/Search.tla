------------------------------- MODULE Search -------------------------------
(***************************************************************************)
(* The hybrid search of list_prompts: keyword hits and the nearest vectors *)
(* are fused into one ranking, of which a request answers one page.  A     *)
(* client turns the pages of one search while other requests write the     *)
(* table.  The four statements of a request are steps of their own, as     *)
(* others commit in between; no page remembers the one before it.          *)
(***************************************************************************)
EXTENDS Integers, SequencesExt

CONSTANTS
  PromptIds,     \* primary keys of prompts
  Texts,         \* contents of the text columns
  Hits,          \* the texts that contain the search term
  Nearness,      \* cosine similarity of the vector of a text to the query, as a rank
  RankConstant,  \* _RRF_K
  TopK,          \* _VECTOR_TOP_K
  PerPage,
  MaxChanges     \* bound on the writes of others

\* A row: "shown" is whether the filters of the request and the visibility
\* rules admit it, "embedded" whether embedding_vector is not NULL.
Row == [text : Texts, embedded : BOOLEAN, shown : BOOLEAN, deleted : BOOLEAN]

\* An item of the matrix of vectors: a vector stands for the text it was made from.
Item == [id : PromptIds, text : Texts]

ASSUME SearchAssumption ==
  /\ IsFiniteSet(PromptIds)
  /\ Hits \subseteq Texts
  /\ Nearness \in [Texts -> Nat]
  /\ {RankConstant, TopK, MaxChanges} \subseteq Nat
  /\ PerPage \in Nat \ {0}

VARIABLES
  heap,     \* the ids in the table, in the order of a SELECT without ORDER BY
  table,    \* their rows
  matrix,   \* _vector_cache in the order of its keys; << >> when empty or too old
  changes,  \* number of writes of others
  pc,       \* where the request of the client stands
  page,     \* the page it asked for
  keyword,  \* keyword_ids
  vectors,  \* the matrix the request scores with
  nearest,  \* vector_ids
  fused,    \* fused_ids
  got,      \* the ids on the pages answered so far
  steady    \* history: nothing has changed since the first page was asked for

tableVars   == <<heap, table, changes>>
requestVars == <<pc, page, keyword, vectors, nearest, fused, got>>
searchVars  == <<tableVars, matrix, requestVars, steady>>
----------------------------------------------------------------------------
(* Ranking. *)

\* The members of S in the order of "ahead", a set of pairs.
Sorted(S, ahead) ==
  CHOOSE f \in SetToSeqs(S) : \A m, n \in DOMAIN f : m < n => <<f[m], f[n]>> \in ahead

\* What s has of T, in its order.
Only(s, T) ==
  LET places == {i \in DOMAIN s : s[i] \in T}
      order == Sorted(places, {ij \in places \X places : ij[1] < ij[2]})
  IN [n \in DOMAIN order |-> s[order[n]]]

\* Python's sort: by "before", a set of pairs, and in the old order where
\* neither is before.
StableSort(s, before) ==
  LET ahead(i, j) == \/ <<s[i], s[j]>> \in before
                     \/ <<s[j], s[i]>> \notin before /\ i < j
      places == DOMAIN s
      order == Sorted(places, {ij \in places \X places : ahead(ij[1], ij[2])})
  IN [n \in DOMAIN order |-> s[order[n]]]

Position(p, s) == CHOOSE i \in DOMAIN s : s[i] = p

\* Scores are fractions <<numerator, denominator>>.
Term(p, s) == IF p \in ToSet(s) THEN <<1, RankConstant + Position(p, s)>> ELSE <<0, 1>>

Score(p, kw, near) ==
  LET a == Term(p, kw)
      b == Term(p, near)
  IN <<a[1] * b[2] + b[1] * a[2], a[2] * b[2]>>

Higher(a, b) == a[1] * b[2] > b[1] * a[2]

\* The ids of _rrf_fuse in the order of the lists.
Found(kw, near) == kw \o Only(near, ToSet(near) \ ToSet(kw))

FuseWorst(kw, near) ==  \* mutant: lowest score first
  StableSort(Found(kw, near),
    {pq \in PromptIds \X PromptIds : Higher(Score(pq[2], kw, near), Score(pq[1], kw, near))})

\* _rrf_fuse: they are sorted by their scores.
Fuse(kw, near) ==
  StableSort(Found(kw, near),
    {pq \in PromptIds \X PromptIds : Higher(Score(pq[1], kw, near), Score(pq[2], kw, near))})

Live(p) == ~table[p].deleted

Passes(p) == Live(p) /\ table[p].shown

\* The rows of _load_vector_cache.
Stored ==
  LET ids == Only(heap, {p \in PromptIds : Live(p) /\ table[p].embedded})
  IN [i \in DOMAIN ids |-> [id |-> ids[i], text |-> table[ids[i]].text]]

\* The items whose rows pass the filters now, nearest first, of which TopK are kept.
Nearest(items) ==
  LET scored == StableSort(Only(items, {e \in Item : Passes(e.id)}),
                           {ef \in Item \X Item : Nearness[ef[1].text] > Nearness[ef[2].text]})
      kept == SubSeq(scored, 1, Min({TopK, Len(scored)}))
  IN [i \in DOMAIN kept |-> kept[i].id]

SliceZeroBased(s, n) ==  \* mutant: the first page is taken for the second
  SubSeq(s, n * PerPage + 1, Min({(n + 1) * PerPage, Len(s)}))

Slice(s, n) == SubSeq(s, (n - 1) * PerPage + 1, Min({n * PerPage, Len(s)}))

\* meta.pages
Pages(total) == Max({1, (total + PerPage - 1) \div PerPage})
----------------------------------------------------------------------------
(* The client and its requests. *)

SearchInit ==
  /\ heap  \in UNION {SetToSeqs(S) : S \in SUBSET PromptIds}
  /\ table \in [PromptIds -> {row \in Row : row.shown /\ ~row.deleted}]
  /\ matrix = << >> /\ changes = 0
  /\ pc = "idle" /\ page = 0
  /\ keyword = << >> /\ vectors = << >> /\ nearest = << >> /\ fused = << >> /\ got = << >>
  /\ steady = TRUE

\* The keyword candidates are selected, for the first page or the next one.
SelectKeyword ==
  /\ pc \in {"idle", "answered"}
  /\ page' = page + 1
  /\ keyword' = Only(heap, {p \in PromptIds : Passes(p) /\ table[p].text \in Hits})
  /\ pc' = "keyword"
  /\ steady' = (steady \/ pc = "idle")
  /\ UNCHANGED <<tableVars, matrix, vectors, nearest, fused, got>>

\* _load_vector_cache returns the matrix there is, or reads it again.
LoadVectors ==
  /\ pc = "keyword"
  /\ matrix' = IF matrix = << >> THEN Stored ELSE matrix
  /\ vectors' = matrix'
  /\ pc' = "loaded"
  /\ steady' = (steady /\ (page = 1 \/ vectors' = vectors))
  /\ UNCHANGED <<tableVars, page, keyword, nearest, fused, got>>

\* The ids that pass the filters are selected, the query is embedded, and the
\* two lists are fused.
FuseCandidates ==
  /\ pc = "loaded"
  /\ nearest' = Nearest(vectors)
  /\ fused' = Fuse(keyword, nearest')
  /\ pc' = "fused"
  /\ UNCHANGED <<tableVars, matrix, page, keyword, vectors, got, steady>>

\* The rows of the page are read by id and answered in the order of the
\* ranking.  After the last page, by meta.pages, the client is done.
FetchPage ==
  /\ pc = "fused"
  /\ got' = got \o Only(Slice(fused, page), {p \in PromptIds : Live(p)})
  /\ pc' = IF page < Pages(Len(fused)) THEN "answered" ELSE "done"
  /\ UNCHANGED <<tableVars, matrix, page, keyword, vectors, nearest, fused, steady>>

\* The client is through with the pages or gives up, or a request fails, as in
\* the embedder; it starts again with the first page.
StartOver ==
  /\ pc # "idle"
  /\ pc' = "idle" /\ page' = 0
  /\ keyword' = << >> /\ vectors' = << >> /\ nearest' = << >> /\ fused' = << >> /\ got' = << >>
  /\ steady' = TRUE
  /\ UNCHANGED <<tableVars, matrix>>
----------------------------------------------------------------------------
(* Other requests. *)

\* A row that is written may come at another place in the order.
Written(p, row) ==
  /\ changes < MaxChanges
  /\ changes' = changes + 1
  /\ LET others == Only(heap, PromptIds \ {p})
     IN heap' \in {InsertAt(others, i, p) : i \in 1..(Len(others) + 1)}
  /\ table' = [table EXCEPT ![p] = row]
  /\ steady' = FALSE
  /\ UNCHANGED <<matrix, requestVars>>

CreatePrompt(p) ==
  /\ p \notin ToSet(heap)
  /\ \E text \in Texts, shown \in BOOLEAN :
       Written(p, [text |-> text, embedded |-> TRUE, shown |-> shown, deleted |-> FALSE])

\* A PATCH of the text, which embeds it, or of what the filters look at.
UpdatePrompt(p) ==
  /\ p \in ToSet(heap) /\ Live(p)
  /\ \/ \E text \in Texts \ {table[p].text} :
          Written(p, [table[p] EXCEPT !.text = text, !.embedded = TRUE])
     \/ Written(p, [table[p] EXCEPT !.shown = ~table[p].shown])

\* GET /prompts/{id} and POST /prompts/{id}/use: only a counter changes.
CountView(p) ==
  /\ p \in ToSet(heap) /\ Live(p)
  /\ Written(p, table[p])

DeletePrompt(p) ==
  /\ p \in ToSet(heap) /\ Live(p)
  /\ Written(p, [table[p] EXCEPT !.deleted = TRUE])

\* The matrix is too old, or a request that saved a text has emptied it.
ForgetVectors ==
  /\ matrix # << >>
  /\ matrix' = << >>
  /\ UNCHANGED <<tableVars, requestVars, steady>>

\* Another search reads the matrix again.
ReloadVectors ==
  /\ matrix = << >> /\ Stored # << >>
  /\ matrix' = Stored
  /\ UNCHANGED <<tableVars, requestVars, steady>>

SearchNext ==
  \/ SelectKeyword \/ LoadVectors \/ FuseCandidates \/ FetchPage \/ StartOver
  \/ \E p \in PromptIds : CreatePrompt(p) \/ UpdatePrompt(p) \/ CountView(p) \/ DeletePrompt(p)
  \/ ForgetVectors \/ ReloadVectors

SearchSpec == SearchInit /\ [][SearchNext]_searchVars
----------------------------------------------------------------------------
(* Correctness. *)

Lists == {s \in Seq(PromptIds) : IsInjective(s)}

\* Every variable has its type; no list holds an id twice.
SearchTypeOK ==
  /\ {heap, keyword, nearest, fused} \subseteq Lists
  /\ table \in [PromptIds -> Row]
  /\ ToSet(matrix) \cup ToSet(vectors) \subseteq Item
  /\ {changes, page} \subseteq Nat
  /\ pc \in {"idle", "keyword", "loaded", "fused", "answered", "done"}
  /\ got \in Seq(PromptIds)
  /\ steady \in BOOLEAN

\* p stands in s, and before q if q does.
Leads(p, q, s) ==
  p \in ToSet(s) /\ (q \in ToSet(s) => Position(p, s) < Position(q, s))

\* The ranking is fair to both halves of the search: of two results neither
\* stands behind one that it leads in each list it is in, and one found by both
\* halves, near enough to the top of each, comes before any found by one
\* (ARCHITECTURE.md:118, 216).
FusedFairly ==
  pc = "fused" =>
    \A i, j \in DOMAIN fused :
      LET p == fused[i]
          q == fused[j]
          both == ToSet(keyword) \cap ToSet(nearest)
      IN i < j =>
           /\ \E s \in {keyword, nearest} : p \in ToSet(s) /\ ~Leads(q, p, s)
           /\ q \in both /\ p \notin both =>
                \E s \in {keyword, nearest} : Position(q, s) > RankConstant + 1

\* What a search stands for, without lists and ranks: the term is in the text
\* or fewer than TopK of the vectors in use are at least as near.
Ahead(e, f) ==
  \/ Nearness[e.text] > Nearness[f.text]
  \/ Nearness[e.text] = Nearness[f.text] /\ Position(e, vectors) < Position(f, vectors)

Relevant(p) ==
  /\ p \in ToSet(heap) /\ Passes(p)
  /\ \/ table[p].text \in Hits
     \/ \E e \in ToSet(vectors) :
          /\ e.id = p
          /\ Cardinality({f \in ToSet(vectors) : Passes(f.id) /\ Ahead(f, e)}) < TopK

\* A client that turns all pages is answered with every relevant prompt, with
\* or without a vector and whatever their number is, and with none twice,
\* unless the table or the matrix changed meanwhile: the order of the keyword
\* hits is that of the table, which even a view may change.
PagesComplete ==
  pc = "done" /\ steady =>
    /\ IsInjective(got)
    /\ ToSet(got) = {p \in PromptIds : Relevant(p)}
=============================================================================
