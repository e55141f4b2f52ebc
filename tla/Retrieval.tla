----------------------------- MODULE Retrieval -----------------------------
(***************************************************************************)
(* RAGService.retrieve over the chunks table of Corpus, with the HyDE       *)
(* passage cache of services/hyde.py, a directory that another process (the *)
(* evaluation of evals/rag) may use at the same time.  What the embedder,   *)
(* full text search and the reranker find relevant is arbitrary: a search   *)
(* answers with any rows it may see in any order.                           *)
(***************************************************************************)
EXTENDS Corpus, SequencesExt, FiniteSetsExt

CONSTANTS
    Requests,  \* calls of retrieve
    Queries,   \* query texts
    OverFetch, \* OVERFETCH_PER_SIDE
    FuseTo,    \* FUSE_TO
    RerankTo,  \* RERANK_TO
    TopK,      \* top_k of the callers
    RrfK       \* RRF_K

ASSUME RetrievalAssumption ==
    /\ Queries # {}
    /\ OverFetch \in Nat /\ FuseTo \in Nat /\ RerankTo \in Nat /\ TopK \in Nat /\ RrfK \in Nat

VARIABLES
    cache,   \* cache[q]: the file of the passage for q
    broken,  \* queries of which a write broke off since the cache was cleared
    other,   \* other[q]: what another process does about the passage for q
    stage,   \* stage[r]: what call r waits for
    stack,   \* stack[r]: its retrieval stack
    query,   \* query[r]: its query
    dense,   \* dense[r]: the text embedded for the dense search
    byDense, \* byDense[r]: what the dense search answered, or Waiting
    byText,  \* byText[r]: what full text search answered, or Waiting
    hits,    \* hits[r]: the rows kept by the reranker
    answer   \* answer[r]: what it returned

hyde   == <<cache, broken, other>>
search == <<hyde, stage, stack, query, dense, byDense, byText, hits, answer>>
vars   == <<corpus, search>>

Stacks  == {"naive", "hybrid", "hybrid_rerank", "full"}
Waiting == <<[kind |-> "waiting"]>>
NoFile  == [kind |-> "none"]

\* A text to embed: the query itself or a passage written for one.
QueryText(q)      == [kind |-> "query", of |-> q]
Passage(q, whole) == [kind |-> "passage", of |-> q, whole |-> whole]

SearchTypeOK ==
    /\ cache \in [Queries -> {NoFile} \cup {Passage(q, w) : q \in Queries, w \in BOOLEAN}]
    /\ broken \subseteq Queries
    /\ other \in [Queries -> {"away", "asks", "writes"}]
    /\ stage \in [Requests -> {"idle", "search", "expand", "answered"}]
    /\ stack \in [Requests -> Stacks]
    /\ query \in [Requests -> Queries]
    /\ \A r \in Requests : Len(hits[r]) <= RerankTo /\ Len(answer[r]) <= TopK

SearchInit ==
    /\ cache   = [q \in Queries |-> NoFile]
    /\ broken  = {}
    /\ other   = [q \in Queries |-> "away"]
    /\ stage   = [r \in Requests |-> "idle"]
    /\ stack   = [r \in Requests |-> "naive"]
    /\ query   = [r \in Requests |-> CHOOSE q \in Queries : TRUE]
    /\ dense   = [r \in Requests |-> QueryText(query[r])]
    /\ byDense = [r \in Requests |-> Waiting]
    /\ byText  = [r \in Requests |-> Waiting]
    /\ hits    = [r \in Requests |-> <<>>]
    /\ answer  = [r \in Requests |-> <<>>]

Init == CorpusInit /\ SearchInit

-----------------------------------------------------------------------------
(* HyDE and the embedding run before the first await of retrieve: no other *)
(* call of the process comes in between.                                   *)

\* Mutant of FileOf: the name is a digest of the prompt template.
OneFile(q) == CHOOSE p \in Queries : TRUE

\* _cache_path: the query whose file is used for q.
FileOf(q) == q

Start(r, q, st, text) ==
    /\ stage[r] = "idle"
    /\ stage' = [stage EXCEPT ![r] = "search"]
    /\ query' = [query EXCEPT ![r] = q]
    /\ stack' = [stack EXCEPT ![r] = st]
    /\ dense' = [dense EXCEPT ![r] = text]
    /\ byText' = IF st = "naive" THEN [byText EXCEPT ![r] = <<>>] ELSE byText
    /\ UNCHANGED <<byDense, hits, answer>>

\* The stacks without HyDE, and HyDE when anything in it raises: its model, or
\* the file that is there.
AskPlainly(r, q, st) ==
    /\ Start(r, q, st, QueryText(q))
    /\ UNCHANGED <<corpus, hyde>>

\* The file is taken for the passage as soon as it exists.
AskCached(r, q) ==
    /\ cache[FileOf(q)] # NoFile
    /\ Start(r, q, "full", cache[FileOf(q)])
    /\ UNCHANGED <<corpus, hyde>>

\* A passage is written for q and kept.
AskAnew(r, q) ==
    /\ cache[FileOf(q)] = NoFile
    /\ Start(r, q, "full", Passage(q, TRUE))
    /\ cache' = [cache EXCEPT ![FileOf(q)] = Passage(q, TRUE)]
    /\ UNCHANGED <<corpus, broken, other>>

\* write_text opens the file in place, and what it has written stays.
BreakOff(q) ==
    /\ cache[FileOf(q)] = NoFile
    /\ cache'  = [cache EXCEPT ![FileOf(q)] = Passage(q, FALSE)]
    /\ broken' = broken \cup {q}
    /\ UNCHANGED <<corpus, other>>

\* The write raises, which retrieve takes for a failure of HyDE.
AskBroken(r, q) == BreakOff(q) /\ Start(r, q, "full", QueryText(q))

\* The process ends while it writes.
DieWriting(r, q) ==
    /\ stage[r] = "idle"
    /\ BreakOff(q)
    /\ stage'   = [p \in Requests |-> "idle"]
    /\ stack'   = [p \in Requests |-> "naive"]
    /\ query'   = [p \in Requests |-> CHOOSE n \in Queries : TRUE]
    /\ dense'   = [p \in Requests |-> QueryText(query'[p])]
    /\ byDense' = [p \in Requests |-> Waiting]
    /\ byText'  = [p \in Requests |-> Waiting]
    /\ hits'    = [p \in Requests |-> <<>>]
    /\ answer'  = [p \in Requests |-> <<>>]

calls == <<corpus, stage, stack, query, dense, byDense, byText, hits, answer>>

\* generate in another process: it finds no file and asks the model,
OtherAsks(q) ==
    /\ other[q] = "away" /\ cache[FileOf(q)] = NoFile
    /\ other' = [other EXCEPT ![q] = "asks"]
    /\ UNCHANGED <<calls, cache, broken>>

\* opens the file, whatever is in it by then,
OtherOpens(q) ==
    /\ other[q] = "asks"
    /\ other' = [other EXCEPT ![q] = "writes"]
    /\ cache' = [cache EXCEPT ![FileOf(q)] = Passage(q, FALSE)]
    /\ UNCHANGED <<calls, broken>>

\* and closes it,
OtherCloses(q) ==
    /\ other[q] = "writes"
    /\ other' = [other EXCEPT ![q] = "away"]
    /\ cache' = [cache EXCEPT ![FileOf(q)] = Passage(q, TRUE)]
    /\ UNCHANGED <<calls, broken>>

\* unless it fails or dies before.
OtherStops(q) ==
    /\ other[q] # "away"
    /\ other'  = [other EXCEPT ![q] = "away"]
    /\ broken' = IF other[q] = "writes" THEN broken \cup {q} ELSE broken
    /\ UNCHANGED <<calls, cache>>

OtherSteps(q) == OtherAsks(q) \/ OtherOpens(q) \/ OtherCloses(q) \/ OtherStops(q)

\* clear_cache; a file that is being written then has no name any more.
ClearCache ==
    /\ cache'  = [q \in Queries |-> NoFile]
    /\ broken' = {}
    /\ other'  = [q \in Queries |-> IF other[q] = "writes" THEN "away" ELSE other[q]]
    /\ UNCHANGED calls

-----------------------------------------------------------------------------
(* The two searches run side by side; both see the searchable rows that     *)
(* pass the filters of the call, at the moment they are answered.           *)

Lists(rows, n) == UNION {SetToSeqs(s) : s \in kSubset(n, rows)}

Found == UNION {Lists(Searchable, n) : n \in 0..OverFetch}

DenseAnswers(r) ==
    /\ stage[r] = "search" /\ byDense[r] = Waiting
    /\ \E l \in Found : byDense' = [byDense EXCEPT ![r] = l]
    /\ UNCHANGED <<corpus, hyde, stage, stack, query, dense, byText, hits, answer>>

TextAnswers(r) ==
    /\ stage[r] = "search" /\ byText[r] = Waiting
    /\ \E l \in Found : byText' = [byText EXCEPT ![r] = l]
    /\ UNCHANGED <<corpus, hyde, stage, stack, query, dense, byDense, hits, answer>>

\* Nothing is left of the call: it was answered or has failed.  A search that
\* is still running then ends by itself; nobody reads its rows.
Leave(r) ==
    /\ stage'   = [stage EXCEPT ![r] = "idle"]
    /\ stack'   = [stack EXCEPT ![r] = "naive"]
    /\ query'   = [query EXCEPT ![r] = CHOOSE q \in Queries : TRUE]
    /\ dense'   = [dense EXCEPT ![r] = QueryText(query'[r])]
    /\ byDense' = [byDense EXCEPT ![r] = Waiting]
    /\ byText'  = [byText EXCEPT ![r] = Waiting]
    /\ hits'    = [hits EXCEPT ![r] = <<>>]
    /\ answer'  = [answer EXCEPT ![r] = <<>>]
    /\ UNCHANGED <<corpus, hyde>>

\* A search, the reranker or the lookup of parents raises.
Fails(r) == stage[r] \in {"search", "expand"} /\ Leave(r)

Done(r) == stage[r] = "answered" /\ Leave(r)

-----------------------------------------------------------------------------
(* Fusion.                                                                 *)

PlaceIn(list, c) == SelectInSeq(list, LAMBDA d : d.id = c.id)

\* Mutant of Score: a row one side did not find is ranked before its first.
ScoreMissingFirst(d, s, c) ==
    [num |-> (RrfK + PlaceIn(s, c)) + 2 * (RrfK + PlaceIn(d, c)),
     den |-> (RrfK + PlaceIn(d, c)) * (RrfK + PlaceIn(s, c))]

\* Twice w_d / (k + rank in d) + w_s / (k + rank in s), as a fraction; a side
\* that did not find c adds nothing.  w_d is 0.5 and w_s is 1.
Score(d, s, c) ==
    LET i == PlaceIn(d, c)
        j == PlaceIn(s, c)
    IN  CASE i = 0 -> [num |-> 2, den |-> RrfK + j]
          [] j = 0 -> [num |-> 1, den |-> RrfK + i]
          [] OTHER -> [num |-> (RrfK + j) + 2 * (RrfK + i),
                       den |-> (RrfK + i) * (RrfK + j)]

\* The place of c in the dictionary of scores: the dense rows, then the new ones.
Entry(d, s, c) == IF PlaceIn(d, c) # 0 THEN PlaceIn(d, c) ELSE Len(d) + PlaceIn(s, c)

\* c is fused before b: the sort is stable.
Ahead(d, s, c, b) ==
    LET x == Score(d, s, c)
        y == Score(d, s, b)
    IN  \/ x.num * y.den > y.num * x.den
        \/ x.num * y.den = y.num * x.den /\ Entry(d, s, c) < Entry(d, s, b)

\* _rrf_fuse.
Fuse(d, s) ==
    LET rows == Range(d) \cup Range(s)
    IN  InOrder(rows, {p \in rows \X rows : Ahead(d, s, p[1], p[2])})

\* Mutant of Cut: one row too many.
CutLate(list, n) == SubSeq(list, 1, Least(n + 1, Len(list)))

Cut(list, n) == SubSeq(list, 1, Least(n, Len(list)))

Fused(r) == Cut(Fuse(byDense[r], byText[r]), FuseTo)

Both(r) == stage[r] = "search" /\ byDense[r] # Waiting /\ byText[r] # Waiting

\* naive and hybrid answer with what they have.
AnswerUnranked(r) ==
    /\ Both(r) /\ stack[r] \in {"naive", "hybrid"}
    /\ answer' = [answer EXCEPT ![r] =
                    Cut(IF stack[r] = "naive" THEN byDense[r] ELSE Fused(r), TopK)]
    /\ stage'  = [stage EXCEPT ![r] = "answered"]
    /\ UNCHANGED <<corpus, hyde, stack, query, dense, byDense, byText, hits>>

\* The reranker orders the fused rows as it likes.
Rerank(r) ==
    /\ Both(r) /\ stack[r] \in {"hybrid_rerank", "full"}
    /\ \E l \in Lists(Range(Fused(r)), Least(RerankTo, Len(Fused(r)))) :
         /\ hits'   = [hits EXCEPT ![r] = l]
         /\ answer' = IF stack[r] = "full" THEN answer
                                           ELSE [answer EXCEPT ![r] = Cut(l, TopK)]
    /\ stage'   = [stage EXCEPT ![r] = IF stack[r] = "full" THEN "expand" ELSE "answered"]
    /\ byDense' = [byDense EXCEPT ![r] = <<>>]
    /\ byText'  = [byText EXCEPT ![r] = <<>>]
    /\ UNCHANGED <<corpus, hyde, stack, query, dense>>

\* parent_lookup: the parent row, or the row itself.
Expansion(c) ==
    IF \E p \in table : p.id \in c.parent
      THEN CHOOSE p \in table : p.id \in c.parent
      ELSE c

\* Mutant of Deduped: siblings are told apart by their own id.
DedupedById(list) == [i \in 1..Len(list) |-> Expansion(list[i])]

\* The places of list where a passage comes first.
New(list) == {i \in 1..Len(list) :
                \A j \in 1..(i - 1) : Expansion(list[j]).id # Expansion(list[i]).id}

\* _dedupe_to_parent: a passage stays where its first child is.
Deduped(list) ==
    LET kept == InOrder(New(list), {p \in New(list) \X New(list) : p[1] < p[2]})
    IN  [k \in DOMAIN kept |-> Expansion(list[kept[k]])]

Expand(r) ==
    /\ stage[r] = "expand"
    /\ answer' = [answer EXCEPT ![r] = Cut(Deduped(hits[r]), TopK)]
    /\ stage'  = [stage EXCEPT ![r] = "answered"]
    /\ UNCHANGED <<corpus, hyde, stack, query, dense, byDense, byText, hits>>

Ask(r) ==
    \E q \in Queries :
        \/ \E st \in Stacks : AskPlainly(r, q, st)
        \/ AskCached(r, q) \/ AskAnew(r, q) \/ AskBroken(r, q) \/ DieWriting(r, q)

Next ==
    \/ CorpusNext /\ UNCHANGED search
    \/ ClearCache
    \/ \E q \in Queries : OtherSteps(q)
    \/ \E r \in Requests :
         \/ Ask(r) \/ DenseAnswers(r) \/ TextAnswers(r) \/ AnswerUnranked(r)
         \/ Rerank(r) \/ Expand(r) \/ Fails(r) \/ Done(r)

Spec == Init /\ [][Next]_vars

-----------------------------------------------------------------------------

\* What a call embeds is the query, or a passage that was written for that very
\* query; half a passage only while another process writes it, or when a write
\* of it broke off and the cache was not cleared since (the digest of
\* _cache_path, and the file that generate writes in place and reads back).
DenseTextIsItsOwn ==
    [][\A r \in Requests :
         (stage[r] = "idle" /\ stage'[r] = "search") =>
            LET q == query'[r] IN
            \/ dense'[r] \in {QueryText(q), Passage(q, TRUE)}
            \/ dense'[r] = Passage(q, FALSE) /\ (q \in broken \/ other[q] = "writes")]_vars

\* c is found at least as early as b, by a side that found c.
AtLeastAsEarly(list, c, b) ==
    PlaceIn(list, b) = 0 \/ (PlaceIn(list, c) # 0 /\ PlaceIn(list, c) < PlaceIn(list, b))

\* The fusion keeps what its two sides agree on: a row that both searches put
\* before another is before it in the answer, and is not cut for it (_rrf_fuse,
\* where a side that missed a row adds nothing).
AgreedOrderKept ==
    \A r \in Requests :
        (stage[r] = "answered" /\ stack[r] = "hybrid") =>
            \A c, b \in Range(byDense[r]) \cup Range(byText[r]) :
                /\ c.id # b.id
                /\ AtLeastAsEarly(byDense[r], c, b)
                /\ AtLeastAsEarly(byText[r], c, b)
                /\ PlaceIn(answer[r], b) # 0
                => PlaceIn(answer[r], c) \in 1..(PlaceIn(answer[r], b) - 1)

\* No passage is given twice, and the expansion loses no hit and moves none
\* back: for every row the reranker kept, the row or its parent is at its place
\* or before, so the evaluation may count parents of its ground truth as hits
\* (_dedupe_to_parent, _expand_gt_with_parents).
ExpansionKeepsRank ==
    \A r \in Requests :
        (stage[r] = "answered" /\ stack[r] = "full") =>
            /\ \A i, j \in DOMAIN answer[r] : i # j => answer[r][i].id # answer[r][j].id
            /\ \A i \in 1..Least(TopK, Len(hits[r])) :
                 \E j \in 1..i :
                    j \in DOMAIN answer[r]
                      /\ answer[r][j].id \in {hits[r][i].id} \cup hits[r][i].parent

Holds(a, c) == a.text.of = c.text.of /\ TokensOf(c.text) \subseteq TokensOf(a.text)

HitsAreHeld(r) ==
    \A i \in 1..Least(TopK, Len(hits[r])) :
        \E j \in DOMAIN answer[r] : /\ answer[r][j].id.source = hits[r][i].id.source
                                    /\ Holds(answer[r][j], hits[r][i])

Unchanged(s) == Cardinality(loaded[s]) <= 1

TitlesDiffer(d) == \A i, j \in 1..Len(d) : i # j => d[i].title # d[j].title

\* What the reranker chose is read by the model: the text of every hit is in
\* the answer, as long as no file changed between two ingestions and no file
\* has two sections of one title (stable_parent_id, parent_lookup).
HitsAreRead ==
    \A r \in Requests :
        /\ stage[r] = "answered" /\ stack[r] = "full"
        /\ \A s \in DocsSources : Unchanged(s) /\ \A d \in loaded[s] : TitlesDiffer(d)
        => HitsAreHeld(r)

\* "windowed sections also emit a parent chunk carrying the full section text;
\* each child references it via parent_id" (chunk_docs): a hit is answered with
\* its own section.
HitsExpandToTheirSection ==
    \A r \in Requests :
        /\ stage[r] = "answered" /\ stack[r] = "full"
        /\ \A s \in DocsSources : Unchanged(s)
        => HitsAreHeld(r)

=============================================================================
