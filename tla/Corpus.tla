------------------------------- MODULE Corpus -------------------------------
(***************************************************************************)
(* The chunks table and what fills it: services/chunking.py, insert_many   *)
(* of repositories/chunks.py and the two ingestion scripts.                *)
(*                                                                         *)
(* A token of a source is a pair of the part it is in (a section of a      *)
(* document, the head or a comment of an issue) and its place there, so a  *)
(* chunk's text is an interval of tokens in a run of parts.                *)
(***************************************************************************)
EXTENDS Integers, FiniteSets, Sequences

CONSTANTS
    DocsSources,   \* RST files
    IssueSources,  \* issues of the holdout
    Contents,      \* Contents[s]: what source s may contain, sequences of parts
    MaxCheckouts,  \* bound: times a source is seen with new contents
    MaxTokens,     \* DOCS_MAX_TOKENS
    Overlap,       \* DOCS_OVERLAP_TOKENS
    MinTokens,     \* DOCS_MIN_TOKENS
    MergeTokens    \* ISSUE_MERGE_TOKENS

Sources == DocsSources \cup IssueSources

\* A part has a title (its anchor), a size in tokens, and, in an issue, an
\* author who may be a maintainer.
ASSUME CorpusAssumption ==
    /\ DocsSources \cap IssueSources = {}
    /\ Overlap \in Nat /\ MaxTokens \in Nat /\ Overlap < MaxTokens
    /\ MinTokens \in 1..(Overlap + 1)
    /\ \A s \in Sources : \A d \in Contents[s] :
         Len(d) \in Nat /\ \A i \in 1..Len(d) : d[i].size \in Nat

VARIABLES
    contents, \* contents[s]: what source s contains now
    loaded,   \* loaded[s]: the contents of s that were ingested
    table     \* the rows of chunks

corpus == <<contents, loaded, table>>

CorpusInit ==
    /\ contents = [s \in Sources |-> <<>>]
    /\ loaded   = [s \in Sources |-> {}]
    /\ table    = {}

-----------------------------------------------------------------------------
(* Chunks.                                                                 *)

ChunkId(s, seq) == [source |-> s, seq |-> seq, anchor |-> "-"]

\* Mutant of ParentId: derived from the file alone.
FileParentId(s, title) == [source |-> s, seq |-> -1, anchor |-> "-"]

\* stable_parent_id; the row's chunk_seq is -1.
ParentId(s, title) == [source |-> s, seq |-> -1, anchor |-> title]

\* The tokens from a up to b of the parts i..j of contents d.
Text(d, i, j, a, b) == [of |-> d, first |-> i, last |-> j, from |-> a, to |-> b]

\* A row and what it says; parent is empty for a NULL parent_id.
Chunk(id, parent, text, isAnswer) ==
    [id |-> id, parent |-> parent, text |-> text, isAnswer |-> isAnswer]

Least(a, b) == IF a < b THEN a ELSE b

\* The members of S in the order of R: as many come before one as R says.
InOrder(S, R) ==
    LET before == [x \in S |-> Cardinality({y \in S : <<y, x>> \in R})]
    IN  [k \in 1..Cardinality(S) |-> CHOOSE x \in S : before[x] = k - 1]

Step == MaxTokens - Overlap

\* Mutant of Starts: what is left of the last window is not windowed.
FullStarts(n) == {k * Step : k \in {j \in 0..n : j = 0 \/ j * Step + MaxTokens <= n}}

\* Where the windows of n tokens begin: one follows another that did not reach
\* the end.
Starts(n) == {k * Step : k \in {j \in 0..n : j = 0 \/ (j - 1) * Step + MaxTokens < n}}

\* _windowed, less the windows chunk_docs finds too short.
Windows(n) == {w \in {[from |-> a, to |-> Least(a + MaxTokens, n)] : a \in Starts(n)} :
                 w.to - w.from >= MinTokens}

\* What of a section of n tokens gets a chunk_seq: a section that is not
\* windowed is one piece, or none.
SectionPieces(n) == IF n < MinTokens THEN {}
                    ELSE IF n <= MaxTokens THEN {[from |-> 0, to |-> n]} ELSE Windows(n)

Pieces(d) == UNION {{[part |-> i, from |-> w.from, to |-> w.to] : w \in SectionPieces(d[i].size)}
                      : i \in 1..Len(d)}

\* seq of chunk_docs, which counts on from section to section.
ChunkSeq(pieces, p) ==
    Cardinality({q \in pieces : q.part < p.part \/ (q.part = p.part /\ q.from < p.from)})

Windowed(d) == {i \in 1..Len(d) : d[i].size > MaxTokens}

\* chunk_docs: the pieces, and the parents of those that are windows.
DocChunks(s, d) ==
    {Chunk(ChunkId(s, ChunkSeq(Pieces(d), p)),
           {ParentId(s, d[i].title) : i \in Windowed(d) \cap {p.part}},
           Text(d, p.part, p.part, p.from, p.to), FALSE) : p \in Pieces(d)}
      \cup
    {Chunk(ParentId(s, d[i].title), {}, Text(d, i, i, 0, d[i].size), FALSE) : i \in Windowed(d)}

\* The head of an issue begins a chunk, and so does every comment that is not
\* short; an empty comment is skipped.
Begins(d) == {i \in 1..Len(d) : i = 1 \/ d[i].size >= MergeTokens}

\* The last part that is merged into the chunk that begins with part i.
EndOf(d, i) == CHOOSE j \in i..Len(d) : /\ \A k \in (i + 1)..j : k \notin Begins(d)
                                        /\ j < Len(d) => j + 1 \in Begins(d)

Longest(d, i, j) == CHOOSE n \in {d[k].size : k \in i..j} : \A k \in i..j : d[k].size <= n

\* chunk_issue: a chunk is an answer when one of its comments is a maintainer's.
IssueChunks(s, d) ==
    {Chunk(ChunkId(s, Cardinality({k \in Begins(d) : k < i})), {},
           Text(d, i, EndOf(d, i), 0, Longest(d, i, EndOf(d, i))),
           \E k \in i..EndOf(d, i) : k > 1 /\ d[k].size > 0 /\ d[k].maintainer) : i \in Begins(d)}

Chunks(s) == IF s \in DocsSources THEN DocChunks(s, contents[s])
                                  ELSE IssueChunks(s, contents[s])

\* executemany of INSERT ... ON CONFLICT (id) DO NOTHING, in the order of the
\* chunks: of two new rows with one id the first is kept.
Inserted(rows) ==
    {r \in rows :
        /\ \A t \in table : t.id # r.id
        /\ \A q \in rows : q.id = r.id => r.text.first <= q.text.first}

-----------------------------------------------------------------------------

\* Another commit of the documentation, another pull of the issues; one that
\* nobody ingests is no step.
Checkout(s) ==
    /\ Cardinality(loaded[s]) < MaxCheckouts
    /\ contents[s] = <<>> \/ contents[s] \in loaded[s]
    /\ \E d \in Contents[s] \ loaded[s] : contents' = [contents EXCEPT ![s] = d]
    /\ UNCHANGED <<loaded, table>>

\* One run of ingest_docs or ingest_issues_rag over the sources ss: a run that
\* ends before its one insert_many has inserted nothing.
Ingest(ss) ==
    LET rows == UNION {Chunks(s) : s \in ss} IN
    /\ rows # {}
    /\ table'  = table \cup Inserted(rows)
    /\ loaded' = [s \in Sources |-> IF s \in ss THEN loaded[s] \cup {contents[s]}
                                                ELSE loaded[s]]
    /\ contents' = contents

CorpusNext ==
    \/ \E s \in Sources : Checkout(s)
    \/ Ingest(DocsSources) \/ Ingest(IssueSources)

-----------------------------------------------------------------------------

\* The tokens of a text; a merged chunk holds shorter parts too.
TokensOf(text) ==
    {<<i, k>> : i \in text.first..text.last, k \in (text.from + 1)..text.to}

Searchable == {r \in table : r.id.seq >= 0}

\* While a source did not change, every token of it that is worth a chunk is in
\* the text of a row the searches see: no window that is dropped or cut off
\* takes text with it, and no chunk_seq is given twice (the drop of short
\* windows, the seq of chunk_docs, DO NOTHING of insert_many).
SourcesAreSearchable ==
    \A s \in Sources : \A d \in loaded[s] :
        loaded[s] = {d} =>
            \A i \in 1..Len(d) : \A k \in 1..d[i].size :
                (s \in IssueSources \/ d[i].size >= MinTokens) =>
                    \E r \in Searchable : /\ r.id.source = s
                                          /\ <<i, k>> \in TokensOf(r.text)

=============================================================================
