----------------------------- MODULE Retrieval -----------------------------
(***************************************************************************)
(* RAGRetrievalNode: a query for each finding, the worst first, up to a    *)
(* limit; each is embedded and searched in the part of the knowledge base  *)
(* of its domain; the chunks found are merged.                             *)
(***************************************************************************)
EXTENDS SecurityAgent

CONSTANTS
    Points,      \* the points of the Qdrant collection
    PointInfo,   \* PointInfo[p]: the domain and the length of the excerpt in its payload
    HitScores    \* the scores Qdrant may report, in percent; rounding can pass 100

ASSUME HitAssumption ==
    /\ IsFiniteSet(Points)
    /\ \A p \in Points : PointInfo[p].excerpt \in Nat \ {0}   \* no chunk is below KB_CHUNK_MIN_LENGTH
    /\ \A s \in HitScores : s \in Nat /\ s >= RelevanceThreshold

-----------------------------------------------------------------------------
(* Queries                                                                 *)

\* Mutant: the candidates are cut before they are sorted.
CutThenSort(seq) == SortedDescending(FirstOf(seq, MaxRagQueries))

\* Mutant: the candidates are not cut.
AllSorted(seq) == SortedDescending(seq)

\* The sort and the cut of build_rag_queries.
WorstFirst(seq) == FirstOf(SortedDescending(seq), MaxRagQueries)

\* The constraint of RAGQuery, whose query_text is the hint of a finding.
ValidQuery(q) == q.text >= 10

\* The candidates of the architecture section, then those of the security section; each
\* is of the domain of its finding's section.
Candidate(finding, domain) ==
    [severity |-> finding.severity, text |-> finding.hint,
     domain |-> domain, source |-> finding.id]

Candidates(architecture, security) ==
    [i \in DOMAIN architecture.weaknesses |->
        Candidate(architecture.weaknesses[i], "ARCHITECTURE")] \o
    [i \in DOMAIN security.findings |-> Candidate(security.findings[i], "SECURITY")]

\* build_rag_queries.
BuildQueries(architecture, security) ==
    LET chosen  == WorstFirst(Candidates(architecture, security))
        queries == [i \in DOMAIN chosen |->
                       [id |-> <<"Q", i>>, severity |-> chosen[i].severity,
                        text |-> chosen[i].text, domain |-> chosen[i].domain,
                        source |-> chosen[i].source, results |-> <<>>]]
    IN  IF \A i \in DOMAIN queries : ValidQuery(queries[i])
        THEN Returned(queries) ELSE Raised("ValidationError")

-----------------------------------------------------------------------------
(* Hits                                                                    *)

\* QdrantClient.search: at most TopK points, all of the domain of the query, in the
\* order of their scores; which ones is up to their vectors.
SearchResults(query) ==
    UNION {SetToSeqs(S) :
              S \in {S \in SUBSET {p \in Points : PointInfo[p].domain = query.domain} :
                        Cardinality(S) <= TopK}}

\* The constraints and validators of RAGChunk.
ValidChunk(chunk) ==
    /\ chunk.excerpt >= 1
    /\ chunk.score <= MaxRelevance
    /\ chunk.score >= RelevanceThreshold

\* A hit that is known already: the query is added to its queries, and the better
\* score is kept, which is an assignment that nothing validates.
MergeHit(chunk, query, score) ==
    [chunk EXCEPT !.queries = @ \union {query.id},
                  !.score = IF score > @ THEN score ELSE @]

\* A hit that is new.
NewChunk(point, query, score) ==
    [id |-> point, domain |-> PointInfo[point].domain, excerpt |-> PointInfo[point].excerpt,
     score |-> score, queries |-> {query.id}]

\* The loop of _execute_query over the hits, in a dict that keeps its order. No point is
\* twice among them, so that each known one is merged once and the new ones are added in
\* their order.
MergeHits(chunks, query, points, score) ==
    LET new == Only(points, ToSet(points) \ IdsOf(chunks))
    IN  [i \in DOMAIN chunks |->
            IF chunks[i].id \in ToSet(points) THEN MergeHit(chunks[i], query, score)
                                              ELSE chunks[i]]
        \o [k \in DOMAIN new |-> NewChunk(new[k], query, score)]

\* The chunks a query adds, each validated when it is made.
AddsValidChunks(chunks, points, score) ==
    \A i \in DOMAIN points :
        points[i] \in IdsOf(chunks) \/
            ValidChunk([excerpt |-> PointInfo[points[i]].excerpt, score |-> score])

\* After the last query, result_chunk_ids of each: the chunks it matched, in the order
\* in which they were first found by any.
FillResults(queries, chunks) ==
    [i \in DOMAIN queries |->
        LET matched == Only(chunks, {c \in ToSet(chunks) : queries[i].id \in c.queries})
        IN  [queries[i] EXCEPT !.results = [k \in DOMAIN matched |-> matched[k].id]]]

\* The RAGContext.
Context(queries, chunks, empty) ==
    [queries |-> FillResults(queries, chunks), chunks |-> chunks, empty |-> empty]

\* The validators of RAGContext that what `run` passes could fail.
ValidContext(c) == IdsUnique(c.queries) /\ IdsUnique(c.chunks)

=============================================================================
