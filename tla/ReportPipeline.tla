--------------------------- MODULE ReportPipeline ---------------------------
(***************************************************************************)
(* The data of one run, from the files of a clone to the report: the nodes *)
(* of AnalysisRun in their order, each a step here, and one step for each  *)
(* query of the retrieval. What the nodes compute is in the modules below  *)
(* this one; what the world decides is chosen in the steps: the files that *)
(* cannot be read, Gemini's answers, and the hits of Qdrant.               *)
(***************************************************************************)
EXTENDS ReportAssembly

CONSTANTS
    Repositories,           \* clones: sequences of paths, in the order of os.walk
    MaxUnreadable,          \* bound on the files of a clone that cannot be read
    ArchitectureAnswers,    \* what Gemini may answer to each of the agents
    SecurityAnswers,
    RecommendationAnswers

ASSUME PipelineAssumption ==
    /\ MaxUnreadable \in Nat
    /\ Repositories \subseteq Seq(DOMAIN Source)

\* A length is a number, and for some of the ids an answer has texts of some lengths.
ASSUME AnswersAssumption ==
    LET texts(answer) == {answer.texts[id] : id \in DOMAIN answer.texts}
    IN  /\ \A answer \in ArchitectureAnswers :
              /\ {answer.strengths, answer.coupling} \subseteq Nat
              /\ texts(answer) \subseteq [description : Nat, hint : Nat]
        /\ \A answer \in SecurityAnswers :
              texts(answer) \subseteq [description : Nat, hint : Nat]
        /\ \A answer \in RecommendationAnswers :
              /\ answer.steps \in Nat
              /\ texts(answer) \subseteq [text : Nat, rationale : Nat, context : Nat]

VARIABLES
    stage,           \* the step that is next
    walk,            \* the files of the clone
    manifest,        \* repository_manifest of AnalysisState, or None
    pcr,             \* parsed_code_representation
    architecture,    \* architecture_section
    security,        \* security_section
    queries,         \* the queries of the retrieval under way
    chunks,          \* its chunk_map
    empty,           \* its empty_result_queries: positions of queries
    position,        \* the query it is at
    context,         \* rag_context
    recommendations, \* recommendations_section
    report,          \* final_report
    error            \* the exception that ended the run, or "none"

retrievalVars == <<queries, chunks, empty, position>>
outputVars    == <<manifest, pcr, architecture, security, context, recommendations, report>>
vars          == <<stage, walk, outputVars, retrievalVars, error>>

Stages == {"ingest", "parse", "architecture", "security", "retrieve", "query",
           "recommend", "assemble", "done", "failed"}

Init ==
    /\ stage = "ingest"
    /\ walk \in Repositories
    /\ manifest = None /\ pcr = None /\ architecture = None /\ security = None
    /\ context = None /\ recommendations = None /\ report = None
    /\ queries = <<>> /\ chunks = <<>> /\ empty = {} /\ position = 1
    /\ error = "none"

-----------------------------------------------------------------------------
(* Nodes whose failure ends the run                                        *)

\* A node catches every exception of its service and the run ends.
Fail(cause) ==
    /\ stage' = "failed"
    /\ error' = cause
    /\ UNCHANGED <<walk, outputVars, retrievalVars>>

\* The rest of IngestionService.run after the clone: build_manifest, whose
\* ValidationError is wrapped.
Ingest ==
    /\ stage = "ingest"
    /\ IF ValidManifest(BuildManifest(walk))
       THEN /\ manifest' = BuildManifest(walk)
            /\ stage' = "parse"
            /\ UNCHANGED <<walk, pcr, architecture, security, context, recommendations,
                           report, retrievalVars, error>>
       ELSE Fail("CloneFailedError")

\* The files of the manifest that can turn out to be unreadable.
UnreadableSets ==
    {S \in SUBSET PathsOf(AnalyzableOf(manifest.files)) : Cardinality(S) <= MaxUnreadable}

Parse ==
    /\ stage = "parse"
    /\ \E unreadable \in UnreadableSets :
          LET result == ParserRun(manifest, unreadable)
          IN  IF result.error = "none"
              THEN /\ pcr' = result.value
                   /\ stage' = "architecture"
                   /\ UNCHANGED <<walk, manifest, architecture, security, context,
                                  recommendations, report, retrievalVars, error>>
              ELSE Fail(result.error)

Architecture ==
    /\ stage = "architecture"
    /\ \E answer \in ArchitectureAnswers :
          LET result == ArchitectureRun(pcr, answer)
          IN  IF result.error = "none"
              THEN /\ architecture' = result.value
                   /\ stage' = "security"
                   /\ UNCHANGED <<walk, manifest, pcr, security, context,
                                  recommendations, report, retrievalVars, error>>
              ELSE Fail(result.error)

Security ==
    /\ stage = "security"
    /\ \E answer \in SecurityAnswers :
          LET result == SecurityRun(pcr, answer)
          IN  IF result.error = "none"
              THEN /\ security' = result.value
                   /\ stage' = "retrieve"
                   /\ UNCHANGED <<walk, manifest, pcr, architecture, context,
                                  recommendations, report, retrievalVars, error>>
              ELSE Fail(result.error)

Recommend ==
    /\ stage = "recommend"
    /\ \E answer \in RecommendationAnswers :
          LET result == RecommendationRun(architecture, security, context, answer)
          IN  IF result.error = "none"
              THEN /\ recommendations' = result.value
                   /\ stage' = "assemble"
                   /\ UNCHANGED <<walk, manifest, pcr, architecture, security, context,
                                  report, retrievalVars, error>>
              ELSE Fail(result.error)

\* generate gives up, as GeminiClient has it.
GeminiGivesUp ==
    /\ stage \in {"architecture", "security", "recommend"}
    /\ Fail("GeminiError")

Assemble ==
    /\ stage = "assemble"
    /\ LET result == ReportRun(architecture, security, recommendations, manifest, pcr)
       IN  IF result.error = "none"
           THEN /\ report' = result.value
                /\ stage' = "done"
                /\ UNCHANGED <<walk, manifest, pcr, architecture, security, context,
                               recommendations, retrievalVars, error>>
           ELSE Fail(result.error)

-----------------------------------------------------------------------------
(* RAGRetrievalNode, whose failure does not                                *)

\* The node returns, with a context or without; the queries it made are gone.
EndRetrieval(result) ==
    /\ context' = result
    /\ stage' = "recommend"
    /\ queries' = <<>> /\ chunks' = <<>> /\ empty' = {} /\ position' = 1
    /\ UNCHANGED <<walk, manifest, pcr, architecture, security, recommendations, report, error>>

\* build_rag_queries: without a finding there is nothing to look up, and one query that
\* is refused takes the others with it.
StartRetrieval ==
    /\ stage = "retrieve"
    /\ LET result == BuildQueries(architecture, security)
       IN  IF result.error # "none" \/ result.value = <<>>
           THEN EndRetrieval(None)
           ELSE /\ queries' = result.value
                /\ stage' = "query"
                /\ UNCHANGED <<walk, outputVars, chunks, empty, position, error>>

NextQuery ==
    /\ position' = position + 1
    /\ UNCHANGED <<stage, walk, outputVars, queries, error>>

\* The embedding or the search fails, or nothing is found.
QueryIsEmpty ==
    /\ stage = "query" /\ position <= Len(queries)
    /\ empty' = empty \union {position}
    /\ NextQuery
    /\ UNCHANGED chunks

\* Hits, each merged or made into a chunk; one that makes no valid chunk ends it all.
QueryHits ==
    /\ stage = "query" /\ position <= Len(queries)
    /\ \E points \in SearchResults(queries[position]) \ {<<>>}, score \in HitScores :
          IF AddsValidChunks(chunks, points, score)
          THEN /\ chunks' = MergeHits(chunks, queries[position], points, score)
               /\ NextQuery
               /\ UNCHANGED empty
          ELSE EndRetrieval(None)

\* The collection was never made: CollectionNotFoundError.
CollectionMissing ==
    /\ stage = "query" /\ position <= Len(queries)
    /\ EndRetrieval(None)

FinishRetrieval ==
    /\ stage = "query" /\ position > Len(queries)
    /\ LET result == Context(queries, chunks, empty)
       IN  EndRetrieval(IF ValidContext(result) THEN result ELSE None)

-----------------------------------------------------------------------------

Next ==
    \/ Ingest \/ Parse \/ Architecture \/ Security
    \/ StartRetrieval \/ QueryIsEmpty \/ QueryHits \/ CollectionMissing \/ FinishRetrieval
    \/ Recommend \/ Assemble \/ GeminiGivesUp

Spec == Init /\ [][Next]_vars

-----------------------------------------------------------------------------
(* Properties                                                              *)

\* Types of the state; among them the limit on the queries of a retrieval, and the
\* threshold no chunk is below.
TypeOK ==
    /\ stage \in Stages
    /\ walk \in Repositories
    /\ manifest # None => ManifestTypeOK(manifest)
    /\ Len(queries) <= MaxRagQueries
    /\ \A i \in DOMAIN queries : queries[i].domain \in Domains
    /\ position \in 1..(Len(queries) + 1)
    /\ empty \subseteq 1..(position - 1)
    /\ \A i \in DOMAIN chunks : /\ chunks[i].id \in Points
                                /\ chunks[i].score >= RelevanceThreshold
    /\ stage \in {"done"} <=> report # None
    /\ stage = "failed" <=> error # "none"

\* The findings of the rules at some positions of a list of rules, numbered in their order.
FindingsAt(kind, rules, positions) ==
    {[id |-> <<kind, Cardinality({j \in positions : j <= i})>>, severity |-> rules[i].severity] :
        i \in positions}

WeaknessesFound ==
    FindingsAt("AW", WeaknessRules(pcr),
               {i \in DOMAIN WeaknessRules(pcr) : WeaknessRules(pcr)[i].holds})

RisksFound ==
    FindingsAt("SF", FindingRules(pcr.security),
               {i \in DOMAIN FindingRules(pcr.security) : FindingRules(pcr.security)[i].count > 0})

\* The findings there are: those of the rules that hold, for the sections that are done,
\* whatever Gemini said of them.
RuleFindings ==
    (IF architecture = None THEN {} ELSE WeaknessesFound) \union
    (IF security = None THEN {} ELSE RisksFound)

\* The findings the report recommends something for, as its section lists them.
CoveredFindings ==
    IF report = None THEN <<>>
    ELSE LET rows     == report.sections[5].facts.rows
             findings == RuleFindings
         IN  [i \in DOMAIN rows |-> CHOOSE f \in findings : f.id = rows[i].source]

\* Neither agent has more than six rules.
Ledger == INSTANCE FindingLedger WITH
    Limit    <- MaxRecommendations,
    Findings <- [id : {"AW", "SF"} \X (1..6),
                 severity : Severities],
    phase    <- CASE stage = "done" -> "published"
                  [] stage = "failed" -> "abandoned"
                  [] OTHER -> "collecting",
    ledger   <- RuleFindings,
    covered  <- CoveredFindings

\* From the rules to the printed rows, through two answers of Gemini, three sorts and
\* a cut, no finding is lost, doubled or put after a milder one: the report covers the
\* worst findings there are, up to its limit.
ImplementsLedger == Ledger!Spec

\* The parts of a report agree, although they are taken from five records: the files of
\* the clone are all accounted for, the metadata counts what the sections list and
\* names their worst severity, and each recommendation is for a row of the two sections on
\* findings. In one case two parts differ: without a finding the metadata have no highest
\* severity, and the summary and the section on findings a risk of INFO.
ReportAgrees ==
    report # None =>
        LET facts(i) == report.sections[i].facts
            m        == report.metadata
        IN  /\ facts(2).total = Cardinality({i \in DOMAIN walk : ~Source[walk[i]].dangling})
            /\ facts(2).parsed + facts(2).failed = facts(2).analyzable
            /\ facts(2).analyzable + facts(2).skipped = facts(2).total
            /\ m.files = facts(2).parsed
            /\ m.findings = Len(facts(4).rows)
            /\ facts(1).risk = facts(4).risk
            /\ IF facts(4).rows = <<>>
               THEN m.highest = NoSeverity /\ facts(4).risk = Severity.INFO
               ELSE m.highest = facts(4).risk
            /\ m.total = Len(facts(5).rows) /\ m.total = facts(1).total
            /\ m.p1 = facts(1).p1
            /\ m.p1 = Cardinality({i \in DOMAIN facts(5).rows : facts(5).rows[i].priority = "P1"})
            /\ {facts(5).rows[i].source : i \in DOMAIN facts(5).rows}
                  \subseteq IdsOf(facts(3).rows) \union IdsOf(facts(4).rows)

\* What a recommendation cites was found for it: each chunk is one of the context, of the
\* part of the knowledge base its finding belongs to, and matched by a query that was
\* made for that very finding; the count of chunks in the summary is of these.
CitationsTraceable ==
    recommendations # None =>
        LET recs == recommendations.recommendations
        IN  /\ \A i \in DOMAIN recs : \A id \in ToSet(recs[i].cited) :
                  \E c \in ToSet(context.chunks), q \in ToSet(context.queries) :
                      /\ c.id = id
                      /\ c.domain = recs[i].category
                      /\ q.source = recs[i].source
                      /\ q.id \in c.queries
            /\ recommendations.chunksUsed =
                  Cardinality({p \in (DOMAIN recs) \X (1..MaxExcerpts) :
                                  p[2] \in DOMAIN recs[p[1]].cited})

\* The records are strict: each validates what it is given, and what is raised ends the
\* job or, in the retrieval, costs it its context. What the services compute of a clone and
\* of the usable answers of Gemini is refused for four causes and no other:
\*   - the manifest, when the clone has no file that can be read;
\*   - the signals, when a file makes them name a member the enumerations do not have;
\*   - the queries, when a hint of the security agent, never too short to be taken, is
\*     too short to be looked up;
\*   - a chunk, when its score was rounded to more than 1.
\* Never refused are the representation, the sections of the agents, the context and the
\* report, with all their counts and ids that must agree.
OnlyKnownRefusals ==
    /\ error \notin {"ValidationError", "PCRAssemblyError"}
    /\ error = "CloneFailedError" => \A i \in DOMAIN walk : Source[walk[i]].dangling
    /\ error = "AttributeError" =>
           \E unreadable \in UnreadableSets :
               NamesMissingMember(AnalysesOf(AnalyzableOf(manifest.files), unreadable))
    /\ (stage = "retrieve" /\ BuildQueries(architecture, security).error # "none") =>
           \E i \in DOMAIN security.findings : security.findings[i].hint < 10
    /\ (stage = "query" /\ position <= Len(queries)) =>
           \A points \in SearchResults(queries[position]), score \in HitScores :
               AddsValidChunks(chunks, points, score) \/ score > MaxRelevance
    /\ (stage = "query" /\ position > Len(queries)) =>
           ValidContext(Context(queries, chunks, empty))

\* When there are more findings than queries, the worst ones are looked up.
WorstQueriedFirst ==
    stage = "query" =>
        \A f \in RuleFindings :
            \/ \E i \in DOMAIN queries : queries[i].source = f.id
            \/ /\ Len(queries) = MaxRagQueries
               /\ \A i \in DOMAIN queries : queries[i].severity >= f.severity

=============================================================================
