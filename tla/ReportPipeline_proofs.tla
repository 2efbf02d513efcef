------------------------ MODULE ReportPipeline_proofs ------------------------
(***************************************************************************)
(* The theorems on ReportPipeline. The invariant says of each record that  *)
(* exists how it came from the ones before it, in the predicates of        *)
(* ReportData_proofs; the properties of the runs follow from it, and with  *)
(* it each step is one of FindingLedger or a stutter.                      *)
(***************************************************************************)
EXTENDS ReportPipeline, ReportData_proofs

-----------------------------------------------------------------------------
(* The inductive invariant                                                 *)

\* The exceptions that end a run; a ValidationError is none of them.
RunErrors == {"none", "CloneFailedError", "ZeroParseableFilesError", "AttributeError",
              "LLMResponseParseError", "GeminiError"}

\* Which records there are at each stage.
StageInv ==
    /\ stage \in Stages
    /\ walk \in Repositories
    /\ error \in RunErrors
    /\ stage = "failed" <=> error # "none"
    /\ stage = "ingest" => manifest = None
    /\ stage = "parse" => pcr = None
    /\ stage = "architecture" => architecture = None
    /\ stage = "security" => security = None
    /\ stage \notin {"ingest", "failed"} => manifest # None
    /\ stage \notin {"ingest", "parse", "failed"} => pcr # None
    /\ stage \notin {"ingest", "parse", "architecture", "failed"} => architecture # None
    /\ stage \notin {"ingest", "parse", "architecture", "security", "failed"} => security # None
    /\ stage \in {"assemble", "done"} => recommendations # None
    /\ stage \notin {"assemble", "done", "failed"} => recommendations = None
    /\ stage = "done" <=> report # None

\* How each record came from those before it.
RecordInv ==
    /\ manifest # None => manifest = BuildManifest(walk)
    /\ pcr # None => manifest # None /\ AgreesWithManifest(pcr, manifest)
    /\ architecture # None => pcr # None /\ WeaknessesOf(architecture, pcr)
    /\ security # None => architecture # None /\ FindingsOf(security, pcr)
    /\ context # None => GroundedContext(context)
    /\ recommendations # None =>
          security # None /\ RecommendationsOf(recommendations, architecture, security, context)
    /\ report # None =>
          /\ recommendations # None
          /\ report = AssembledReport(architecture, security, recommendations, manifest, pcr)

\* What the two exceptions that are not about an answer or a grammar say of the clone.
ErrorInv ==
    /\ error = "CloneFailedError" => \A i \in DOMAIN walk : Source[walk[i]].dangling
    /\ error = "AttributeError" =>
          \E unreadable \in UnreadableSets :
              NamesMissingMember(AnalysesOf(AnalyzableOf(manifest.files), unreadable))

\* The queries and the chunks of a retrieval, while there is one.
RetrievalInv ==
    /\ stage = "query" => /\ QueriesFor(queries, architecture, security)
                          /\ ChunksFor(chunks, queries)
    /\ stage # "query" => queries = <<>> /\ chunks = <<>>
    /\ position \in 1..(Len(queries) + 1)
    /\ empty \subseteq 1..(position - 1)

Inv == StageInv /\ RecordInv /\ ErrorInv /\ RetrievalInv


-----------------------------------------------------------------------------
(* The answers of Gemini                                                   *)

\* AnswersAssumption, answer by answer.
LEMMA ArchitectureAnswersWorded ==
    ASSUME NEW answer \in ArchitectureAnswers
    PROVE  answer.strengths \in Nat /\ answer.coupling \in Nat /\ WordedAnswer(answer)
<1>1. /\ {answer.strengths, answer.coupling} \subseteq Nat
      /\ {answer.texts[id] : id \in DOMAIN answer.texts} \subseteq [description : Nat, hint : Nat]
  BY AnswersAssumption
<1>2. ASSUME NEW id \in DOMAIN answer.texts
      PROVE  answer.texts[id].description \in Nat /\ answer.texts[id].hint \in Nat
  <2>1. answer.texts[id] \in [description : Nat, hint : Nat]
    BY <1>1
  <2> QED BY <2>1
<1> QED
  BY <1>1, <1>2 DEF WordedAnswer

LEMMA SecurityAnswersWorded ==
    ASSUME NEW answer \in SecurityAnswers
    PROVE  WordedAnswer(answer)
<1>1. {answer.texts[id] : id \in DOMAIN answer.texts} \subseteq [description : Nat, hint : Nat]
  BY AnswersAssumption
<1>2. ASSUME NEW id \in DOMAIN answer.texts
      PROVE  answer.texts[id].description \in Nat /\ answer.texts[id].hint \in Nat
  <2>1. answer.texts[id] \in [description : Nat, hint : Nat]
    BY <1>1
  <2> QED BY <2>1
<1> QED
  BY <1>2 DEF WordedAnswer

LEMMA RecommendationAnswersWorded ==
    ASSUME NEW answer \in RecommendationAnswers
    PROVE  WordedRecommendation(answer)
<1>1. /\ answer.steps \in Nat
      /\ {answer.texts[id] : id \in DOMAIN answer.texts}
            \subseteq [text : Nat, rationale : Nat, context : Nat]
  BY AnswersAssumption
<1>2. ASSUME NEW id \in DOMAIN answer.texts
      PROVE  /\ answer.texts[id].text \in Nat
             /\ answer.texts[id].rationale \in Nat
             /\ answer.texts[id].context \in Nat
  <2>1. answer.texts[id] \in [text : Nat, rationale : Nat, context : Nat]
    BY <1>1
  <2> QED BY <2>1
<1> QED
  BY <1>1, <1>2 DEF WordedRecommendation


\* The empty sets and sequences of a run that makes no query.
LEMMA NoQueries ==
    /\ 1 \in 1..(Len(<<>>) + 1)
    /\ {} \subseteq 1..(1 - 1)
  OBVIOUS

\* A run starts with no record.
LEMMA InvInit == Init => Inv
<1> SUFFICES ASSUME Init
             PROVE  Inv
  OBVIOUS
<1>1. StageInv
  BY DEF Init, StageInv, Stages, RunErrors
<1>2. RecordInv
  BY DEF Init, RecordInv
<1>3. RetrievalInv
  BY NoQueries DEF Init, RetrievalInv
<1>4. ErrorInv
  BY DEF Init, ErrorInv
<1> QED
  BY <1>1, <1>2, <1>3, <1>4 DEF Inv

-----------------------------------------------------------------------------
(* The steps                                                               *)

\* A run that has not failed has no exception.
LEMMA NoFailure ==
    ASSUME StageInv', stage' # "failed"
    PROVE  ErrorInv'
  BY DEF StageInv, ErrorInv

\* A failure keeps the records there are.
LEMMA FailStep ==
    ASSUME Inv, stage \notin {"query", "done", "failed"},
           NEW cause \in RunErrors \ {"none"}, Fail(cause),
           cause = "CloneFailedError" => \A i \in DOMAIN walk : Source[walk[i]].dangling,
           cause = "AttributeError" =>
              \E unreadable \in UnreadableSets :
                  NamesMissingMember(AnalysesOf(AnalyzableOf(manifest.files), unreadable))
    PROVE  Inv'
<1> USE DEF Inv, Fail, outputVars, retrievalVars
<1>1. StageInv'
  BY DEF StageInv, Stages
<1>2. RecordInv'
  BY DEF RecordInv
<1>3. RetrievalInv'
  BY DEF RetrievalInv
<1>4. ErrorInv'
  BY DEF ErrorInv, UnreadableSets
<1> QED
  BY <1>1, <1>2, <1>3, <1>4

\* The nodes before the retrieval and after it: what they make is as the invariant has it,
\* and what they raise is not a ValidationError.
LEMMA IngestStep ==
    ASSUME Inv, Ingest
    PROVE  Inv'
<1> USE DEF Inv
<1>1. stage = "ingest"
  BY DEF Ingest
<1>2. CASE ValidManifest(BuildManifest(walk))
  <2> USE <1>2 DEF Ingest, outputVars, retrievalVars
  <2>1. BuildManifest(walk) # None
    BY ManifestProperties, PipelineAssumption DEF StageInv
  <2>2. /\ manifest' = BuildManifest(walk) /\ walk' = walk
        /\ pcr' = None /\ architecture' = None /\ security' = None
        /\ recommendations' = None /\ report' = None /\ context' = context
    BY <1>1 DEF StageInv, RecordInv
  <2>3. StageInv'
    BY <1>1, <2>1, <2>2 DEF StageInv, Stages
  <2>4. RecordInv'
    BY <2>2 DEF RecordInv
  <2>5. RetrievalInv'
    BY DEF RetrievalInv
  <2> QED BY <2>2, <2>3, <2>4, <2>5, NoFailure
<1>3. CASE ~ValidManifest(BuildManifest(walk))
  <2>1. \A i \in DOMAIN walk : Source[walk[i]].dangling
    BY <1>3, RefusedManifest, PipelineAssumption DEF StageInv
  <2>2. Fail("CloneFailedError") /\ "CloneFailedError" \in RunErrors \ {"none"}
    BY <1>3 DEF Ingest, RunErrors
  <2> QED BY <1>1, <2>1, <2>2, FailStep
<1> QED
  BY <1>2, <1>3

LEMMA ParseStep ==
    ASSUME Inv, Parse
    PROVE  Inv'
<1> USE DEF Inv
<1>1. stage = "parse" /\ manifest # None /\ walk \in Seq(DOMAIN Source)
  BY PipelineAssumption DEF Parse, StageInv
<1>2. PICK unreadable \in UnreadableSets :
        LET result == ParserRun(manifest, unreadable)
        IN  IF result.error = "none"
            THEN /\ pcr' = result.value
                 /\ stage' = "architecture"
                 /\ UNCHANGED <<walk, manifest, architecture, security, context,
                                recommendations, report, retrievalVars, error>>
            ELSE Fail(result.error)
  BY DEF Parse
<1> DEFINE result == ParserRun(manifest, unreadable)
<1>3. manifest = BuildManifest(walk)
  BY <1>1 DEF RecordInv
<1>4. \/ result.error = "ZeroParseableFilesError"
      \/ /\ result.error = "AttributeError"
         /\ NamesMissingMember(AnalysesOf(AnalyzableOf(manifest.files), unreadable))
      \/ result.error = "none" /\ AgreesWithManifest(result.value, manifest)
  BY <1>1, <1>3, ManifestProperties, ParserProperties
<1> HIDE DEF result
<1>5. CASE result.error = "none"
  <2>1. /\ pcr' = result.value /\ stage' = "architecture"
        /\ AgreesWithManifest(result.value, manifest)
        /\ UNCHANGED <<walk, manifest, architecture, security, context,
                       recommendations, report, retrievalVars, error>>
    BY <1>2, <1>4, <1>5 DEF result
  <2>2. AgreesWithManifest(pcr', manifest') /\ pcr' # None
    BY <2>1 DEF AgreesWithManifest
  <2>3. StageInv'
    BY <1>1, <2>1, <2>2 DEF StageInv, RecordInv, Stages
  <2>4. architecture' = None /\ security' = None /\ recommendations' = None /\ report' = None
    BY <1>1, <2>1 DEF StageInv, RecordInv
  <2>5. RecordInv'
    BY <1>1, <2>1, <2>2, <2>4 DEF RecordInv
  <2>6. RetrievalInv'
    BY <1>1, <2>1 DEF RetrievalInv, retrievalVars
  <2> QED BY <2>1, <2>3, <2>5, <2>6, NoFailure
<1>6. CASE result.error \in {"ZeroParseableFilesError", "AttributeError"}
  <2>1. Fail(result.error) /\ result.error \in RunErrors \ {"none", "CloneFailedError"}
    BY <1>2, <1>6 DEF RunErrors, result
  <2> QED BY <1>1, <1>4, <2>1, FailStep
<1> QED
  BY <1>4, <1>5, <1>6

LEMMA ArchitectureStep ==
    ASSUME Inv, Architecture
    PROVE  Inv'
<1> USE DEF Inv
<1>1. stage = "architecture" /\ pcr # None
  BY DEF Architecture, StageInv
<1>2. PICK answer \in ArchitectureAnswers :
        LET result == ArchitectureRun(pcr, answer)
        IN  IF result.error = "none"
            THEN /\ architecture' = result.value
                 /\ stage' = "security"
                 /\ UNCHANGED <<walk, manifest, pcr, security, context,
                                recommendations, report, retrievalVars, error>>
            ELSE Fail(result.error)
  BY DEF Architecture
<1> DEFINE result == ArchitectureRun(pcr, answer)
<1>3. answer.strengths \in Nat /\ answer.coupling \in Nat /\ WordedAnswer(answer)
  BY ArchitectureAnswersWorded
<1>4. \/ result.error = "LLMResponseParseError"
      \/ result.error = "none" /\ WeaknessesOf(result.value, pcr)
  BY <1>3, ArchitectureProperties
<1> HIDE DEF result
<1>5. CASE result.error = "none"
  <2>1. /\ architecture' = result.value /\ stage' = "security"
        /\ WeaknessesOf(result.value, pcr)
        /\ UNCHANGED <<walk, manifest, pcr, security, context,
                       recommendations, report, retrievalVars, error>>
    BY <1>2, <1>4, <1>5 DEF result
  <2>2. WeaknessesOf(architecture', pcr') /\ architecture' # None
    BY <2>1 DEF WeaknessesOf
  <2>3. StageInv'
    BY <1>1, <2>1, <2>2 DEF StageInv, RecordInv, Stages
  <2>4. security' = None /\ recommendations' = None /\ report' = None
    BY <1>1, <2>1 DEF StageInv, RecordInv
  <2>5. RecordInv'
    BY <1>1, <2>1, <2>2, <2>4 DEF RecordInv
  <2>6. RetrievalInv'
    BY <1>1, <2>1 DEF RetrievalInv, retrievalVars
  <2> QED BY <2>1, <2>3, <2>5, <2>6, NoFailure
<1>6. CASE result.error = "LLMResponseParseError"
  BY <1>1, <1>2, <1>6, FailStep DEF RunErrors, result
<1> QED
  BY <1>4, <1>5, <1>6


LEMMA SecurityStep ==
    ASSUME Inv, Security
    PROVE  Inv'
<1> USE DEF Inv
<1>1. stage = "security" /\ architecture # None
  BY DEF Security, StageInv
<1>2. PICK answer \in SecurityAnswers :
        LET result == SecurityRun(pcr, answer)
        IN  IF result.error = "none"
            THEN /\ security' = result.value
                 /\ stage' = "retrieve"
                 /\ UNCHANGED <<walk, manifest, pcr, architecture, context,
                                recommendations, report, retrievalVars, error>>
            ELSE Fail(result.error)
  BY DEF Security
<1> DEFINE result == SecurityRun(pcr, answer)
<1>3. \/ result.error = "LLMResponseParseError"
      \/ result.error = "none" /\ FindingsOf(result.value, pcr)
  BY SecurityAnswersWorded, SecurityProperties
<1> HIDE DEF result
<1>4. CASE result.error = "none"
  <2>1. /\ security' = result.value /\ stage' = "retrieve"
        /\ FindingsOf(result.value, pcr)
        /\ UNCHANGED <<walk, manifest, pcr, architecture, context,
                       recommendations, report, retrievalVars, error>>
    BY <1>2, <1>3, <1>4 DEF result
  <2>2. FindingsOf(security', pcr') /\ security' # None
    BY <2>1 DEF FindingsOf
  <2>3. StageInv'
    BY <1>1, <2>1, <2>2 DEF StageInv, RecordInv, Stages
  <2>4. recommendations' = None /\ report' = None
    BY <1>1, <2>1 DEF StageInv, RecordInv
  <2>5. RecordInv'
    BY <1>1, <2>1, <2>2, <2>4 DEF RecordInv
  <2>6. RetrievalInv'
    BY <1>1, <2>1 DEF RetrievalInv, retrievalVars
  <2> QED BY <2>1, <2>3, <2>5, <2>6, NoFailure
<1>5. CASE result.error = "LLMResponseParseError"
  BY <1>1, <1>2, <1>5, FailStep DEF RunErrors, result
<1> QED
  BY <1>3, <1>4, <1>5

LEMMA RecommendStep ==
    ASSUME Inv, Recommend
    PROVE  Inv'
<1> USE DEF Inv
<1>1. /\ stage = "recommend"
      /\ WeaknessesOf(architecture, pcr) /\ FindingsOf(security, pcr)
      /\ context = None \/ GroundedContext(context)
  BY DEF Recommend, StageInv, RecordInv
<1>2. PICK answer \in RecommendationAnswers :
        LET result == RecommendationRun(architecture, security, context, answer)
        IN  IF result.error = "none"
            THEN /\ recommendations' = result.value
                 /\ stage' = "assemble"
                 /\ UNCHANGED <<walk, manifest, pcr, architecture, security, context,
                                report, retrievalVars, error>>
            ELSE Fail(result.error)
  BY DEF Recommend
<1> DEFINE result == RecommendationRun(architecture, security, context, answer)
<1>3. \/ result.error = "LLMResponseParseError"
      \/ /\ result.error = "none"
         /\ RecommendationsOf(result.value, architecture, security, context)
  BY <1>1, RecommendationAnswersWorded, RecommendationProperties
<1> HIDE DEF result
<1>4. CASE result.error = "none"
  <2>1. /\ recommendations' = result.value /\ stage' = "assemble"
        /\ RecommendationsOf(result.value, architecture, security, context)
        /\ UNCHANGED <<walk, manifest, pcr, architecture, security, context,
                       report, retrievalVars, error>>
    BY <1>2, <1>3, <1>4 DEF result
  <2>2. /\ RecommendationsOf(recommendations', architecture', security', context')
        /\ recommendations' # None
    BY <2>1 DEF RecommendationsOf
  <2>3. StageInv'
    BY <1>1, <2>1, <2>2 DEF StageInv, Stages
  <2>4. security' # None /\ report' = None
    BY <1>1, <2>1 DEF StageInv
  <2>5. RecordInv'
    BY <1>1, <2>1, <2>2, <2>4 DEF RecordInv
  <2>6. RetrievalInv'
    BY <1>1, <2>1 DEF RetrievalInv, retrievalVars
  <2> QED BY <2>1, <2>3, <2>5, <2>6, NoFailure
<1>5. CASE result.error = "LLMResponseParseError"
  BY <1>1, <1>2, <1>5, FailStep DEF RunErrors, result
<1> QED
  BY <1>3, <1>4, <1>5

LEMMA AssembleStep ==
    ASSUME Inv, Assemble
    PROVE  Inv'
<1> USE DEF Inv
<1>1. /\ stage = "assemble" /\ recommendations # None
      /\ RecommendationsOf(recommendations, architecture, security, context)
  BY DEF Assemble, StageInv, RecordInv
<1> DEFINE result == ReportRun(architecture, security, recommendations, manifest, pcr)
           made   == AssembledReport(architecture, security, recommendations, manifest, pcr)
<1>2. result.error = "none" /\ result.value = made
  BY <1>1, ReportProperties
<1>3. made # None
  BY DEF AssembledReport, None
<1> HIDE DEF result, made
<1>4. /\ report' = made /\ stage' = "done"
      /\ UNCHANGED <<walk, manifest, pcr, architecture, security, context,
                     recommendations, retrievalVars, error>>
  BY <1>2 DEF Assemble, result
<1>5. StageInv'
  BY <1>1, <1>3, <1>4 DEF StageInv, Stages
<1>6. RecordInv'
  BY <1>1, <1>4 DEF RecordInv, made
<1>7. RetrievalInv'
  BY <1>1, <1>4 DEF RetrievalInv, retrievalVars
<1> QED
  BY <1>4, <1>5, <1>6, <1>7, NoFailure

LEMMA GeminiGivesUpStep ==
    ASSUME Inv, GeminiGivesUp
    PROVE  Inv'
  BY FailStep DEF GeminiGivesUp, RunErrors

\* The end of a retrieval, with a context or without one.
LEMMA EndRetrievalStep ==
    ASSUME Inv, stage \in {"retrieve", "query"},
           NEW result, result = None \/ GroundedContext(result), EndRetrieval(result)
    PROVE  Inv'
<1> USE DEF Inv, EndRetrieval
<1>1. StageInv'
  BY DEF StageInv, Stages
<1>2. recommendations' = None /\ report' = None
  BY DEF StageInv
<1>3. RecordInv'
  BY <1>2 DEF RecordInv
<1>4. RetrievalInv'
  BY NoQueries DEF RetrievalInv
<1> QED
  BY <1>1, <1>3, <1>4, NoFailure

LEMMA StartRetrievalStep ==
    ASSUME Inv, StartRetrieval
    PROVE  Inv'
<1> USE DEF Inv
<1>1. /\ stage = "retrieve" /\ queries = <<>> /\ chunks = <<>> /\ position \in 1..1
      /\ empty \subseteq 1..(position - 1)
      /\ WeaknessesOf(architecture, pcr) /\ FindingsOf(security, pcr)
  BY DEF StartRetrieval, StageInv, RecordInv, RetrievalInv
<1> DEFINE result == BuildQueries(architecture, security)
<1>2. result.error # "none" \/ QueriesFor(result.value, architecture, security)
  BY <1>1, QueriesProperties
<1> HIDE DEF result
<1>3. CASE result.error # "none" \/ result.value = <<>>
  BY <1>1, <1>3, EndRetrievalStep DEF StartRetrieval, result
<1>4. CASE ~(result.error # "none" \/ result.value = <<>>)
  <2>1. /\ queries' = result.value /\ stage' = "query"
        /\ UNCHANGED <<walk, outputVars, chunks, empty, position, error>>
    BY <1>4 DEF StartRetrieval, result
  <2>2. StageInv'
    BY <1>1, <2>1 DEF StageInv, Stages, outputVars
  <2>3. RecordInv'
    BY <2>1 DEF RecordInv, outputVars
  <2>4. QueriesFor(queries', architecture', security')
    BY <1>2, <1>4, <2>1 DEF outputVars
  <2>5. ChunksFor(chunks', queries')
    BY <1>1, <2>1 DEF ChunksFor
  <2>6. Len(queries') \in Nat
    BY <2>4 DEF QueriesFor
  <2>7. RetrievalInv'
    BY <1>1, <2>1, <2>4, <2>5, <2>6 DEF RetrievalInv
  <2> QED BY <2>1, <2>2, <2>3, <2>7, NoFailure
<1> QED
  BY <1>3, <1>4

\* What a query leaves unchanged.
LEMMA NextQueryStep ==
    ASSUME Inv, stage = "query", position <= Len(queries), NextQuery,
           empty' \in {empty, empty \union {position}},
           ChunksFor(chunks', queries)
    PROVE  Inv'
<1> USE DEF Inv, NextQuery, outputVars
<1>1. StageInv'
  BY DEF StageInv, Stages
<1>2. RecordInv'
  BY DEF RecordInv
<1>3. QueriesFor(queries', architecture', security') /\ ChunksFor(chunks', queries')
  BY DEF RetrievalInv
<1>4. Len(queries) \in Nat
  BY DEF RetrievalInv, QueriesFor
<1>5. position' \in 1..(Len(queries') + 1) /\ empty' \subseteq 1..(position' - 1)
  BY <1>4 DEF RetrievalInv
<1>6. RetrievalInv'
  BY <1>3, <1>5 DEF RetrievalInv
<1> QED
  BY <1>1, <1>2, <1>6, NoFailure

LEMMA QueryIsEmptyStep ==
    ASSUME Inv, QueryIsEmpty
    PROVE  Inv'
<1>1. ChunksFor(chunks', queries)
  BY DEF Inv, RetrievalInv, QueryIsEmpty
<1> QED
  BY <1>1, NextQueryStep DEF QueryIsEmpty

LEMMA QueryHitsStep ==
    ASSUME Inv, QueryHits
    PROVE  Inv'
<1>1. /\ stage = "query" /\ position <= Len(queries)
      /\ QueriesFor(queries, architecture, security) /\ ChunksFor(chunks, queries)
  BY DEF Inv, RetrievalInv, QueryHits
<1>2. PICK points \in SearchResults(queries[position]) \ {<<>>}, score \in HitScores :
        IF AddsValidChunks(chunks, points, score)
        THEN /\ chunks' = MergeHits(chunks, queries[position], points, score)
             /\ NextQuery
             /\ UNCHANGED empty
        ELSE EndRetrieval(None)
  BY DEF QueryHits
<1>3. CASE AddsValidChunks(chunks, points, score)
  <2>1. position \in 1..Len(queries)
    BY <1>1 DEF Inv, RetrievalInv, QueriesFor
  <2>2. ChunksFor(MergeHits(chunks, queries[position], points, score), queries)
    BY <1>1, <2>1, MergeProperties
  <2> QED
    BY <1>1, <1>2, <1>3, <2>2, NextQueryStep
<1>4. CASE ~AddsValidChunks(chunks, points, score)
  BY <1>1, <1>2, <1>4, EndRetrievalStep
<1> QED
  BY <1>3, <1>4

LEMMA CollectionMissingStep ==
    ASSUME Inv, CollectionMissing
    PROVE  Inv'
  BY EndRetrievalStep DEF CollectionMissing

LEMMA FinishRetrievalStep ==
    ASSUME Inv, FinishRetrieval
    PROVE  Inv'
<1>1. /\ stage = "query"
      /\ QueriesFor(queries, architecture, security) /\ ChunksFor(chunks, queries)
  BY DEF Inv, RetrievalInv, FinishRetrieval
<1>2. GroundedContext(Context(queries, chunks, empty))
  BY <1>1, ContextProperties
<1> QED
  BY <1>1, <1>2, EndRetrievalStep DEF FinishRetrieval

\* Every step keeps the invariant.
LEMMA InvNext == Inv /\ [Next]_vars => Inv'
<1> SUFFICES ASSUME Inv, [Next]_vars
             PROVE  Inv'
  OBVIOUS
<1>1. CASE UNCHANGED vars
  <2> USE <1>1 DEF vars, outputVars, retrievalVars, Inv
  <2>1. StageInv'
    BY DEF StageInv
  <2>2. RecordInv'
    BY DEF RecordInv
  <2>3. RetrievalInv'
    BY DEF RetrievalInv
  <2>4. ErrorInv'
    BY DEF ErrorInv, UnreadableSets
  <2> QED BY <2>1, <2>2, <2>3, <2>4
<1>2. CASE Next
  BY <1>2, IngestStep, ParseStep, ArchitectureStep, SecurityStep, StartRetrievalStep,
     QueryIsEmptyStep, QueryHitsStep, CollectionMissingStep, FinishRetrievalStep,
     RecommendStep, AssembleStep, GeminiGivesUpStep DEF Next
<1> QED
  BY <1>1, <1>2

\* The records of a run come from each other as the invariant has it, at every stage and
\* for any clone, any answers and any hits.
THEOREM Provenance == Spec => []Inv
<1>1. Init => Inv
  BY InvInit
<1>2. Inv /\ [Next]_vars => Inv'
  BY InvNext
<1> QED
  BY <1>1, <1>2, PTL DEF Spec


-----------------------------------------------------------------------------
(* The findings of the rules, and the items of the sections                *)

\* What a section lists, without the wording.
LedgerOf(items) ==
    {[id |-> items[k].id, severity |-> items[k].severity] : k \in 1..Len(items)}

\* A list made by rules has the findings of those rules.
LEMMA FindingsMade ==
    ASSUME NEW kind, NEW items, FindingList(kind, items),
           NEW rules, NEW positions, MadeByRules(items, rules, positions)
    PROVE  FindingsAt(kind, rules, positions) = LedgerOf(items)
<1>1. ASSUME NEW i \in positions
      PROVE  /\ NumberOf(i, positions) \in 1..Len(items)
             /\ items[NumberOf(i, positions)].id = <<kind, NumberOf(i, positions)>>
             /\ items[NumberOf(i, positions)].severity = rules[i].severity
  BY DEF FindingList, MadeByRules
<1>2. FindingsAt(kind, rules, positions) =
         {[id |-> <<kind, NumberOf(i, positions)>>, severity |-> rules[i].severity] :
             i \in positions}
  BY DEF FindingsAt, NumberOf
<1>3. \A k \in 1..Len(items) : \E i \in positions : NumberOf(i, positions) = k
  BY DEF MadeByRules
<1>4. ASSUME NEW f \in FindingsAt(kind, rules, positions)
      PROVE  f \in LedgerOf(items)
  <2>1. PICK i \in positions :
          f = [id |-> <<kind, NumberOf(i, positions)>>, severity |-> rules[i].severity]
    BY <1>2
  <2>2. f = [id |-> items[NumberOf(i, positions)].id,
             severity |-> items[NumberOf(i, positions)].severity]
    BY <1>1, <2>1
  <2> QED BY <1>1, <2>2 DEF LedgerOf
<1>5. ASSUME NEW f \in LedgerOf(items)
      PROVE  f \in FindingsAt(kind, rules, positions)
  <2>1. PICK k \in 1..Len(items) : f = [id |-> items[k].id, severity |-> items[k].severity]
    BY DEF LedgerOf
  <2>2. PICK i \in positions : NumberOf(i, positions) = k
    BY <1>3
  <2>3. f = [id |-> <<kind, NumberOf(i, positions)>>, severity |-> rules[i].severity]
    BY <1>1, <2>1, <2>2
  <2> QED BY <1>2, <2>3
<1> QED
  BY <1>4, <1>5

\* The findings there are, section by section.
LEMMA RuleFindingsMade ==
    ASSUME Inv
    PROVE  /\ architecture # None => WeaknessesFound = LedgerOf(architecture.weaknesses)
           /\ security # None => RisksFound = LedgerOf(security.findings)
<1>1. ASSUME architecture # None
      PROVE  WeaknessesFound = LedgerOf(architecture.weaknesses)
  BY <1>1, FindingsMade DEF Inv, RecordInv, WeaknessesOf, WeaknessesFound
<1>2. ASSUME security # None
      PROVE  RisksFound = LedgerOf(security.findings)
  BY <1>2, FindingsMade DEF Inv, RecordInv, FindingsOf, RisksFound
<1> QED
  BY <1>1, <1>2

\* The findings of a list are of the known severities, each with an id of its own.
LEMMA LedgerProperties ==
    ASSUME NEW kind \in {"AW", "SF"}, NEW items, FindingList(kind, items)
    PROVE  /\ LedgerOf(items) \subseteq [id : {"AW", "SF"} \X (1..6), severity : Severities]
           /\ \A f \in LedgerOf(items) : f.id[1] = kind
           /\ \A f, g \in LedgerOf(items) : f.id = g.id => f = g
           /\ \A f \in LedgerOf(items) : \E k \in 1..Len(items) :
                 f.id = items[k].id /\ f.severity = items[k].severity
<1>1. ASSUME NEW f \in LedgerOf(items)
      PROVE  \E k \in 1..Len(items) : /\ f = [id |-> items[k].id, severity |-> items[k].severity]
                                      /\ f.id = <<kind, k>>
                                      /\ f.id = items[k].id /\ f.severity = items[k].severity
                                      /\ f.severity \in Severities
                                      /\ k \in 1..6
  <2>1. PICK k \in 1..Len(items) : f = [id |-> items[k].id, severity |-> items[k].severity]
    BY DEF LedgerOf
  <2> WITNESS k \in 1..Len(items)
  <2> QED BY <2>1 DEF FindingList
<1>2. ASSUME NEW f \in LedgerOf(items)
      PROVE  f \in [id : {"AW", "SF"} \X (1..6), severity : Severities] /\ f.id[1] = kind
  <2>1. PICK k \in 1..Len(items) : /\ f = [id |-> items[k].id, severity |-> items[k].severity]
                                   /\ f.id = <<kind, k>>
                                   /\ f.severity \in Severities
                                   /\ k \in 1..6
    BY <1>1
  <2>2. f = [id |-> f.id, severity |-> f.severity]
    BY <2>1
  <2>3. \A n \in 1..6 : <<kind, n>> \in {"AW", "SF"} \X (1..6) /\ <<kind, n>>[1] = kind
    OBVIOUS
  <2>4. f.id \in {"AW", "SF"} \X (1..6) /\ f.id[1] = kind
    BY <2>1, <2>3, Zenon
  <2> QED BY <2>1, <2>2, <2>4
<1>3. ASSUME NEW f \in LedgerOf(items), NEW g \in LedgerOf(items), f.id = g.id
      PROVE  f = g
  <2>1. PICK k \in 1..Len(items) : /\ f = [id |-> items[k].id, severity |-> items[k].severity]
                                   /\ f.id = <<kind, k>>
    BY <1>1
  <2>2. PICK m \in 1..Len(items) : /\ g = [id |-> items[m].id, severity |-> items[m].severity]
                                   /\ g.id = <<kind, m>>
    BY <1>1
  <2>3. k = m
    BY <1>3, <2>1, <2>2
  <2> QED BY <2>1, <2>2, <2>3
<1> QED
  BY <1>1, <1>2, <1>3

\* The findings there can be.
AllFindings == [id : {"AW", "SF"} \X (1..6), severity : Severities]

\* All the findings there are, of which no two have the same id.
LEMMA RuleFindingsProperties ==
    ASSUME Inv
    PROVE  /\ RuleFindings \subseteq AllFindings
           /\ \A f, g \in RuleFindings : f.id = g.id => f = g
<1> DEFINE A == IF architecture = None THEN {} ELSE LedgerOf(architecture.weaknesses)
           B == IF security = None THEN {} ELSE LedgerOf(security.findings)
<1>1. RuleFindings = A \union B
  BY RuleFindingsMade DEF RuleFindings
<1>2. /\ A \subseteq AllFindings
      /\ \A f \in A : f.id[1] = "AW"
      /\ \A f, g \in A : f.id = g.id => f = g
  <2>1. CASE architecture = None
    BY <2>1
  <2>2. CASE architecture # None
    <3>1. FindingList("AW", architecture.weaknesses) /\ A = LedgerOf(architecture.weaknesses)
      BY <2>2 DEF Inv, RecordInv, WeaknessesOf
    <3> HIDE DEF A
    <3> QED BY <3>1, LedgerProperties DEF AllFindings
  <2> QED BY <2>1, <2>2
<1>3. /\ B \subseteq AllFindings
      /\ \A f \in B : f.id[1] = "SF"
      /\ \A f, g \in B : f.id = g.id => f = g
  <2>1. CASE security = None
    BY <2>1
  <2>2. CASE security # None
    <3>1. FindingList("SF", security.findings) /\ B = LedgerOf(security.findings)
      BY <2>2 DEF Inv, RecordInv, FindingsOf
    <3> HIDE DEF B
    <3> QED BY <3>1, LedgerProperties DEF AllFindings
  <2> QED BY <2>1, <2>2
<1> HIDE DEF A, B
<1>4. ASSUME NEW f \in RuleFindings, NEW g \in RuleFindings, f.id = g.id
      PROVE  f = g
  <2>1. "AW" # "SF"
    OBVIOUS
  <2> QED BY <1>1, <1>2, <1>3, <1>4, <2>1
<1> QED
  BY <1>1, <1>2, <1>3, <1>4

-----------------------------------------------------------------------------
(* The properties                                                          *)

\* The state keeps its types; among them the limit on the queries of a retrieval, and the
\* threshold of the scores of chunks.
THEOREM TypeCorrect == Spec => []TypeOK
<1>1. Inv => TypeOK
  <2> SUFFICES ASSUME Inv
               PROVE  TypeOK
    OBVIOUS
  <2> USE DEF Inv
  <2>1. manifest # None => ManifestTypeOK(manifest)
    BY ManifestProperties, PipelineAssumption DEF StageInv, RecordInv
  <2>2. Len(queries) <= MaxRagQueries /\ \A i \in DOMAIN queries : queries[i].domain \in Domains
    <3>1. CASE stage = "query"
      <4>1. /\ queries \in Seq(QueryRecords) /\ Len(queries) <= MaxRagQueries
        BY <3>1 DEF RetrievalInv, QueriesFor
      <4>2. ASSUME NEW i \in DOMAIN queries
            PROVE  queries[i].domain \in Domains
        <5>1. queries[i] \in QueryRecords
          BY <4>1
        <5> QED BY <5>1 DEF QueryRecords
      <4> QED BY <4>1, <4>2
    <3>2. CASE stage # "query"
      BY <3>2, CapsAssumption DEF RetrievalInv
    <3> QED BY <3>1, <3>2
  <2>3. \A i \in DOMAIN chunks : chunks[i].id \in Points /\ chunks[i].score >= RelevanceThreshold
    <3>1. CASE stage = "query"
      <4>1. chunks \in Seq(ChunkRecords) /\ \A i \in 1..Len(chunks) : ChunkFor(chunks[i], queries)
        BY <3>1 DEF RetrievalInv, ChunksFor
      <4>2. ASSUME NEW i \in DOMAIN chunks
            PROVE  chunks[i].id \in Points /\ chunks[i].score >= RelevanceThreshold
        <5>1. chunks[i] \in ChunkRecords /\ ChunkFor(chunks[i], queries)
          BY <4>1
        <5> QED BY <5>1 DEF ChunkRecords, ChunkFor
      <4> QED BY <4>2
    <3>2. CASE stage # "query"
      BY <3>2 DEF RetrievalInv
    <3> QED BY <3>1, <3>2
  <2>4. position \in 1..(Len(queries) + 1) /\ empty \subseteq 1..(position - 1)
    BY DEF RetrievalInv
  <2>5. /\ stage \in Stages /\ walk \in Repositories
        /\ stage \in {"done"} <=> report # None
        /\ stage = "failed" <=> error # "none"
    BY DEF StageInv
  <2> QED BY <2>1, <2>2, <2>3, <2>4, <2>5 DEF TypeOK
<1> QED
  BY <1>1, Provenance, PTL

\* What the services make of a clone and of usable answers is refused for four causes and no
\* other: a clone without a readable file, a name the enumerations lack, a short hint of the
\* security agent, and a score above 1.
THEOREM OnlyKnownRefusalsHold == Spec => []OnlyKnownRefusals
<1>1. Inv => OnlyKnownRefusals
  <2> SUFFICES ASSUME Inv
               PROVE  OnlyKnownRefusals
    OBVIOUS
  <2>1. error \notin {"ValidationError", "PCRAssemblyError"}
    BY DEF Inv, StageInv, RunErrors
  <2>2. ASSUME stage = "retrieve", BuildQueries(architecture, security).error # "none"
        PROVE  \E i \in DOMAIN security.findings : security.findings[i].hint < 10
    <3>1. WeaknessesOf(architecture, pcr) /\ FindingsOf(security, pcr)
      BY <2>2 DEF Inv, StageInv, RecordInv
    <3> QED BY <2>2, <3>1, QueriesProperties
  <2>3. ASSUME stage = "query", position <= Len(queries),
               NEW points \in SearchResults(queries[position]), NEW score \in HitScores
        PROVE  AddsValidChunks(chunks, points, score) \/ score > MaxRelevance
    <3>1. ASSUME NEW i \in DOMAIN points
          PROVE  PointInfo[points[i]].excerpt >= 1
      <4>1. points[i] \in Points
        BY <2>3, <3>1, SearchProperties DEF ToSet
      <4> QED BY <4>1, HitAssumption
    <3>2. score \in Nat /\ score >= RelevanceThreshold /\ MaxRelevance \in Nat
      BY HitAssumption DEF MaxRelevance
    <3> QED BY <3>1, <3>2 DEF AddsValidChunks, ValidChunk
  <2>4. ASSUME stage = "query"
        PROVE  ValidContext(Context(queries, chunks, empty))
    <3>1. QueriesFor(queries, architecture, security) /\ ChunksFor(chunks, queries)
      BY <2>4 DEF Inv, RetrievalInv
    <3> QED BY <3>1, ContextProperties
  <2>5. ErrorInv
    BY DEF Inv
  <2> QED BY <2>1, <2>2, <2>3, <2>4, <2>5 DEF OnlyKnownRefusals, ErrorInv
<1> QED
  BY <1>1, Provenance, PTL

\* A finding that has no query is no worse than any that has one.
THEOREM WorstAreQueried == Spec => []WorstQueriedFirst
<1>1. Inv => WorstQueriedFirst
  <2> SUFFICES ASSUME Inv, stage = "query", NEW f \in RuleFindings
               PROVE  \/ \E i \in DOMAIN queries : queries[i].source = f.id
                      \/ /\ Len(queries) = MaxRagQueries
                         /\ \A i \in DOMAIN queries : queries[i].severity >= f.severity
    BY DEF WorstQueriedFirst
  <2>1. /\ architecture # None /\ security # None
        /\ FindingList("AW", architecture.weaknesses) /\ FindingList("SF", security.findings)
        /\ WorstHave(queries, architecture.weaknesses, MaxRagQueries)
        /\ WorstHave(queries, security.findings, MaxRagQueries)
    BY DEF Inv, StageInv, RecordInv, RetrievalInv, WeaknessesOf, FindingsOf, QueriesFor
  <2>2. f \in LedgerOf(architecture.weaknesses) \/ f \in LedgerOf(security.findings)
    BY <2>1, RuleFindingsMade DEF RuleFindings
  <2>3. ASSUME NEW kind \in {"AW", "SF"}, NEW items, FindingList(kind, items),
               WorstHave(queries, items, MaxRagQueries), f \in LedgerOf(items)
        PROVE  \/ \E i \in DOMAIN queries : queries[i].source = f.id
               \/ /\ Len(queries) = MaxRagQueries
                  /\ \A i \in DOMAIN queries : queries[i].severity >= f.severity
    <3>1. PICK k \in 1..Len(items) : f.id = items[k].id /\ f.severity = items[k].severity
      BY <2>3, LedgerProperties
    <3>2. k \in DOMAIN items
      BY <2>3 DEF FindingList
    <3> QED BY <2>3, <3>1, <3>2 DEF WorstHave
  <2> QED BY <2>1, <2>2, <2>3
<1> QED
  BY <1>1, Provenance, PTL


\* The parts of a report agree with each other, and with the files of the clone.
THEOREM PartsAgree == Spec => []ReportAgrees
<1>1. Inv => ReportAgrees
  <2> SUFFICES ASSUME Inv, report # None
               PROVE  ReportAgrees
    BY DEF ReportAgrees
  <2> DEFINE facts(i) == report.sections[i].facts
             m        == report.metadata
             recs     == recommendations.recommendations
  <2>1. /\ manifest = BuildManifest(walk) /\ walk \in Seq(DOMAIN Source)
        /\ AgreesWithManifest(pcr, manifest)
        /\ WeaknessesOf(architecture, pcr) /\ FindingsOf(security, pcr)
        /\ RecommendationsOf(recommendations, architecture, security, context)
        /\ report = AssembledReport(architecture, security, recommendations, manifest, pcr)
    BY PipelineAssumption DEF Inv, StageInv, RecordInv
  <2>2. /\ facts(1).risk = security.risk
        /\ facts(1).p1 = recommendations.counts["P1"]
        /\ facts(1).total = Len(recs)
        /\ facts(2).total = manifest.total
        /\ facts(2).analyzable = manifest.analyzable
        /\ facts(2).parsed = pcr.metadata.parsed
        /\ facts(2).skipped = pcr.metadata.skipped
        /\ facts(2).failed = pcr.metadata.failed
        /\ facts(3).rows = [i \in DOMAIN architecture.weaknesses |->
                              [id |-> architecture.weaknesses[i].id,
                               severity |-> architecture.weaknesses[i].severity]]
        /\ facts(4).risk = security.risk
        /\ facts(4).rows = [i \in DOMAIN security.findings |->
                              [id |-> security.findings[i].id,
                               severity |-> security.findings[i].severity]]
        /\ facts(5).rows = [i \in DOMAIN recs |-> [id |-> recs[i].id,
                                                   priority |-> recs[i].priority,
                                                   source |-> recs[i].source]]
        /\ m.findings = Len(security.findings)
        /\ m.highest = HighestSeverity(security.findings)
        /\ m.total = Len(recs)
        /\ m.p1 = recommendations.counts["P1"]
        /\ m.files = pcr.metadata.parsed
    BY <2>1, ReportFacts
  <2> DEFINE rows3 == facts(3).rows
             rows4 == facts(4).rows
             rows5 == facts(5).rows
  <2>3. /\ DOMAIN recs = 1..Len(recs) /\ Len(recs) \in Nat
        /\ \A i \in 1..Len(recs) : \/ ForFinding(recs[i], architecture.weaknesses)
                                   \/ ForFinding(recs[i], security.findings)
        /\ recommendations.counts["P1"] =
              Cardinality({i \in DOMAIN recs : recs[i].priority = "P1"})
    BY <2>1 DEF RecommendationsOf, WorstFindings
  <2>4. /\ DOMAIN security.findings = 1..Len(security.findings)
        /\ Len(security.findings) \in 0..6
        /\ security.risk = OverallRisk(security.findings)
    BY <2>1 DEF FindingsOf, FindingList
  <2>5. /\ manifest.total = Cardinality({i \in DOMAIN walk : ~Source[walk[i]].dangling})
        /\ manifest.analyzable + manifest.skipped = manifest.total
    BY <2>1, ManifestProperties
  <2>6. /\ pcr.metadata.parsed + pcr.metadata.failed = manifest.analyzable
        /\ pcr.metadata.skipped = manifest.skipped
    BY <2>1 DEF AgreesWithManifest
  <2> HIDE DEF facts, m, recs
  <2>7. Len(rows4) = Len(security.findings)
    <3>1. DOMAIN rows4 = 1..Len(security.findings)
      BY <2>2, <2>4
    <3> HIDE DEF rows4
    <3> QED BY <3>1, <2>4
  <2>8. /\ DOMAIN rows5 = DOMAIN recs
        /\ \A i \in DOMAIN recs : /\ rows5[i].priority = recs[i].priority
                                  /\ rows5[i].source = recs[i].source
    BY <2>2
  <2>9. Len(rows5) = Len(recs)
    <3> HIDE DEF rows5
    <3> QED BY <2>3, <2>8
  <2>10. {i \in DOMAIN rows5 : rows5[i].priority = "P1"} =
            {i \in DOMAIN recs : recs[i].priority = "P1"}
    <3> HIDE DEF rows5
    <3> QED BY <2>8
  <2>11. ASSUME NEW findings, NEW rows, NEW i \in DOMAIN recs, ForFinding(recs[i], findings),
                rows = [k \in DOMAIN findings |-> [id |-> findings[k].id,
                                                   severity |-> findings[k].severity]]
         PROVE  recs[i].source \in IdsOf(rows)
    <3>1. PICK k \in DOMAIN findings : findings[k].id = recs[i].source
      BY <2>11 DEF ForFinding
    <3>2. k \in DOMAIN rows /\ rows[k].id = recs[i].source
      BY <2>11, <3>1
    <3> QED BY <3>2 DEF IdsOf
  <2>12. ASSUME NEW i \in DOMAIN rows5
         PROVE  rows5[i].source \in IdsOf(rows3) \union IdsOf(rows4)
    <3>1. i \in DOMAIN recs /\ rows5[i].source = recs[i].source
      BY <2>8
    <3>2. CASE ForFinding(recs[i], architecture.weaknesses)
      BY <2>2, <2>11, <3>1, <3>2
    <3>3. CASE ForFinding(recs[i], security.findings)
      BY <2>2, <2>11, <3>1, <3>3
    <3> QED BY <2>3, <3>1, <3>2, <3>3
  <2>13. /\ m.findings = Len(rows4)
         /\ m.total = Len(rows5) /\ m.total = facts(1).total
         /\ m.p1 = facts(1).p1
         /\ m.p1 = Cardinality({i \in DOMAIN rows5 : rows5[i].priority = "P1"})
    BY <2>2, <2>3, <2>7, <2>9, <2>10
  <2>14. /\ facts(2).total = Cardinality({i \in DOMAIN walk : ~Source[walk[i]].dangling})
         /\ facts(2).parsed + facts(2).failed = facts(2).analyzable
         /\ facts(2).analyzable + facts(2).skipped = facts(2).total
         /\ m.files = facts(2).parsed
         /\ facts(1).risk = facts(4).risk
    BY <2>2, <2>5, <2>6
  <2>15. {rows5[i].source : i \in DOMAIN rows5} \subseteq IdsOf(rows3) \union IdsOf(rows4)
    BY <2>12
  <2>16. rows4 = <<>> <=> security.findings = <<>>
    <3>1. security.findings # <<>> => Len(security.findings) # 0
      BY <2>1, EmptySeq DEF FindingsOf, FindingList
    <3>2. security.findings = <<>> => rows4 = <<>>
      BY <2>2
    <3>3. rows4 = <<>> => Len(rows4) = 0
      <4> HIDE DEF rows4
      <4> QED OBVIOUS
    <3> QED BY <2>7, <3>1, <3>2, <3>3
  <2>17. IF rows4 = <<>>
         THEN m.highest = NoSeverity /\ facts(4).risk = Severity.INFO
         ELSE m.highest = facts(4).risk
    <3> HIDE DEF rows4
    <3> QED BY <2>2, <2>4, <2>16 DEF HighestSeverity, OverallRisk
  <2> QED
    BY <2>13, <2>14, <2>15, <2>17 DEF ReportAgrees, facts, m
<1> QED
  BY <1>1, Provenance, PTL

\* Each chunk that a recommendation cites was found for its finding, and the summary counts
\* these chunks.
THEOREM CitationsTraced == Spec => []CitationsTraceable
<1>1. Inv => CitationsTraceable
  <2> SUFFICES ASSUME Inv, recommendations # None
               PROVE  CitationsTraceable
    BY DEF CitationsTraceable
  <2> DEFINE recs == recommendations.recommendations
  <2>1. /\ RecommendationsOf(recommendations, architecture, security, context)
        /\ context = None \/ GroundedContext(context)
    BY DEF Inv, RecordInv
  <2>2. /\ DOMAIN recs = 1..Len(recs)
        /\ \A i \in 1..Len(recs) : /\ recs[i].category = DomainOf(recs[i].source)
                                   /\ recs[i].cited = CitedChunks(context, recs[i].source)
        /\ recommendations.chunksUsed = Cardinality(CitedPlaces(recs))
    BY <2>1 DEF RecommendationsOf, WorstFindings
  <2> HIDE DEF recs
  <2>3. ASSUME NEW i \in DOMAIN recs, NEW id \in ToSet(recs[i].cited)
        PROVE  \E c \in ToSet(context.chunks), q \in ToSet(context.queries) :
                  /\ c.id = id
                  /\ c.domain = recs[i].category
                  /\ q.source = recs[i].source
                  /\ q.id \in c.queries
    <3>1. /\ DOMAIN recs[i].cited = 1..Len(recs[i].cited)
          /\ \A k \in 1..Len(recs[i].cited) : FoundFor(recs[i].cited[k], recs[i].source, context)
      BY <2>1, <2>2, CitedProperties
    <3>2. FoundFor(id, recs[i].source, context)
      BY <3>1 DEF ToSet
    <3> QED BY <2>2, <3>2 DEF FoundFor
  <2> QED
    BY <2>2, <2>3 DEF CitationsTraceable, CitedPlaces, recs
<1> QED
  BY <1>1, Provenance, PTL


-----------------------------------------------------------------------------
(* The refinement of FindingLedger                                         *)

\* The rows of a report cover the worst findings.
PublishedInv == report # None => Ledger!Covers(CoveredFindings, RuleFindings)

\* The findings have each an id of its own, and are among those there can be.
FindingsInv ==
    /\ RuleFindings \subseteq AllFindings
    /\ \A f, g \in RuleFindings : f.id = g.id => f = g

\* A finding of a list, among all of them.
LEMMA ListedFinding ==
    ASSUME Inv, security # None
    PROVE  /\ RuleFindings = LedgerOf(architecture.weaknesses) \union LedgerOf(security.findings)
           /\ FindingList("AW", architecture.weaknesses)
           /\ FindingList("SF", security.findings)
<1>1. /\ architecture # None
      /\ WeaknessesOf(architecture, pcr) /\ FindingsOf(security, pcr)
  BY DEF Inv, RecordInv
<1>2. RuleFindings = WeaknessesFound \union RisksFound
  BY <1>1 DEF RuleFindings
<1> QED
  BY <1>1, <1>2, RuleFindingsMade DEF WeaknessesOf, FindingsOf

\* The rows of the report as the ledger has them: each stands for the finding of its source.
LEMMA CoveredRows ==
    ASSUME Inv, report # None
    PROVE  LET recs == recommendations.recommendations
               seq  == CoveredFindings
           IN  /\ DOMAIN seq = DOMAIN recs
               /\ \A i \in DOMAIN recs : /\ seq[i] \in RuleFindings
                                         /\ seq[i].id = recs[i].source
                                         /\ seq[i].severity = recs[i].severity
<1> DEFINE recs == recommendations.recommendations
           rows == report.sections[5].facts.rows
<1>1. /\ recommendations # None /\ security # None
      /\ RecommendationsOf(recommendations, architecture, security, context)
      /\ report = AssembledReport(architecture, security, recommendations, manifest, pcr)
  BY DEF Inv, RecordInv
<1>2. rows = [i \in DOMAIN recs |-> [id |-> recs[i].id, priority |-> recs[i].priority,
                                     source |-> recs[i].source]]
  <2>1. report.sections[5] = Recommendations(recommendations)
    BY <1>1 DEF AssembledReport
  <2> QED BY <2>1 DEF Recommendations, Section
<1>3. DOMAIN rows = DOMAIN recs /\ \A i \in DOMAIN recs : rows[i].source = recs[i].source
  BY <1>2
<1>4. CoveredFindings = [i \in DOMAIN rows |-> CHOOSE f \in RuleFindings : f.id = rows[i].source]
  BY DEF CoveredFindings
<1>5. /\ DOMAIN recs = 1..Len(recs)
      /\ \A i \in 1..Len(recs) : \/ ForFinding(recs[i], architecture.weaknesses)
                                 \/ ForFinding(recs[i], security.findings)
  BY <1>1 DEF RecommendationsOf, WorstFindings
<1> HIDE DEF rows, recs
<1>6. ASSUME NEW i \in DOMAIN recs
      PROVE  \E f \in RuleFindings : f.id = recs[i].source /\ f.severity = recs[i].severity
  <2>1. ASSUME NEW kind, NEW items, FindingList(kind, items), ForFinding(recs[i], items)
        PROVE  \E f \in LedgerOf(items) : f.id = recs[i].source /\ f.severity = recs[i].severity
    <3>1. PICK k \in DOMAIN items : items[k].id = recs[i].source /\ items[k].severity = recs[i].severity
      BY <2>1 DEF ForFinding
    <3>2. [id |-> items[k].id, severity |-> items[k].severity] \in LedgerOf(items)
      BY <2>1, <3>1 DEF LedgerOf, FindingList
    <3> QED BY <3>1, <3>2
  <2> QED BY <1>1, <1>5, <2>1, ListedFinding
<1>7. ASSUME NEW i \in DOMAIN recs
      PROVE  /\ CoveredFindings[i] \in RuleFindings
             /\ CoveredFindings[i].id = recs[i].source
             /\ CoveredFindings[i].severity = recs[i].severity
  <2>1. CoveredFindings[i] = CHOOSE f \in RuleFindings : f.id = recs[i].source
    BY <1>3, <1>4
  <2>2. PICK f \in RuleFindings : f.id = recs[i].source /\ f.severity = recs[i].severity
    BY <1>6
  <2>3. CoveredFindings[i] \in RuleFindings /\ CoveredFindings[i].id = recs[i].source
    BY <2>1, <2>2
  <2>4. CoveredFindings[i] = f
    BY <2>2, <2>3, RuleFindingsProperties
  <2> QED BY <2>2, <2>4
<1>8. DOMAIN CoveredFindings = DOMAIN recs
  BY <1>3, <1>4
<1> QED
  BY <1>7, <1>8 DEF recs

\* What the report covers are the worst findings there are.
LEMMA ReportCovers == Inv => PublishedInv
<1> SUFFICES ASSUME Inv, report # None
             PROVE  Ledger!Covers(CoveredFindings, RuleFindings)
  BY DEF PublishedInv
<1> DEFINE recs  == recommendations.recommendations
           seq   == CoveredFindings
           range == {seq[i] : i \in DOMAIN seq}
<1>1. /\ security # None
      /\ RecommendationsOf(recommendations, architecture, security, context)
  BY DEF Inv, RecordInv
<1>2. /\ DOMAIN recs = 1..Len(recs) /\ Len(recs) \in Nat /\ Len(recs) <= MaxRecommendations
      /\ \A i, j \in 1..Len(recs) : i < j => recs[i].severity >= recs[j].severity
      /\ \A i \in 1..Len(recs) : recs[i].severity \in 1..5
      /\ \A i, j \in 1..Len(recs) : recs[i].source = recs[j].source => i = j
      /\ WorstHave(recs, architecture.weaknesses, MaxRecommendations)
      /\ WorstHave(recs, security.findings, MaxRecommendations)
  BY <1>1 DEF RecommendationsOf, WorstFindings, Descending
<1>3. /\ DOMAIN seq = DOMAIN recs
      /\ \A i \in DOMAIN recs : /\ seq[i] \in RuleFindings
                                /\ seq[i].id = recs[i].source
                                /\ seq[i].severity = recs[i].severity
  BY CoveredRows
<1>4. /\ \A f, g \in RuleFindings : f.id = g.id => f = g
      /\ \A f \in RuleFindings : f.severity \in 1..5
  <2>1. \A f \in AllFindings : f.severity \in 1..5
    BY SeverityValues DEF AllFindings
  <2> QED BY <2>1, RuleFindingsProperties
<1>5. seq = [i \in 1..Len(recs) |-> seq[i]]
  BY <1>2, <1>3 DEF CoveredFindings
<1> HIDE DEF recs, seq
<1>6. /\ seq \in Seq(range) /\ Len(seq) = Len(recs) /\ DOMAIN seq = 1..Len(recs)
  BY <1>2, <1>3, <1>5
<1>7. ASSUME NEW i \in 1..Len(recs), NEW j \in 1..Len(recs), seq[i] = seq[j]
      PROVE  i = j
  BY <1>2, <1>3, <1>7
<1>8. \A i, j \in DOMAIN seq : seq[i] = seq[j] => i = j
  BY <1>6, <1>7
<1>9. ASSUME NEW f \in RuleFindings
      PROVE  \/ f \in range
             \/ /\ Len(recs) = MaxRecommendations
                /\ \A g \in range : f.severity <= g.severity
  <2>1. ASSUME NEW kind \in {"AW", "SF"}, NEW items, FindingList(kind, items),
               WorstHave(recs, items, MaxRecommendations), f \in LedgerOf(items)
        PROVE  \/ f \in range
               \/ /\ Len(recs) = MaxRecommendations
                  /\ \A g \in range : f.severity <= g.severity
    <3>1. PICK k \in 1..Len(items) : f.id = items[k].id /\ f.severity = items[k].severity
      BY <2>1, LedgerProperties
    <3>2. k \in DOMAIN items
      BY <2>1 DEF FindingList
    <3>3. CASE \E i \in DOMAIN recs : recs[i].source = items[k].id
      <4>1. PICK i \in DOMAIN recs : recs[i].source = items[k].id
        BY <3>3
      <4>2. f = seq[i]
        BY <1>3, <1>4, <3>1, <4>1
      <4> QED BY <1>3, <4>1, <4>2
    <3>4. CASE /\ Len(recs) = MaxRecommendations
               /\ \A i \in DOMAIN recs : recs[i].severity >= items[k].severity
      <4>1. ASSUME NEW g \in range
            PROVE  f.severity <= g.severity
        <5>1. PICK i \in DOMAIN recs : g = seq[i]
          BY <1>3
        <5>2. recs[i].severity >= items[k].severity /\ recs[i].severity \in 1..5
          BY <1>2, <3>4, <5>1
        <5>3. f.severity \in 1..5 /\ g.severity = recs[i].severity
          BY <1>3, <1>4, <5>1
        <5> QED BY <3>1, <5>2, <5>3
      <4> QED BY <3>4, <4>1
    <3> QED BY <2>1, <3>2, <3>3, <3>4 DEF WorstHave
  <2> QED
    BY <1>1, <1>2, <2>1, ListedFinding
<1>10. range \subseteq RuleFindings
  BY <1>3
<1>11. \A i, j \in DOMAIN seq : i < j => seq[i].severity >= seq[j].severity
  BY <1>2, <1>3
<1>12. Len(seq) = MaxRecommendations \/ range = RuleFindings
  BY <1>6, <1>9, <1>10
<1>13. \A f \in RuleFindings \ range, g \in range : f.severity <= g.severity
  BY <1>9
<1>14. Len(seq) <= MaxRecommendations
  BY <1>2, <1>6
<1> HIDE DEF range
<1>15. Ledger!Covers(seq, RuleFindings)
  <2>1. range = {seq[i] : i \in DOMAIN seq}
    BY DEF range
  <2> QED BY <2>1, <1>8, <1>10, <1>11, <1>12, <1>13, <1>14 DEF Ledger!Covers
<1> QED
  BY <1>15 DEF seq

\* What the steps do to the findings and to the report: a failure keeps both, the assembly
\* makes the report, and any other step adds findings at most.
LEMMA StepKinds ==
    ASSUME Inv, Next
    PROVE  /\ stage \notin {"done", "failed"}
           /\ \/ stage' = "failed" /\ UNCHANGED outputVars
              \/ /\ stage' \notin {"done", "failed"}
                 /\ UNCHANGED report /\ RuleFindings \subseteq RuleFindings'
              \/ stage' = "done" /\ UNCHANGED <<pcr, architecture, security>>
<1>1. CASE Ingest
  BY <1>1 DEF Ingest, Fail, RuleFindings, WeaknessesFound, RisksFound
<1>2. CASE Parse
  <2>1. stage = "parse" /\ architecture = None /\ security = None
    BY <1>2 DEF Parse, Inv, StageInv, RecordInv
  <2>2. RuleFindings = {}
    BY <2>1 DEF RuleFindings
  <2> QED BY <1>2, <2>1, <2>2 DEF Parse, Fail
<1>3. CASE Architecture
  <2>1. stage = "architecture" /\ architecture = None /\ security = None
    BY <1>3 DEF Architecture, Inv, StageInv, RecordInv
  <2>2. RuleFindings = {}
    BY <2>1 DEF RuleFindings
  <2> QED BY <1>3, <2>1, <2>2 DEF Architecture, Fail
<1>4. CASE Security
  <2>1. stage = "security" /\ security = None
    BY <1>4 DEF Security, Inv, StageInv
  <2>2. RuleFindings = IF architecture = None THEN {} ELSE WeaknessesFound
    BY <2>1 DEF RuleFindings
  <2>3. ASSUME UNCHANGED <<pcr, architecture>>
        PROVE  RuleFindings \subseteq RuleFindings'
    BY <2>2, <2>3 DEF RuleFindings, WeaknessesFound
  <2> QED BY <1>4, <2>1, <2>3 DEF Security, Fail
<1>5. ASSUME NEW result, EndRetrieval(result)
      PROVE  /\ stage' \notin {"done", "failed"}
             /\ UNCHANGED report /\ RuleFindings \subseteq RuleFindings'
  BY <1>5 DEF EndRetrieval, RuleFindings, WeaknessesFound, RisksFound
<1>6. CASE StartRetrieval
  <2>1. ASSUME stage' = "query", UNCHANGED outputVars
        PROVE  /\ stage' \notin {"done", "failed"}
               /\ UNCHANGED report /\ RuleFindings \subseteq RuleFindings'
    BY <2>1 DEF outputVars, RuleFindings, WeaknessesFound, RisksFound
  <2> QED BY <1>5, <1>6, <2>1 DEF StartRetrieval
<1>7. ASSUME NextQuery, stage = "query"
      PROVE  /\ stage' \notin {"done", "failed"}
             /\ UNCHANGED report /\ RuleFindings \subseteq RuleFindings'
  BY <1>7 DEF NextQuery, outputVars, RuleFindings, WeaknessesFound, RisksFound
<1>8. CASE QueryIsEmpty
  BY <1>7, <1>8 DEF QueryIsEmpty
<1>9. CASE QueryHits
  BY <1>5, <1>7, <1>9 DEF QueryHits
<1>10. CASE CollectionMissing
  BY <1>5, <1>10 DEF CollectionMissing
<1>11. CASE FinishRetrieval
  BY <1>5, <1>11 DEF FinishRetrieval
<1>12. CASE Recommend
  <2>1. ASSUME UNCHANGED <<pcr, architecture, security>>
        PROVE  RuleFindings \subseteq RuleFindings'
    BY <2>1 DEF RuleFindings, WeaknessesFound, RisksFound
  <2> QED BY <1>12, <2>1 DEF Recommend, Fail
<1>13. CASE Assemble
  BY <1>13 DEF Assemble, Fail
<1>14. CASE GeminiGivesUp
  BY <1>14 DEF GeminiGivesUp, Fail
<1> QED
  BY <1>1, <1>2, <1>3, <1>4, <1>6, <1>8, <1>9, <1>10, <1>11, <1>12, <1>13, <1>14 DEF Next

\* A run is one of FindingLedger: its steps enter findings, publish the worst of them or
\* give them up, whatever the clone holds, Gemini answers and Qdrant finds.
THEOREM LedgerImplemented == Spec => ImplementsLedger
<1>1. Init => Ledger!Init
  BY DEF Init, Ledger!Init, RuleFindings, CoveredFindings
<1>2. Inv => FindingsInv
  BY RuleFindingsProperties DEF FindingsInv
<1>3. Inv => PublishedInv
  BY ReportCovers
<1>4. Inv /\ Inv' /\ FindingsInv' /\ PublishedInv' /\ [Next]_vars
        => [Ledger!Next]_(Ledger!ledgerVars)
  <2> SUFFICES ASSUME Inv, Inv', FindingsInv', PublishedInv', [Next]_vars
               PROVE  [Ledger!Next]_(Ledger!ledgerVars)
    OBVIOUS
  <2>1. CASE UNCHANGED vars
    BY <2>1 DEF vars, outputVars, Ledger!ledgerVars, RuleFindings, WeaknessesFound, RisksFound,
                CoveredFindings
  <2>2. CASE Next
    <3>1. stage \notin {"done", "failed"} /\ report = None
      BY <2>2, StepKinds DEF Inv, StageInv
    <3>2. CASE stage' = "failed" /\ UNCHANGED outputVars
      <4>1. RuleFindings' = RuleFindings /\ CoveredFindings' = CoveredFindings
        BY <3>1, <3>2 DEF outputVars, RuleFindings, WeaknessesFound, RisksFound, CoveredFindings
      <4>2. Ledger!Abandon
        BY <3>1, <3>2, <4>1 DEF Ledger!Abandon
      <4> QED BY <4>2 DEF Ledger!Next
    <3>3. CASE /\ stage' \notin {"done", "failed"}
               /\ UNCHANGED report /\ RuleFindings \subseteq RuleFindings'
      <4>1. CoveredFindings' = CoveredFindings
        BY <3>1, <3>3 DEF CoveredFindings
      <4>2. /\ RuleFindings' \subseteq [id : {"AW", "SF"} \X (1..6), severity : Severities]
            /\ \A f, g \in RuleFindings' : f.id = g.id => f = g
        BY DEF FindingsInv, AllFindings
      <4>3. Ledger!Enter
        BY <3>1, <3>3, <4>1, <4>2 DEF Ledger!Enter
      <4> QED BY <4>3 DEF Ledger!Next
    <3>4. CASE stage' = "done" /\ UNCHANGED <<pcr, architecture, security>>
      <4>1. RuleFindings' = RuleFindings
        BY <3>4 DEF RuleFindings, WeaknessesFound, RisksFound
      <4>2. report' # None
        BY <3>4 DEF Inv, StageInv
      <4>3. Ledger!Covers(CoveredFindings, RuleFindings)'
        BY <4>2 DEF PublishedInv
      <4>4. Ledger!Publish
        BY <3>1, <3>4, <4>1, <4>3 DEF Ledger!Publish, Ledger!Covers
      <4> QED BY <4>4 DEF Ledger!Next
    <3> QED BY <2>2, <3>2, <3>3, <3>4, StepKinds
  <2> QED BY <2>1, <2>2
<1> QED
  BY <1>1, <1>2, <1>3, <1>4, Provenance, PTL DEF Spec, ImplementsLedger, Ledger!Spec

=============================================================================
