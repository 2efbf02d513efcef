------------------------ MODULE RecommendationAgent ------------------------
(***************************************************************************)
(* RecommendationService.run: one recommendation for each finding, ordered *)
(* by priority and severity, cut at a limit, and grounded in the chunks    *)
(* the retrieval found for that finding.                                   *)
(***************************************************************************)
EXTENDS Retrieval

-----------------------------------------------------------------------------
(* Rules                                                                   *)

\* _severity_to_priority.
SeverityToPriority(severity) ==
    CASE severity \in {Severity.CRITICAL, Severity.HIGH} -> "P1"
      [] severity = Severity.MEDIUM -> "P2"
      [] OTHER -> "P3"

\* _collect_specs.
SpecOf(finding, category) ==
    [source |-> finding.id, title |-> finding.title, severity |-> finding.severity,
     priority |-> SeverityToPriority(finding.severity), category |-> category]

CollectSpecs(architecture, security) ==
    [i \in DOMAIN architecture.weaknesses |->
        SpecOf(architecture.weaknesses[i], "ARCHITECTURE")] \o
    [i \in DOMAIN security.findings |-> SpecOf(security.findings[i], "SECURITY")]

\* Mutant: any chunks of the context, not those found for the finding.
CiteAnyChunk(context, source) ==
    IF context = None THEN <<>>
    ELSE FirstOf([i \in DOMAIN context.chunks |-> context.chunks[i].id], MaxExcerpts)

\* _map_rag_chunks: the chunks of the queries made for the finding, up to MaxExcerpts.
\* Without a context there are none.
CitedChunks(context, source) ==
    IF context = None THEN <<>>
    ELSE LET mine == Only(context.queries, {q \in ToSet(context.queries) : q.source = source})
         IN  FirstOf(Distinct(Flatten([i \in DOMAIN mine |-> mine[i].results])), MaxExcerpts)

\* The specs of one priority.
Bucket(specs, priority) == Only(specs, {s \in ToSet(specs) : s.priority = priority})

\* The three buckets, each sorted by severity, one after the other.
OrderSpecs(specs) ==
    SortedDescending(Bucket(specs, "P1")) \o
    SortedDescending(Bucket(specs, "P2")) \o
    SortedDescending(Bucket(specs, "P3"))

\* run_recommendation_rules: the ids are given after the cut, anew.
RecommendationSpecs(architecture, security, context) ==
    LET ordered == OrderSpecs(CollectSpecs(architecture, security))
        final   == FirstOf(ordered, MaxRecommendations)
    IN  [i \in DOMAIN final |->
            [id |-> <<"REC", i>>, source |-> final[i].source, title |-> final[i].title,
             severity |-> final[i].severity, priority |-> final[i].priority,
             category |-> final[i].category,
             cited |-> CitedChunks(context, final[i].source)]]

\* _build_counts.
PriorityCounts(specs) ==
    [p \in Priorities |-> Len(Bucket(specs, p))]

-----------------------------------------------------------------------------
(* The answer of Gemini                                                    *)

\* _parse_response: what makes the whole answer unusable. Blank steps do not count.
RecommendationAnswerUsable(answer) ==
    /\ answer.form = "object"
    /\ answer.summary >= 100
    /\ answer.steps >= MinNextSteps

\* next_steps[:10]
KeptSteps(steps) == Min({steps, MaxNextSteps})

\* _build_recommendations.
BuildRecommendation(spec, answer) ==
    LET raw == IF spec.id \in DOMAIN answer.texts THEN answer.texts[spec.id]
               ELSE [text |-> 0, rationale |-> 0, context |-> 0]
    IN  [id |-> spec.id, source |-> spec.source, title |-> spec.title,
         severity |-> spec.severity, priority |-> spec.priority, category |-> spec.category,
         cited     |-> spec.cited,
         text      |-> OrDefault(raw.text, 30, DefaultText),
         rationale |-> OrDefault(raw.rationale, 20, DefaultText),
         context   |-> OrDefault(raw.context, 10, DefaultText)]

\* The constraints of Recommendation.
ValidRecommendation(r) == r.text >= 30 /\ r.rationale >= 20 /\ r.context >= 10

\* The constraints and validators of RecommendationSection.
ValidRecommendationSection(s) ==
    /\ s.summary >= 100
    /\ \A i \in DOMAIN s.recommendations : ValidRecommendation(s.recommendations[i])
    /\ s.steps \in MinNextSteps..MaxNextSteps
    /\ \A i \in 2..Len(s.recommendations) :
          PriorityRank[s.recommendations[i - 1].priority] <=
              PriorityRank[s.recommendations[i].priority]
    /\ IdsUnique(s.recommendations)
    /\ s.counts = PriorityCounts(s.recommendations)
    /\ s.sources = 0 <=> s.note = "given"

\* _assemble_section, with the counts of the rules.
AssembleRecommendations(architecture, security, context, answer) ==
    LET specs == RecommendationSpecs(architecture, security, context)
        all   == CollectSpecs(architecture, security)
    IN  [recommendations |-> [i \in DOMAIN specs |-> BuildRecommendation(specs[i], answer)],
         summary    |-> answer.summary,
         steps      |-> KeptSteps(answer.steps),
         counts     |-> PriorityCounts(specs),
         sources    |-> Len(architecture.weaknesses) + Len(security.findings),
         chunksUsed |-> Len(Flatten([i \in DOMAIN specs |-> specs[i].cited])),
         note       |-> IF all = <<>> THEN "given" ELSE "none",
         tokens     |-> answer.tokens]

\* RecommendationService.run, given Gemini's answer.
RecommendationRun(architecture, security, context, answer) ==
    LET section == AssembleRecommendations(architecture, security, context, answer)
    IN  CASE ~RecommendationAnswerUsable(answer) -> Raised("LLMResponseParseError")
          [] RecommendationAnswerUsable(answer) /\ ValidRecommendationSection(section) ->
                 Returned(section)
          [] OTHER -> Raised("ValidationError")

=============================================================================
