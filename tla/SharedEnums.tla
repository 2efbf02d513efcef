---------------------------- MODULE SharedEnums ----------------------------
(***************************************************************************)
(* The enumerations and the numbers that the agents, the retrieval and the *)
(* report have in common. A text is represented by its length, stripped of *)
(* blanks: all the code tells of a text of the model is whether it is long *)
(* enough.                                                                 *)
(***************************************************************************)
EXTENDS Listing

CONSTANTS
    MaxRagQueries,        \* MAX_RAG_QUERIES
    TopK,                 \* RAG_TOP_K
    MaxExcerpts,          \* _MAX_EXCERPTS_PER_SPEC
    MaxRecommendations    \* MAX_RECOMMENDATIONS

ASSUME CapsAssumption ==
    {MaxRagQueries, TopK, MaxExcerpts, MaxRecommendations} \subseteq Nat \ {0}

\* The IntEnum Severity.
Severity == [CRITICAL |-> 5, HIGH |-> 4, MEDIUM |-> 3, LOW |-> 2, INFO |-> 1]

Severities == {Severity[s] : s \in DOMAIN Severity}

Priorities == {"P1", "P2", "P3"}

\* The member 'value' of Priority as a position in the order P1, P2, P3.
PriorityRank == [P1 |-> 1, P2 |-> 2, P3 |-> 3]

\* RAGDomain, and RecommendationCategory with the same names.
Domains == {"ARCHITECTURE", "SECURITY", "QUALITY"}

\* The names of SectionKey in the order of SECTION_ORDER.
SectionOrder == <<"EXECUTIVE_SUMMARY", "REPOSITORY_OVERVIEW", "ARCHITECTURE_ASSESSMENT",
                  "SECURITY_FINDINGS", "RECOMMENDATIONS", "ACTIONABLE_NEXT_STEPS">>

\* The thresholds in percent: RAG_RELEVANCE_THRESHOLD, and the largest relevance_score
\* that a RAGChunk accepts.
RelevanceThreshold == 72
MaxRelevance == 100

\* RECOMMENDATION_MIN_NEXT_STEPS and RECOMMENDATION_MAX_NEXT_STEPS.
MinNextSteps == 3
MaxNextSteps == 10

-----------------------------------------------------------------------------
(* Helpers                                                                 *)

\* The elements of a sequence with their position, for fields named `id`.
IdsOf(seq) == {seq[i].id : i \in DOMAIN seq}

IdsUnique(seq) == \A i, j \in DOMAIN seq : seq[i].id = seq[j].id => i = j

\* list.sort(key=..., reverse=True), which is stable: the severest elements first, those
\* as severe as each other in the order they had.
SortedDescending(seq) ==
    LET before == {p \in (DOMAIN seq) \X (DOMAIN seq) :
                      \/ seq[p[1]].severity > seq[p[2]].severity
                      \/ seq[p[1]].severity = seq[p[2]].severity /\ p[1] < p[2]}
        order  == InOrder(DOMAIN seq, before)
    IN  Listed([k \in DOMAIN order |-> seq[order[k]]], Len(order))

\* A text of the model that is too short is replaced by one of the code's own.
OrDefault(length, minimum, default) == IF length < minimum THEN default ELSE length

\* The length of a default text, longer than any minimum.
DefaultText == 60

=============================================================================
