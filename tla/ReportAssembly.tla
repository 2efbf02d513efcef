--------------------------- MODULE ReportAssembly ---------------------------
(***************************************************************************)
(* ReportService.run: six sections and the metadata, from the outputs of   *)
(* all the nodes before. Of a section the model has its key and the facts  *)
(* it states, not their wording.                                           *)
(***************************************************************************)
EXTENDS RecommendationAgent

Section(order, key, facts) == [order |-> order, key |-> key, facts |-> facts]

\* build_executive_summary_section.
ExecutiveSummary(recommendations, security) ==
    Section(1, "EXECUTIVE_SUMMARY",
            [risk |-> security.risk, p1 |-> recommendations.counts["P1"],
             total |-> Len(recommendations.recommendations),
             chunks |-> recommendations.chunksUsed, note |-> recommendations.note])

\* build_repository_overview_section: the counts of the manifest beside those of the
\* parser. Dependencies and frameworks are never filled by build_manifest.
RepositoryOverview(manifest, pcr) ==
    Section(2, "REPOSITORY_OVERVIEW",
            [language |-> manifest.primary, languages |-> manifest.languages,
             total |-> manifest.total, analyzable |-> manifest.analyzable,
             parsed |-> pcr.metadata.parsed, skipped |-> pcr.metadata.skipped,
             failed |-> pcr.metadata.failed])

\* build_architecture_assessment_section.
ArchitectureAssessment(architecture) ==
    Section(3, "ARCHITECTURE_ASSESSMENT",
            [pattern |-> architecture.pattern, confidence |-> architecture.confidence,
             coverage |-> architecture.coverage, coupling |-> architecture.coupling,
             rows |-> [i \in DOMAIN architecture.weaknesses |->
                          [id |-> architecture.weaknesses[i].id,
                           severity |-> architecture.weaknesses[i].severity]]])

\* build_security_findings_section.
SecurityFindings(security) ==
    Section(4, "SECURITY_FINDINGS",
            [risk |-> security.risk, counts |-> security.counts,
             rows |-> [i \in DOMAIN security.findings |->
                          [id |-> security.findings[i].id,
                           severity |-> security.findings[i].severity]]])

\* build_recommendations_section and _build_recommendation_block.
Recommendations(recommendations) ==
    Section(5, "RECOMMENDATIONS",
            [rows |-> [i \in DOMAIN recommendations.recommendations |->
                          [id |-> recommendations.recommendations[i].id,
                           priority |-> recommendations.recommendations[i].priority,
                           source |-> recommendations.recommendations[i].source]]])

\* build_actionable_next_steps_section.
ActionableNextSteps(recommendations) ==
    Section(6, "ACTIONABLE_NEXT_STEPS", [steps |-> recommendations.steps])

\* None, of the optional Severity of the metadata.
NoSeverity == 0

\* _highest_severity: none without findings, where the overall risk is INFO.
HighestSeverity(findings) ==
    IF findings = <<>> THEN NoSeverity
    ELSE Max({findings[i].severity : i \in DOMAIN findings})

\* Mutant: the total of the recommendations is that of the findings, before the cut.
CountSources(architecture, security, recommendations, pcr) ==
    [language  |-> pcr.metadata.languages[1],
     findings  |-> Len(security.findings),
     highest   |-> HighestSeverity(security.findings),
     total     |-> recommendations.sources,
     p1        |-> recommendations.counts["P1"],
     chunks    |-> recommendations.chunksUsed,
     files     |-> pcr.metadata.parsed,
     tokens    |-> architecture.tokens + security.tokens + recommendations.tokens]

\* build_report_metadata. Its primary language is the first in alphabetical order of
\* those parsed, not the one of the manifest.
BuildMetadata(architecture, security, recommendations, pcr) ==
    [language  |-> pcr.metadata.languages[1],
     findings  |-> Len(security.findings),
     highest   |-> HighestSeverity(security.findings),
     total     |-> Len(recommendations.recommendations),
     p1        |-> recommendations.counts["P1"],
     chunks    |-> recommendations.chunksUsed,
     files     |-> pcr.metadata.parsed,
     tokens    |-> architecture.tokens + security.tokens + recommendations.tokens]

\* The constraints and validators of ReportMetadata and FinalReport.
ValidReport(r) ==
    /\ Len(r.sections) = Len(SectionOrder)
    /\ \A i \in DOMAIN r.sections :
          r.sections[i].order = i /\ r.sections[i].key = SectionOrder[i]
    /\ r.metadata.p1 <= r.metadata.total

\* ReportService.run.
ReportRun(architecture, security, recommendations, manifest, pcr) ==
    LET report == [sections |-> <<ExecutiveSummary(recommendations, security),
                                  RepositoryOverview(manifest, pcr),
                                  ArchitectureAssessment(architecture),
                                  SecurityFindings(security),
                                  Recommendations(recommendations),
                                  ActionableNextSteps(recommendations)>>,
                   metadata |-> BuildMetadata(architecture, security, recommendations, pcr)]
    IN  IF ValidReport(report) THEN Returned(report) ELSE Raised("ValidationError")

=============================================================================
