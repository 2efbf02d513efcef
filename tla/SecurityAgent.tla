--------------------------- MODULE SecurityAgent ---------------------------
(***************************************************************************)
(* SecurityService.run: one finding for each category of signals that is   *)
(* not empty, with a fixed severity; Gemini words them.                    *)
(***************************************************************************)
EXTENDS ArchitectureAgent

-----------------------------------------------------------------------------
(* Rules                                                                   *)

\* _confidence_from_count.
ConfidenceFromCount(count, specific) ==
    CASE count >= 3 -> "HIGH"
      [] count = 2 \/ (count < 3 /\ specific) -> "MEDIUM"
      [] OTHER -> "LOW"

\* generate_findings: the categories in the order of their rules, which is one of
\* descending severity; the first two are specific enough for one signal to count.
FindingRules(security) ==
    <<[title |-> "Hardcoded Secret or Credential", severity |-> Severity.HIGH,
       count |-> Cardinality(security.secrets), specific |-> TRUE],
      [title |-> "Potential SQL Injection Risk", severity |-> Severity.HIGH,
       count |-> Cardinality(security.sql), specific |-> TRUE],
      [title |-> "Authentication Control Gap", severity |-> Severity.HIGH,
       count |-> Cardinality(security.auth), specific |-> FALSE],
      [title |-> "Missing Input Validation", severity |-> Severity.MEDIUM,
       count |-> Cardinality(security.validation), specific |-> FALSE],
      [title |-> "Insecure Default Configuration", severity |-> Severity.MEDIUM,
       count |-> Cardinality(security.defaults), specific |-> FALSE],
      [title |-> "Insufficient Error Handling in Security Code", severity |-> Severity.LOW,
       count |-> Cardinality(security.handling), specific |-> FALSE]>>

\* FindingSpecs, numbered from SF-001.
FindingSpecs(security) ==
    LET rules == FindingRules(security)
        found == Only(rules, {rule \in ToSet(rules) : rule.count > 0})
    IN  [i \in DOMAIN found |->
            [id         |-> <<"SF", i>>,
             title      |-> found[i].title,
             severity   |-> found[i].severity,
             confidence |-> ConfidenceFromCount(found[i].count, found[i].specific)]]

-----------------------------------------------------------------------------
(* The answer of Gemini                                                    *)

\* _parse_response.
SecurityAnswerUsable(answer) == answer.form = "object" /\ answer.narrative >= 50

\* The finding of a spec: a description of less than 20 characters is replaced, a hint
\* only if it is empty.
BuildFinding(spec, answer) ==
    LET raw == IF spec.id \in DOMAIN answer.texts THEN answer.texts[spec.id]
                                                  ELSE [description |-> 0, hint |-> 0]
    IN  [id |-> spec.id, title |-> spec.title, severity |-> spec.severity,
         confidence  |-> spec.confidence,
         description |-> OrDefault(raw.description, 20, DefaultText),
         hint        |-> OrDefault(raw.hint, 1, DefaultText)]

\* Mutant: findings are kept only if the model says something of them.
KeepDescribed(specs, answer) ==
    LET kept == Only(specs, {spec \in ToSet(specs) : spec.id \in DOMAIN answer.texts})
    IN  [i \in DOMAIN kept |-> BuildFinding(kept[i], answer)]

\* _build_findings.
BuildFindings(specs, answer) == [i \in DOMAIN specs |-> BuildFinding(specs[i], answer)]

\* _compute_overall_risk.
OverallRisk(findings) ==
    IF findings = <<>> THEN Severity.INFO
    ELSE Max({findings[i].severity : i \in DOMAIN findings})

\* _compute_severity_counts.
SeverityCounts(findings) ==
    [s \in Severities |-> Cardinality({i \in DOMAIN findings : findings[i].severity = s})]

\* The constraints and validators of SecurityFinding.
ValidFinding(f) == f.description >= 20 /\ f.hint > 0

\* The constraints and validators of SecuritySection.
ValidSecuritySection(s) ==
    /\ s.narrative >= 50
    /\ \A i \in DOMAIN s.findings : ValidFinding(s.findings[i])
    /\ s.risk = Max({Severity.INFO} \union {s.findings[i].severity : i \in DOMAIN s.findings})
    /\ s.counts = SeverityCounts(s.findings)
    /\ IdsUnique(s.findings)

\* _assemble_section.
AssembleSecurity(pcr, answer) ==
    LET findings == BuildFindings(FindingSpecs(pcr.security), answer)
    IN  [findings  |-> findings,
         risk      |-> OverallRisk(findings),
         counts    |-> SeverityCounts(findings),
         narrative |-> answer.narrative,
         tokens    |-> answer.tokens]

\* SecurityService.run, given Gemini's answer.
SecurityRun(pcr, answer) ==
    CASE ~SecurityAnswerUsable(answer) -> Raised("LLMResponseParseError")
      [] SecurityAnswerUsable(answer)
           /\ ValidSecuritySection(AssembleSecurity(pcr, answer)) ->
             Returned(AssembleSecurity(pcr, answer))
      [] OTHER -> Raised("ValidationError")

=============================================================================
