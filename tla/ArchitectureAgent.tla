------------------------- MODULE ArchitectureAgent -------------------------
(***************************************************************************)
(* ArchitectureService.run: the rules decide which weaknesses there are    *)
(* and how severe, Gemini words them, and what Gemini leaves out or words  *)
(* too briefly is worded by the code.                                      *)
(*                                                                         *)
(* An answer of Gemini is a record: its form, the lengths of its texts,    *)
(* and for some of the weaknesses a description and a hint for retrieval.  *)
(***************************************************************************)
EXTENDS CodeRepresentation, SharedEnums

-----------------------------------------------------------------------------
(* Rules                                                                   *)

\* _generate_weaknesses: the rules in their order. Violations across files and layer
\* boundaries are the same list under two names.
WeaknessRules(pcr) ==
    <<[title |-> "Circular Import Dependencies", severity |-> Severity.HIGH,
       holds |-> pcr.cycles # {}],
      [title |-> "High Module Coupling", severity |-> Severity.MEDIUM,
       holds |-> pcr.coupling # {}],
      [title |-> "Dependency Direction Violation", severity |-> Severity.MEDIUM,
       holds |-> pcr.violations # {}],
      [title |-> "Architectural Layer Boundary Breach", severity |-> Severity.MEDIUM,
       holds |-> pcr.violations # {}],
      [title |-> "Low Module Cohesion", severity |-> Severity.LOW,
       holds |-> pcr.cohesion = "LOW"]>>

\* WeaknessSpecs, numbered from AW-001.
WeaknessSpecs(pcr) ==
    LET rules == WeaknessRules(pcr)
        found == Only(rules, {rule \in ToSet(rules) : rule.holds})
    IN  [i \in DOMAIN found |->
            [id |-> <<"AW", i>>, title |-> found[i].title, severity |-> found[i].severity]]

\* _classify_pattern: the strongest class of indicators that is not empty, and in it
\* the one with most evidence.
ClassifyPattern(indicators) ==
    LET of(strength) == {i \in indicators : i.strength = strength}
        best(class)  == CHOOSE i \in class : \A k \in class : k.evidence <= i.evidence
    IN  CASE Cardinality(of("STRONG")) = 1 ->
               [pattern |-> best(of("STRONG")).pattern,
                confidence |-> IF of("MODERATE") = {} THEN "HIGH" ELSE "MEDIUM"]
          [] Cardinality(of("STRONG")) > 1 ->
               [pattern |-> best(of("STRONG")).pattern, confidence |-> "MEDIUM"]
          [] of("STRONG") = {} /\ of("MODERATE") # {} ->
               [pattern |-> best(of("MODERATE")).pattern, confidence |-> "MEDIUM"]
          [] of("STRONG") = {} /\ of("MODERATE") = {} /\ of("WEAK") # {} ->
               [pattern |-> best(of("WEAK")).pattern, confidence |-> "LOW"]
          [] OTHER -> [pattern |-> "UNKNOWN", confidence |-> "LOW"]

\* _compute_coupling_spec.
CouplingSpec(pcr) ==
    LET files == Cardinality(pcr.coupling)
        violations == Cardinality(pcr.violations)
    IN  [files |-> files, violations |-> violations,
         level |-> CASE files > 5 \/ violations > 3 -> "HIGH"
                     [] files <= 5 /\ violations <= 3 /\ (files >= 2 \/ violations >= 1) ->
                            "MEDIUM"
                     [] OTHER -> "LOW"]

-----------------------------------------------------------------------------
(* The answer of Gemini                                                    *)

\* _parse_response: what makes the whole answer unusable.
ArchitectureAnswerUsable(answer) == answer.form = "object" /\ answer.narrative >= 50

\* Mutant: the hint of the model is taken if it is not empty, as the other agent does.
TakeAnyHint(spec, answer) ==
    LET raw == IF spec.id \in DOMAIN answer.texts THEN answer.texts[spec.id]
                                                  ELSE [description |-> 0, hint |-> 0]
    IN  [id |-> spec.id, title |-> spec.title, severity |-> spec.severity,
         description |-> OrDefault(raw.description, 10, DefaultText),
         hint        |-> OrDefault(raw.hint, 1, DefaultText)]

\* _build_weaknesses: one for each spec, whatever the answer says of it, or of
\* weaknesses that there are not.
BuildWeakness(spec, answer) ==
    LET raw == IF spec.id \in DOMAIN answer.texts THEN answer.texts[spec.id]
                                                  ELSE [description |-> 0, hint |-> 0]
    IN  [id |-> spec.id, title |-> spec.title, severity |-> spec.severity,
         description |-> OrDefault(raw.description, 10, DefaultText),
         hint        |-> OrDefault(raw.hint, 10, DefaultText)]

\* The constraints and validators of ArchitectureWeakness.
ValidWeakness(w) == w.description > 0 /\ w.hint > 0

\* The constraints and validators of ArchitectureSection.
ValidArchitectureSection(s) ==
    /\ s.narrative >= 50
    /\ s.couplingNarrative >= 10
    /\ s.strengths + Len(s.weaknesses) > 0
    /\ IdsUnique(s.weaknesses)
    /\ \A i \in DOMAIN s.weaknesses : ValidWeakness(s.weaknesses[i])

\* _assemble_section; a list of strengths that is empty gets one of the code's own.
AssembleArchitecture(pcr, answer) ==
    LET specs == WeaknessSpecs(pcr)
        class == ClassifyPattern(pcr.indicators)
    IN  [pattern    |-> class.pattern,
         confidence |-> class.confidence,
         strengths  |-> OrDefault(answer.strengths, 1, 1),
         weaknesses |-> [i \in DOMAIN specs |-> BuildWeakness(specs[i], answer)],
         coupling   |-> CouplingSpec(pcr),
         coverage   |-> pcr.quality.coverage,
         narrative  |-> answer.narrative,
         couplingNarrative |-> OrDefault(answer.coupling, 10, DefaultText),
         tokens     |-> answer.tokens]

\* ArchitectureService.run, given Gemini's answer.
ArchitectureRun(pcr, answer) ==
    CASE ~ArchitectureAnswerUsable(answer) -> Raised("LLMResponseParseError")
      [] ArchitectureAnswerUsable(answer)
           /\ ValidArchitectureSection(AssembleArchitecture(pcr, answer)) ->
             Returned(AssembleArchitecture(pcr, answer))
      [] OTHER -> Raised("ValidationError")

=============================================================================
