------------------------- MODULE CodeRepresentation -------------------------
(***************************************************************************)
(* ParserService.run: the analyses and signals of Parsing, the heuristics  *)
(* for security signals, and the ParsedCodeRepresentation assembled from   *)
(* them, or the exception that ends the job.                               *)
(***************************************************************************)
EXTENDS Parsing

\* Python's None: no record is equal to it, as it has no field.
None == <<>>

-----------------------------------------------------------------------------
(* Security signals                                                        *)

\* validation_gaps: each definition that is named like an entry point, has parameters,
\* and is in a file with no import of a validation library.
ValidationGaps(analysis) ==
    {[file |-> analysis.path, signal |-> k] : k \in
        {k \in DOMAIN analysis.definitions :
            /\ analysis.definitions[k].entry
            /\ analysis.definitions[k].params > 0
            /\ \A t \in ImportsOf(analysis) : ~Import[t].validates}}

\* extract_security_signals, of the files with a text: one that could not be read, or
\* is empty, has none. There is one signal for each pattern of a list, Source[p].secrets
\* and Source[p].auth, that a file matches. Nothing fills missing_error_handling.
SecuritySignals(analyses, unreadable) ==
    LET withText == {a \in ToSet(analyses) : a.path \notin unreadable}
        paths    == {a.path : a \in withText}
        signalsOf(patterns) ==
            {m \in [file : paths, signal : UNION {patterns[p] : p \in paths}] :
                m.signal \in patterns[m.file]}
    IN  [secrets    |-> signalsOf([p \in paths |-> Source[p].secrets]),
         sql        |-> {p \in paths : Source[p].sql},
         auth       |-> signalsOf([p \in paths |-> Source[p].auth]),
         validation |-> UNION {ValidationGaps(a) : a \in withText},
         defaults   |-> {p \in paths : Source[p].insecure},
         handling   |-> {}]

-----------------------------------------------------------------------------
(* The representation                                                      *)

ParsedOf(analyses) == Only(analyses, {a \in ToSet(analyses) : a.parsed})

\* languages_parsed, sorted as strings are.
LanguagesParsed(analyses) ==
    Only(<<"Go", "JavaScript", "Python", "TypeScript">>,
         {a.language : a \in ToSet(ParsedOf(analyses))})

\* Mutant: files_attempted are the files sent for parsing, as its comment says.
MetadataOfSent(manifest, analyses) ==
    [attempted |-> Len(analyses),
     parsed    |-> Len(ParsedOf(analyses)),
     skipped   |-> manifest.skipped,
     failed    |-> Len(analyses) - Len(ParsedOf(analyses)),
     languages |-> LanguagesParsed(analyses)]

\* ParseMetadata as run and build_pcr fill it: files_attempted counts the skipped.
ParseMetadata(manifest, analyses) ==
    [attempted |-> Len(manifest.files),
     parsed    |-> Len(ParsedOf(analyses)),
     skipped   |-> manifest.skipped,
     failed    |-> Len(analyses) - Len(ParsedOf(analyses)),
     languages |-> LanguagesParsed(analyses)]

\* The validators of ParseMetadata.
ValidParseMetadata(m) ==
    /\ Len(m.languages) >= 1
    /\ m.parsed + m.skipped + m.failed = m.attempted

\* The constraint of PatternIndicator: a pattern has at least one piece of evidence.
ValidIndicators(indicators) == \A i \in indicators : i.evidence >= 1

\* The constraint and the validator of ParsedCodeRepresentation itself.
ValidPCR(pcr) == pcr.analyses # <<>> /\ ParsedOf(pcr.analyses) # <<>>

\* What a step of the pipeline ends with: a value, or the name of an exception.
Returned(value) == [error |-> "none", value |-> value]
Raised(error)   == [error |-> error, value |-> None]

\* The indicators and the metadata are validated when they are made, outside the try whose
\* exceptions become a PCRAssemblyError. The validator of QualitySignals derives the
\* coverage from the ratio by the thresholds that TestCoverage has, and so refuses none.
ValidatedPCR(pcr) ==
    LET made == ValidIndicators(pcr.indicators) /\ ValidParseMetadata(pcr.metadata)
    IN  CASE made /\ ValidPCR(pcr)  -> Returned(pcr)
          [] made /\ ~ValidPCR(pcr) -> Raised("PCRAssemblyError")
          [] OTHER                  -> Raised("ValidationError")

\* build_pcr over all the signals.
BuildPCR(manifest, analyses, unreadable) ==
    LET cross == CrossFileSignals(analyses)
        pcr   == [analyses   |-> analyses,
                  coupling   |-> cross.coupling,
                  cycles     |-> cross.cycles,
                  violations |-> cross.violations,
                  indicators |-> PatternIndicators(analyses),
                  cohesion   |-> Cohesion(analyses, cross),
                  conventions |-> Conventions(analyses),
                  security   |-> SecuritySignals(analyses, unreadable),
                  quality    |-> QualitySignals(analyses),
                  metadata   |-> ParseMetadata(manifest, analyses)]
    IN  IF LanguagesParsed(analyses) = <<>> THEN Raised("PCRAssemblyError")
        ELSE ValidatedPCR(pcr)

\* The three names that the enumerations do not have: _classify_patterns meets two of them,
\* then extract_quality_signals the third, with an AttributeError each.
NamesMissingMember(analyses) ==
    \/ \E i \in PatternIndicators(analyses) : i.pattern \notin ArchitecturePatterns
    \/ NamingConsistency(analyses) \notin NamingConsistencies

\* The loop over the files that are sent for parsing.
AnalysesOf(sent, unreadable) == [i \in DOMAIN sent |-> ParseFileBytes(sent[i], unreadable)]

\* ParserService.run.
ParserRun(manifest, unreadable) ==
    LET analyses == AnalysesOf(AnalyzableOf(manifest.files), unreadable)
    IN  CASE ParsedOf(analyses) = <<>> -> Raised("ZeroParseableFilesError")
          [] ParsedOf(analyses) # <<>> /\ NamesMissingMember(analyses) ->
                 Raised("AttributeError")
          [] OTHER -> BuildPCR(manifest, analyses, unreadable)

=============================================================================
