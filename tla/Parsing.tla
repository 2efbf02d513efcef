------------------------------ MODULE Parsing ------------------------------
(***************************************************************************)
(* What ParseNode makes of the files of a manifest: one analysis for each  *)
(* file that is not skipped, and the signals the agents' rules work with.  *)
(*                                                                         *)
(* Of a file's syntax tree the model has the nodes the parser looks for,   *)
(* in preorder; an import statement is an atom with the attributes the     *)
(* substring tests on its text would find.                                 *)
(***************************************************************************)
EXTENDS RepositoryManifest

CONSTANTS
    Import,             \* Import[t]: what there is to know of the import statement t
    Grammars,           \* keys of the Tree-sitter grammars that could be loaded
    FanInThreshold,     \* HIGH_COUPLING_FAN_IN_THRESHOLD
    FanOutThreshold     \* HIGH_COUPLING_FAN_OUT_THRESHOLD

ASSUME ThresholdAssumption == FanInThreshold \in Nat /\ FanOutThreshold \in Nat

-----------------------------------------------------------------------------
(* One file                                                                *)

\* _EXTENSION_TO_LANG_KEY: the grammar is chosen by the extension.
LangKey ==
    [ext \in GrammarExtensions |->
        IF ext = ".tsx" THEN "TypeScriptX" ELSE LanguageOf[ext]]

\* _load_languages: a grammar whose package is not installed or does not load is
\* left out without a word. The two of TypeScript come in one package.
GrammarsLoadable == {"Python", "JavaScript", "TypeScript", "TypeScriptX", "Go"}

ASSUME GrammarAssumption ==
    /\ Grammars \subseteq GrammarsLoadable
    /\ "TypeScript" \in Grammars <=> "TypeScriptX" \in Grammars

\* _IMPORT_NODE_TYPES and _DEFINITION_NODE_TO_KIND, by the language of the entry. The
\* specifications in a Go import declaration are listed beside the declaration.
ImportNodes == [Python     |-> {"import_statement", "import_from_statement"},
                JavaScript |-> {"import_statement", "import_declaration"},
                TypeScript |-> {"import_statement", "import_declaration"},
                Go         |-> {"import_declaration", "import_spec"}]

DefinitionNodes ==
    LET script == {"function_declaration", "arrow_function", "class_declaration",
                   "method_definition"}
    IN  [Python     |-> {"function_definition", "class_definition"},
         JavaScript |-> script,
         TypeScript |-> script,
         Go         |-> {"function_declaration", "method_declaration"}]

\* _EXPORT_NODE_TYPES: neither Python nor Go has an entry.
ExportNodes == [Python |-> {}, Go |-> {}, JavaScript |-> {"export_statement"},
                TypeScript |-> {"export_statement"}]

\* _walk over the syntax tree.
NodesOf(tree, types) == SelectSeq(tree, LAMBDA node : node.type \in types)

\* _extract_imports: the text of each import.
ImportList(tree, language) ==
    LET found == NodesOf(tree, ImportNodes[language])
    IN  [i \in DOMAIN found |-> found[i].text]

\* _collect_definitions: nested ones too, but none without a name of its own, such as
\* an arrow function.
Definitions(tree, language) ==
    SelectSeq(NodesOf(tree, DefinitionNodes[language]), LAMBDA node : node.named)

\* _unparseable: the analysis of a file whose grammar is missing.
Unparseable(entry) ==
    [path |-> entry.path, language |-> entry.language, test |-> entry.test,
     imports |-> <<>>, definitions |-> <<>>, exports |-> 0, parsed |-> FALSE]

\* _parse_bytes: a file with syntax errors is not parsed, yet what could be made out
\* of it is kept.
ParseBytes(entry, tree, broken) ==
    [path        |-> entry.path,
     language    |-> entry.language,
     test        |-> entry.test,
     imports     |-> ImportList(tree, entry.language),
     definitions |-> Definitions(tree, entry.language),
     exports     |-> Len(NodesOf(tree, ExportNodes[entry.language])),
     parsed      |-> ~broken]

\* parse_file_bytes on what _read_file_bytes gives: of a file that cannot be read
\* no bytes, which is a text without errors.
ParseFileBytes(entry, unreadable) ==
    CASE LangKey[Source[entry.path].ext] \notin Grammars -> Unparseable(entry)
      [] LangKey[Source[entry.path].ext] \in Grammars /\ entry.path \in unreadable ->
             ParseBytes(entry, <<>>, FALSE)
      [] OTHER -> ParseBytes(entry, Source[entry.path].tree, Source[entry.path].broken)

-----------------------------------------------------------------------------
(* Signals across the files                                                *)

PathsOf(analyses) == {analyses[i].path : i \in DOMAIN analyses}

ImportsOf(analysis) == {analysis.imports[i] : i \in DOMAIN analysis.imports}

\* _looks_local: the text begins with a dot, as no import statement of Python does but the
\* spec of a dot import in Go, or it is `import` or `from` and a module that is a file or
\* a directory at the root of the repository.
LooksLocal(t, paths) ==
    \/ Import[t].dotted
    \/ Import[t].root # "none" /\ \E p \in paths : Source[p].root = Import[t].root

LocalImports(analysis, paths) ==
    SelectSeq(analysis.imports, LAMBDA t : LooksLocal(t, paths))

\* The import statements of the repository that are counted for `key`. They are
\* counted by their text, and looked up by path, which no statement is equal to.
FanIn(analyses, key) ==
    FoldSeq(LAMBDA a, n : n + Len(SelectSeq(LocalImports(a, PathsOf(analyses)),
                                            LAMBDA t : t = key)),
            0, analyses)

\* high_coupling_files, each with its coupling type; their order is that of a set of
\* strings, which differs from one process to the next.
HighCoupling(analyses) ==
    LET fanOut(a) == Len(LocalImports(a, PathsOf(analyses)))
        type(a)   == CASE FanIn(analyses, a.path) > FanInThreshold
                            /\ fanOut(a) > FanOutThreshold    -> "BOTH"
                       [] FanIn(analyses, a.path) > FanInThreshold
                            /\ fanOut(a) <= FanOutThreshold   -> "HIGH_FAN_IN"
                       [] FanIn(analyses, a.path) <= FanInThreshold
                            /\ fanOut(a) > FanOutThreshold    -> "HIGH_FAN_OUT"
                       [] OTHER -> "none"
    IN  {c \in {[file |-> analyses[i].path, type |-> type(analyses[i])] :
                   i \in DOMAIN analyses} : c.type # "none"}

\* _detect_cycle_indicators: the files of each pair whose imports mention each other,
\* by path or by stem, local or not.
Mentions(a, b) == \E t \in ImportsOf(a) : b.path \in Import[t].mentions

Cycles(analyses) ==
    {a.path : a \in {x \in ToSet(analyses) :
                        \E y \in ToSet(analyses) \ {x} : Mentions(x, y) /\ Mentions(y, x)}}

\* The first name of layer_order that a path or an import contains.
LayerOrder == <<"domain", "infrastructure", "application", "api", "presentation">>

\* _detect_direction_violations: an import of a layer before the importer's own in
\* layer_order; the same statement twice is two of them.
DirectionViolations(analyses) ==
    LET before(t, a) == \E importer, imported \in DOMAIN LayerOrder :
                           /\ Source[a.path].layer = LayerOrder[importer]
                           /\ Import[t].layer = LayerOrder[imported]
                           /\ imported < importer
    IN  UNION {{[importer |-> a.path, statement |-> k] :
                   k \in {k \in DOMAIN a.imports : before(a.imports[k], a)}} :
                 a \in ToSet(analyses)}

CrossFileSignals(analyses) ==
    [coupling   |-> HighCoupling(analyses),
     cycles     |-> Cycles(analyses),
     violations |-> DirectionViolations(analyses)]

-----------------------------------------------------------------------------
(* Architecture and quality signals                                        *)

\* _detect_directory_conventions.
Conventions(analyses) == UNION {Source[p].dirs : p \in PathsOf(analyses)}

\* The members of enums.ArchitecturePattern and of enums.NamingConsistencySignal.
\* The signal extractors name three more, which raises AttributeError.
ArchitecturePatterns == {"LAYERED", "MVC", "HEXAGONAL", "SERVICE_BASED",
                         "MONOLITH_UNDIFFERENTIATED", "UNKNOWN"}
NamingConsistencies == {"CONSISTENT", "INCONSISTENT", "UNKNOWN"}

\* _classify_patterns: an indicator for each pattern with evidence.
PatternIndicators(analyses) ==
    LET dirs     == Conventions(analyses)
        layered  == Cardinality({d \in {{"controllers", "views"}, {"models"}, {"repositories"}} :
                                   d \cap dirs # {}})
        domain   == Cardinality(dirs \cap {"domain", "entities", "usecases", "interfaces"})
        services == Cardinality({p \in PathsOf(analyses) : Source[p].service})
    IN  {i \in {[pattern  |-> "LAYERED", evidence |-> layered,
                 strength |-> IF layered >= 2 THEN "STRONG" ELSE "WEAK"],
                [pattern  |-> "DOMAIN_DRIVEN", evidence |-> domain,
                 strength |-> IF domain >= 3 THEN "STRONG" ELSE "MODERATE"],
                [pattern  |-> "SERVICE_ORIENTED", evidence |-> IF services >= 3 THEN 1 ELSE 0,
                 strength |-> "WEAK"]} : i.evidence > 0}

\* _assess_cohesion: below 5 percent of the files HIGH, below 20 percent MEDIUM.
Cohesion(analyses, cross) ==
    LET penalty == Cardinality(cross.coupling) + 2 * Cardinality(cross.cycles)
                     + Cardinality(cross.violations)
    IN  CASE 20 * penalty < Len(analyses) -> "HIGH"
          [] 20 * penalty >= Len(analyses) /\ 5 * penalty < Len(analyses) -> "MEDIUM"
          [] OTHER -> "LOW"

\* test_coverage_signal: 10 and 30 percent of the files are tests.
TestCoverage(analyses) ==
    LET tests == Len(SelectSeq(analyses, LAMBDA a : a.test))
    IN  CASE 10 * tests >= 3 * Len(analyses) -> "PRESENT"
          [] 10 * tests < 3 * Len(analyses) /\ 10 * tests >= Len(analyses) -> "PARTIAL"
          [] OTHER -> "ABSENT"

\* _assess_naming_consistency: the share of the commoner of two styles.
NamingConsistency(analyses) ==
    LET count(style) == Cardinality({p \in PathsOf(analyses) : Source[p].naming = style})
        total    == count("snake") + count("camel")
        dominant == Max({count("snake"), count("camel")})
    IN  CASE 100 * dominant >= 85 * total -> "CONSISTENT"
          [] 100 * dominant < 85 * total /\ 100 * dominant >= 60 * total -> "MIXED"
          [] OTHER -> "INCONSISTENT"

\* _detect_dead_code_indicators: files that export something no import mentions.
DeadCode(analyses) ==
    {a.path : a \in {x \in ToSet(analyses) :
        /\ ~x.test
        /\ x.exports > 0
        /\ \A y \in ToSet(analyses) : ~Mentions(y, x)}}

QualitySignals(analyses) ==
    LET lines(a) == FoldSeq(LAMBDA d, n : d.lines + n, 0, a.definitions)
    IN  [coverage   |-> TestCoverage(analyses),
         naming     |-> NamingConsistency(analyses),
         largeFiles |-> {a.path : a \in {x \in ToSet(analyses) : lines(x) > 300}},
         largeFunctions |->
             UNION {{<<a.path, k>> : k \in {k \in DOMAIN a.definitions :
                                               \/ a.definitions[k].lines > 60
                                               \/ a.definitions[k].params > 8}} :
                       a \in ToSet(analyses)},
         dead       |-> DeadCode(analyses)]
=============================================================================
