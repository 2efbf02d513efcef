------------------------- MODULE RepositoryManifest -------------------------
(***************************************************************************)
(* What IngestNode makes of a clone: the RepositoryManifest, a list of the *)
(* files with the reason why each one is left out of the analysis, and the *)
(* counts by language that the report shows.                               *)
(*                                                                         *)
(* Pure operators: ReportPipeline turns them into the first step of a run. *)
(***************************************************************************)
EXTENDS Listing, SequencesExt

CONSTANTS
    Source,             \* Source[f]: what there is to know of the file with path f
    MaxAnalyzableFiles  \* MAX_ANALYZABLE_FILES of config/constants.py

ASSUME ManifestAssumption == MaxAnalyzableFiles \in Nat \ {0}

-----------------------------------------------------------------------------
(* Languages                                                               *)

\* _EXTENSION_TO_LANGUAGE, one extension of each kind that is treated alike; of the
\* languages without a grammar Java stands for all.
LanguageOf ==
    [ext \in {".py", ".ts", ".tsx", ".js", ".go", ".java"} |->
        CASE ext = ".py"              -> "Python"
          [] ext \in {".ts", ".tsx"} -> "TypeScript"
          [] ext = ".js"              -> "JavaScript"
          [] ext = ".go"              -> "Go"
          [] ext = ".java"            -> "Java"]

\* _GRAMMAR_SUPPORTED_EXTENSIONS.
GrammarExtensions == {".py", ".ts", ".tsx", ".js", ".go"}

Languages == {LanguageOf[x] : x \in DOMAIN LanguageOf} \union {"Unknown"}

-----------------------------------------------------------------------------
(* Entries                                                                 *)

SkipReasons == {"none", "extension", "grammar", "size", "limit"}

\* Why build_manifest leaves a file out of the analysis, the first reason that holds.
SkipReason(f) ==
    CASE Source[f].ext \notin DOMAIN LanguageOf     -> "extension"
      [] Source[f].ext \in DOMAIN LanguageOf \ GrammarExtensions -> "grammar"
      [] Source[f].ext \in GrammarExtensions /\ Source[f].oversize -> "size"
      [] OTHER -> "none"

\* A FileEntry.
Entry(f) ==
    [path     |-> f,
     language |-> IF Source[f].ext \in DOMAIN LanguageOf
                  THEN LanguageOf[Source[f].ext] ELSE "Unknown",
     test     |-> Source[f].test,
     reason   |-> SkipReason(f)]

Analyzable(entry) == entry.reason = "none"

AnalyzableOf(entries) == Only(entries, {e \in ToSet(entries) : Analyzable(e)})

SkippedOf(entries) == Only(entries, {e \in ToSet(entries) : ~Analyzable(e)})

\* os.walk: a file whose stat fails, as a dangling link, gets no entry at all.
EntriesOf(walk) ==
    LET seen == Only(walk, {f \in ToSet(walk) : ~Source[f].dangling})
    IN  [i \in DOMAIN seen |-> Entry(seen[i])]

-----------------------------------------------------------------------------
(* The limit on the files analysed, and the statistics                     *)

\* _trim_to_limit: the first files of the walk are kept, those over the limit come
\* after them, marked, and the files that were skipped before come last.
TrimToLimit(entries) ==
    LET analyzable == AnalyzableOf(entries)
        kept   == SubSeq(analyzable, 1, MaxAnalyzableFiles)
        excess == SubSeq(analyzable, MaxAnalyzableFiles + 1, Len(analyzable))
        marked == [i \in DOMAIN excess |-> [excess[i] EXCEPT !.reason = "limit"]]
    IN  IF Len(analyzable) <= MaxAnalyzableFiles THEN entries
        ELSE kept \o marked \o SkippedOf(entries)

\* language_file_counts, of the entries as they were before any was trimmed.
LanguageCounts(entries) ==
    LET analyzable == AnalyzableOf(entries)
    IN  [lang \in {analyzable[i].language : i \in DOMAIN analyzable} |->
            Cardinality({i \in DOMAIN analyzable : analyzable[i].language = lang})]

\* _pick_primary_language: max over a dict, the first one counted wins a tie.
PrimaryLanguage(entries) ==
    LET counts == LanguageCounts(entries)
        most   == {i \in DOMAIN AnalyzableOf(entries) :
                     \A lang \in DOMAIN counts :
                        counts[lang] <= counts[AnalyzableOf(entries)[i].language]}
    IN  IF most = {} THEN "Unknown" ELSE AnalyzableOf(entries)[Min(most)].language

\* build_manifest: the trimming comes before the statistics, which are not done
\* again; a language without files is added when no file can be analysed.
BuildManifest(walk) ==
    LET entries == EntriesOf(walk)
        files   == TrimToLimit(entries)
        primary == PrimaryLanguage(entries)
        counts  == LanguageCounts(entries)
    IN  [files      |-> files,
         languages  |-> [lang \in DOMAIN counts \union {primary} |->
                            IF lang \in DOMAIN counts THEN counts[lang] ELSE 0],
         primary    |-> primary,
         total      |-> Len(files),
         analyzable |-> Len(AnalyzableOf(files)),
         skipped    |-> Len(SkippedOf(files))]

-----------------------------------------------------------------------------
(* The record                                                              *)

\* The constraints and validators of RepositoryManifest. A manifest of no file is
\* refused: total_file_count is at least one.
ValidManifest(m) ==
    /\ m.total >= 1
    /\ m.analyzable <= m.total
    /\ m.primary \in DOMAIN m.languages

\* The constraint of FileEntry: what is skipped has a reason, what is not has none.
ManifestTypeOK(m) ==
    /\ \A i \in DOMAIN m.files :
          /\ m.files[i].path \in DOMAIN Source
          /\ m.files[i].language \in Languages
          /\ m.files[i].reason \in SkipReasons
    /\ m.languages \in [DOMAIN m.languages -> Nat]
    /\ m.primary \in Languages

=============================================================================
