-------------------------- MODULE ReportData_proofs --------------------------
(***************************************************************************)
(* What the services compute, for any clone and any answers of Gemini: the *)
(* lemmas on the operators of the modules from RepositoryManifest to       *)
(* ReportAssembly that the theorems on ReportPipeline rest on.             *)
(***************************************************************************)
EXTENDS ReportAssembly, Listing_proofs

-----------------------------------------------------------------------------
(* The manifest                                                            *)

\* The languages with a grammar.
ParsedLanguages == {"Go", "JavaScript", "Python", "TypeScript"}

\* The entries there can be: what is analysed is in a language with a grammar.
FileEntries ==
    {e \in [path : DOMAIN Source, language : Languages,
            test : {Source[f].test : f \in DOMAIN Source}, reason : SkipReasons] :
        e.reason = "none" => e.language \in ParsedLanguages}

\* What the languages are.
LEMMA LanguageValues ==
    /\ \A ext \in DOMAIN LanguageOf : LanguageOf[ext] \in Languages
    /\ \A ext \in GrammarExtensions : ext \in DOMAIN LanguageOf /\ LanguageOf[ext] \in ParsedLanguages
    /\ "Unknown" \in Languages
  BY DEF LanguageOf, Languages, GrammarExtensions, ParsedLanguages

\* The entry of a file is one of these.
LEMMA EntryType ==
    ASSUME NEW f \in DOMAIN Source
    PROVE  Entry(f) \in FileEntries
  <1>1. SkipReason(f) \in SkipReasons
    BY DEF SkipReason, SkipReasons
  <1>2. SkipReason(f) = "none" => Source[f].ext \in GrammarExtensions
    BY DEF SkipReason
  <1> QED
    BY <1>1, <1>2, LanguageValues DEF Entry, FileEntries

\* The files a clone has, and the parts of its list of entries.
LEMMA EntriesProperties ==
    ASSUME NEW walk \in Seq(DOMAIN Source)
    PROVE  /\ EntriesOf(walk) \in Seq(FileEntries)
           /\ Len(EntriesOf(walk)) = Cardinality({i \in DOMAIN walk : ~Source[walk[i]].dangling})
  <1> DEFINE there == {f \in ToSet(walk) : ~Source[f].dangling}
             seen  == Only(walk, there)
  <1>1. DOMAIN walk = 1..Len(walk) /\ \A i \in 1..Len(walk) : walk[i] \in DOMAIN Source
    BY LenProperties, ElementOfSeq
  <1>2. {i \in 1..Len(walk) : walk[i] \in there} = {i \in DOMAIN walk : ~Source[walk[i]].dangling}
    BY <1>1 DEF ToSet
  <1> HIDE DEF there
  <1>3. /\ seen \in Seq(DOMAIN Source)
        /\ Len(seen) = Cardinality({i \in DOMAIN walk : ~Source[walk[i]].dangling})
    <2>1. /\ seen \in Seq(DOMAIN Source)
          /\ Len(seen) = Cardinality({i \in 1..Len(walk) : walk[i] \in there})
      BY OnlyProperties
    <2> QED
      BY <1>2, <2>1
  <1>4. EntriesOf(walk) = [i \in DOMAIN seen |-> Entry(seen[i])]
    BY DEF EntriesOf, there
  <1> HIDE DEF seen
  <1>5. DOMAIN seen = 1..Len(seen) /\ Len(seen) \in Nat
           /\ \A i \in 1..Len(seen) : seen[i] \in DOMAIN Source
    BY <1>3, LenProperties, ElementOfSeq
  <1>6. EntriesOf(walk) \in [1..Len(seen) -> FileEntries]
    BY <1>4, <1>5, EntryType
  <1> QED
    BY <1>3, <1>5, <1>6, ListedSeq

\* Each entry of a list is analysed or skipped.
LEMMA EntriesPartition ==
    ASSUME NEW entries \in Seq(FileEntries)
    PROVE  /\ AnalyzableOf(entries) \in Seq(FileEntries)
           /\ SkippedOf(entries) \in Seq(FileEntries)
           /\ Len(AnalyzableOf(entries)) \in Nat
           /\ Len(SkippedOf(entries)) \in Nat
           /\ Len(AnalyzableOf(entries)) + Len(SkippedOf(entries)) = Len(entries)
           /\ \A i \in 1..Len(AnalyzableOf(entries)) : AnalyzableOf(entries)[i].reason = "none"
  <1> DEFINE A == {e \in ToSet(entries) : Analyzable(e)}
             B == {e \in ToSet(entries) : ~Analyzable(e)}
  <1>1. AnalyzableOf(entries) = Only(entries, A) /\ SkippedOf(entries) = Only(entries, B)
    BY DEF AnalyzableOf, SkippedOf
  <1>2. \A i \in 1..Len(entries) : entries[i] \in A <=> entries[i] \notin B
    BY LenProperties DEF ToSet
  <1>3. \A e \in A : e.reason = "none"
    BY DEF Analyzable
  <1> HIDE DEF A, B
  <1>4. Len(Only(entries, A)) + Len(Only(entries, B)) = Len(entries)
    BY <1>2, OnlyPartition
  <1>5. /\ Only(entries, A) \in Seq(FileEntries)
        /\ Only(entries, B) \in Seq(FileEntries)
        /\ Keeps(Only(entries, A), entries, A)
    BY OnlyProperties
  <1> QED
    BY <1>1, <1>3, <1>4, <1>5, LenProperties DEF Keeps

\* No entry is lost when the list is trimmed.
LEMMA TrimProperties ==
    ASSUME NEW entries \in Seq(FileEntries)
    PROVE  /\ TrimToLimit(entries) \in Seq(FileEntries)
           /\ Len(TrimToLimit(entries)) = Len(entries)
  <1> DEFINE a      == AnalyzableOf(entries)
             m      == MaxAnalyzableFiles
             kept   == SubSeq(a, 1, m)
             excess == SubSeq(a, m + 1, Len(a))
             marked == [i \in DOMAIN excess |-> [excess[i] EXCEPT !.reason = "limit"]]
             rest   == SkippedOf(entries)
  <1>1. m \in Nat
    BY ManifestAssumption
  <1>2. /\ a \in Seq(FileEntries) /\ rest \in Seq(FileEntries)
        /\ Len(a) \in Nat /\ Len(rest) \in Nat
        /\ Len(a) + Len(rest) = Len(entries)
    BY EntriesPartition
  <1>3. CASE Len(a) <= m
    BY <1>3 DEF TrimToLimit
  <1>4. CASE ~(Len(a) <= m)
    <2>1. TrimToLimit(entries) = kept \o marked \o rest
      BY <1>4 DEF TrimToLimit
    <2> HIDE DEF a, rest, m
    <2>2. \A i \in 1..Len(a) : a[i] \in FileEntries
      BY <1>2, ElementOfSeq
    <2>3. kept \in Seq(FileEntries) /\ Len(kept) = m
      <3>1. \A i \in 1..m : a[i] \in FileEntries
        BY <1>1, <1>2, <1>4, <2>2
      <3> QED
        BY <1>1, <1>2, <1>4, <3>1, SubSeqProperties
    <2>4. excess \in Seq(FileEntries) /\ Len(excess) = Len(a) - m
      <3>1. \A i \in (m + 1)..Len(a) : a[i] \in FileEntries
        BY <1>1, <1>2, <2>2
      <3> QED
        BY <1>1, <1>2, <1>4, <3>1, SubSeqProperties
    <2> HIDE DEF kept, excess
    <2>5. DOMAIN excess = 1..Len(excess) /\ Len(excess) \in Nat
             /\ \A i \in 1..Len(excess) : excess[i] \in FileEntries
      BY <2>4, LenProperties, ElementOfSeq
    <2>6. \A e \in FileEntries : [e EXCEPT !.reason = "limit"] \in FileEntries
      BY DEF FileEntries, SkipReasons
    <2>7. marked \in [1..Len(excess) -> FileEntries]
      BY <2>5, <2>6
    <2>8. marked \in Seq(FileEntries) /\ Len(marked) = Len(a) - m
      <3> HIDE DEF marked
      <3> QED
        BY <2>4, <2>5, <2>7, SeqDef, LenProperties
    <2> HIDE DEF marked
    <2>9. kept \o marked \in Seq(FileEntries) /\ Len(kept \o marked) = Len(a)
      BY <1>1, <1>2, <2>3, <2>8, ConcatProperties
    <2> DEFINE front == kept \o marked
    <2>10. front \in Seq(FileEntries) /\ Len(front) = Len(a)
      BY <2>9
    <2>11. TrimToLimit(entries) = front \o rest
      BY <2>1
    <2> HIDE DEF front
    <2>12. front \o rest \in Seq(FileEntries) /\ Len(front \o rest) = Len(front) + Len(rest)
      BY <1>2, <2>10, ConcatProperties
    <2> QED
      BY <1>2, <2>10, <2>11, <2>12
  <1> QED
    BY <1>3, <1>4

\* A finite set of numbers that is not empty has a least one.
LEMMA MinOfFinite ==
    ASSUME NEW S \in SUBSET Nat, IsFiniteSet(S), S # {}
    PROVE  Min(S) \in S
  <1> DEFINE before == {p \in S \X S : p[1] < p[2]}
             order  == InOrder(S, before)
             n      == Cardinality(S)
  <1>1. Orders(before, S)
    BY DEF Orders
  <1>2. n \in Nat /\ n # 0
    BY FS_CardinalityType, FS_EmptySet
  <1>3. /\ Lists(order, S)
        /\ Len(order) = n
        /\ \A i, j \in 1..n : i < j => <<order[i], order[j]>> \in before
    <2> HIDE DEF before
    <2> QED
      BY <1>1, InOrderLists
  <1>4. /\ \A i \in 1..n : order[i] \in S
        /\ \A x \in S : \E i \in 1..n : order[i] = x
    <2> HIDE DEF order, n
    <2> QED
      BY <1>3, ElementOfSeq DEF Lists
  <1>5. order[1] \in S /\ \A x \in S : order[1] <= x
    <2> HIDE DEF order, n
    <2>1. 1 \in 1..n
      BY <1>2
    <2> SUFFICES ASSUME NEW x \in S PROVE order[1] <= x
      BY <1>4, <2>1
    <2>2. PICK i \in 1..n : order[i] = x
      BY <1>4
    <2>3. CASE i = 1
      BY <1>4, <2>1, <2>2, <2>3
    <2>4. CASE i # 1
      <3>1. <<order[1], order[i]>> \in before
        BY <1>2, <1>3, <2>1, <2>4
      <3>2. order[1] < order[i]
        BY <3>1
      <3>3. order[1] \in Nat /\ order[i] \in Nat
        BY <1>4, <2>1
      <3> QED
        BY <2>2, <3>2, <3>3
    <2> QED
      BY <2>3, <2>4
  <1> HIDE DEF order
  <1> QED
    BY <1>5 DEF Min

\* The counts of a list of entries, and the language that has most of them.
LEMMA LanguageProperties ==
    ASSUME NEW entries \in Seq(FileEntries)
    PROVE  /\ \A lang \in DOMAIN LanguageCounts(entries) : LanguageCounts(entries)[lang] \in Nat
           /\ PrimaryLanguage(entries) \in Languages
  <1> DEFINE a      == AnalyzableOf(entries)
             counts == LanguageCounts(entries)
             most   == {i \in DOMAIN a :
                          \A lang \in DOMAIN counts : counts[lang] <= counts[a[i].language]}
  <1>1. a \in Seq(FileEntries)
    BY EntriesPartition
  <1>2. DOMAIN a = 1..Len(a) /\ Len(a) \in Nat /\ \A i \in 1..Len(a) : a[i] \in FileEntries
    BY <1>1, LenProperties, ElementOfSeq
  <1>3. IsFiniteSet(DOMAIN a)
    <2>1. ASSUME NEW n \in Nat
          PROVE  IsFiniteSet(1..n)
      BY FS_Interval
    <2> QED
      BY <1>2, <2>1
  <1>4. counts = [lang \in {a[i].language : i \in DOMAIN a} |->
                     Cardinality({i \in DOMAIN a : a[i].language = lang})]
    BY DEF LanguageCounts
  <1>5. \A lang \in DOMAIN counts : counts[lang] \in Nat
    <2> HIDE DEF a, counts
    <2> SUFFICES ASSUME NEW lang \in DOMAIN counts PROVE counts[lang] \in Nat
      OBVIOUS
    <2> DEFINE held == {i \in DOMAIN a : a[i].language = lang}
    <2>1. IsFiniteSet(held)
      BY <1>3, FS_Subset
    <2>2. Cardinality(held) \in Nat
      BY <2>1, FS_CardinalityType
    <2> QED
      BY <1>4, <2>2
  <1>6. PrimaryLanguage(entries) = IF most = {} THEN "Unknown" ELSE a[Min(most)].language
    BY DEF PrimaryLanguage
  <1>7. most \in SUBSET DOMAIN a
    OBVIOUS
  <1> HIDE DEF a, counts, most
  <1>8. most # {} => Min(most) \in most
    BY <1>2, <1>3, <1>7, FS_Subset, MinOfFinite
  <1>9. PrimaryLanguage(entries) \in Languages
    BY <1>2, <1>6, <1>7, <1>8, LanguageValues DEF FileEntries
  <1> QED
    BY <1>5, <1>9 DEF counts

\* The manifest of a clone: its types, and that its files are all counted.
LEMMA ManifestProperties ==
    ASSUME NEW walk \in Seq(DOMAIN Source)
    PROVE  LET m == BuildManifest(walk)
           IN  /\ ManifestTypeOK(m)
               /\ m.files \in Seq(FileEntries)
               /\ m.total = Len(m.files)
               /\ m.total = Cardinality({i \in DOMAIN walk : ~Source[walk[i]].dangling})
               /\ m.analyzable = Len(AnalyzableOf(m.files))
               /\ m.analyzable + m.skipped = m.total
               /\ m.analyzable \in Nat /\ m.skipped \in Nat
               /\ m # None
  <1> DEFINE entries == EntriesOf(walk)
             files   == TrimToLimit(entries)
             primary == PrimaryLanguage(entries)
             counts  == LanguageCounts(entries)
             langs   == [lang \in DOMAIN counts \union {primary} |->
                            IF lang \in DOMAIN counts THEN counts[lang] ELSE 0]
             m       == BuildManifest(walk)
  <1>1. m = [files |-> files, languages |-> langs, primary |-> primary, total |-> Len(files),
             analyzable |-> Len(AnalyzableOf(files)), skipped |-> Len(SkippedOf(files))]
    BY DEF BuildManifest
  <1>2. /\ entries \in Seq(FileEntries)
        /\ Len(entries) = Cardinality({i \in DOMAIN walk : ~Source[walk[i]].dangling})
    BY EntriesProperties
  <1> HIDE DEF entries, m
  <1>3. files \in Seq(FileEntries) /\ Len(files) = Len(entries)
    BY <1>2, TrimProperties
  <1>4. /\ \A lang \in DOMAIN counts : counts[lang] \in Nat
        /\ primary \in Languages
    BY <1>2, LanguageProperties
  <1> HIDE DEF files, primary, counts
  <1>5. langs \in [DOMAIN langs -> Nat]
    BY <1>4
  <1>6. /\ Len(AnalyzableOf(files)) \in Nat
        /\ Len(SkippedOf(files)) \in Nat
        /\ Len(AnalyzableOf(files)) + Len(SkippedOf(files)) = Len(files)
    BY <1>3, EntriesPartition
  <1>7. \A i \in DOMAIN files : files[i] \in FileEntries
    BY <1>3, LenProperties, ElementOfSeq
  <1> HIDE DEF langs
  <1>8. ManifestTypeOK(m)
    BY <1>1, <1>4, <1>5, <1>7 DEF ManifestTypeOK, FileEntries
  <1>9. m # None
    BY <1>1 DEF None
  <1> QED
    BY <1>1, <1>2, <1>3, <1>6, <1>8, <1>9 DEF m

\* The manifest is refused for nothing but a clone without a readable file.
LEMMA RefusedManifest ==
    ASSUME NEW walk \in Seq(DOMAIN Source), ~ValidManifest(BuildManifest(walk))
    PROVE  \A i \in DOMAIN walk : Source[walk[i]].dangling
  <1> DEFINE m    == BuildManifest(walk)
             seen == {i \in DOMAIN walk : ~Source[walk[i]].dangling}
  <1>1. m.primary \in DOMAIN m.languages
    <2>1. /\ m.primary = PrimaryLanguage(EntriesOf(walk))
          /\ m.languages = [lang \in DOMAIN LanguageCounts(EntriesOf(walk))
                                       \union {PrimaryLanguage(EntriesOf(walk))} |->
                               IF lang \in DOMAIN LanguageCounts(EntriesOf(walk))
                               THEN LanguageCounts(EntriesOf(walk))[lang] ELSE 0]
      BY DEF BuildManifest
    <2> HIDE DEF m
    <2> QED BY <2>1
  <1>2. /\ m.total = Cardinality(seen)
        /\ m.analyzable + m.skipped = m.total
        /\ m.analyzable \in Nat /\ m.skipped \in Nat
    BY ManifestProperties
  <1>3. ~(m.total >= 1)
    BY <1>1, <1>2 DEF ValidManifest
  <1> HIDE DEF m
  <1>4. DOMAIN walk = 1..Len(walk) /\ Len(walk) \in Nat
    BY LenProperties
  <1>5. IsFiniteSet(seen)
    <2>1. IsFiniteSet(1..Len(walk))
      BY <1>4, FS_Interval
    <2> QED BY <1>4, <2>1, FS_Subset
  <1>6. seen = {}
    <2> HIDE DEF seen
    <2>1. Cardinality(seen) = 0
      BY <1>2, <1>3
    <2> QED BY <1>5, <2>1, FS_EmptySet
  <1> QED
    BY <1>6

-----------------------------------------------------------------------------
(* The parser                                                              *)

\* An analysis keeps of its entry the path and the language.
LEMMA AnalysisOfEntry ==
    ASSUME NEW entry, NEW unreadable
    PROVE  /\ ParseFileBytes(entry, unreadable).path = entry.path
           /\ ParseFileBytes(entry, unreadable).language = entry.language
  BY DEF ParseFileBytes, Unparseable, ParseBytes

\* What is parsed is among the analyses, and not every analysis need be.
LEMMA ParsedProperties ==
    ASSUME NEW T, NEW analyses \in Seq(T)
    PROVE  /\ ParsedOf(analyses) \in Seq(T)
           /\ Len(ParsedOf(analyses)) \in Nat
           /\ Len(ParsedOf(analyses)) <= Len(analyses)
           /\ DrawnFrom(ParsedOf(analyses), analyses)
  <1> DEFINE kept == {a \in ToSet(analyses) : a.parsed}
             P    == {i \in 1..Len(analyses) : analyses[i] \in kept}
  <1>1. ParsedOf(analyses) = Only(analyses, kept)
    BY DEF ParsedOf
  <1>2. P \in SUBSET (1..Len(analyses)) /\ Len(analyses) \in Nat
    BY LenProperties
  <1> HIDE DEF kept
  <1>3. /\ Only(analyses, kept) \in Seq(T)
        /\ Len(Only(analyses, kept)) = Cardinality(P)
        /\ Keeps(Only(analyses, kept), analyses, kept)
    BY OnlyProperties
  <1>4. ASSUME NEW n \in Nat, NEW S \in SUBSET (1..n)
        PROVE  Cardinality(S) \in Nat /\ Cardinality(S) <= n
    <2>1. IsFiniteSet(1..n) /\ Cardinality(1..n) = n
      BY FS_Interval
    <2> QED
      BY <2>1, FS_Subset, FS_CardinalityType
  <1> HIDE DEF P
  <1> QED
    BY <1>1, <1>2, <1>3, <1>4 DEF Keeps

\* The languages parsed are those of the files that parsed: there is one if there is a file.
LEMMA LanguagesOfParsed ==
    ASSUME NEW T, NEW analyses \in Seq(T), ParsedOf(analyses) # <<>>,
           \A i \in 1..Len(analyses) : analyses[i].language \in ParsedLanguages
    PROVE  Len(LanguagesParsed(analyses)) >= 1
  <1> DEFINE parsed == ParsedOf(analyses)
             names  == <<"Go", "JavaScript", "Python", "TypeScript">>
             found  == {a.language : a \in ToSet(parsed)}
  <1>1. /\ parsed \in Seq(T)
        /\ DrawnFrom(parsed, analyses)
    BY ParsedProperties
  <1>2. Len(parsed) \in Nat /\ Len(parsed) # 0
    BY <1>1, LenProperties, EmptySeq
  <1>3. 1 \in 1..Len(parsed) /\ parsed[1] \in ToSet(parsed)
    BY <1>1, <1>2, LenProperties DEF ToSet
  <1>4. parsed[1].language \in ParsedLanguages
    BY <1>1, <1>3 DEF DrawnFrom
  <1>5. parsed[1].language \in found
    BY <1>3
  <1>6. names \in Seq(ParsedLanguages) /\ Len(names) = 4
    BY DEF ParsedLanguages
  <1>7. PICK i \in 1..4 : names[i] = parsed[1].language
    BY <1>4 DEF ParsedLanguages
  <1>8. LanguagesParsed(analyses) = Only(names, found)
    BY DEF LanguagesParsed
  <1> HIDE DEF names, found
  <1>9. Keeps(Only(names, found), names, found) /\ Len(Only(names, found)) \in Nat
    BY <1>6, OnlyProperties, LenProperties
  <1>10. \E k \in 1..Len(Only(names, found)) : Only(names, found)[k] = names[i]
    BY <1>5, <1>6, <1>7, <1>9 DEF Keeps
  <1> QED
    BY <1>8, <1>9, <1>10

\* Sets of three and of four elements are finite.
LEMMA SmallSetsFinite ==
    ASSUME NEW a, NEW b, NEW c, NEW d
    PROVE  IsFiniteSet({a, b, c}) /\ IsFiniteSet({a, b, c, d})
  <1>1. IsFiniteSet({a})
    BY FS_Singleton
  <1>2. IsFiniteSet({a} \cup {b})
    BY <1>1, FS_AddElement
  <1>3. IsFiniteSet(({a} \cup {b}) \cup {c})
    BY <1>2, FS_AddElement
  <1>4. IsFiniteSet((({a} \cup {b}) \cup {c}) \cup {d})
    BY <1>3, FS_AddElement
  <1>5. ({a} \cup {b}) \cup {c} = {a, b, c} /\ {a, b, c} \cup {d} = {a, b, c, d}
    OBVIOUS
  <1> QED
    BY <1>3, <1>4, <1>5

\* Each indicator has evidence.
LEMMA IndicatorEvidence ==
    ASSUME NEW T, NEW analyses \in Seq(T)
    PROVE  \A i \in PatternIndicators(analyses) : i.evidence >= 1
  <1> DEFINE dirs     == Conventions(analyses)
             groups   == {{"controllers", "views"}, {"models"}, {"repositories"}}
             layered  == Cardinality({d \in groups : d \cap dirs # {}})
             words    == {"domain", "entities", "usecases", "interfaces"}
             domain   == Cardinality(dirs \cap words)
             services == Cardinality({p \in PathsOf(analyses) : Source[p].service})
  <1>1. layered \in Nat
    <2>1. IsFiniteSet(groups)
      BY SmallSetsFinite
    <2> QED
      BY <2>1, FS_Subset, FS_CardinalityType
  <1>2. domain \in Nat
    <2>1. IsFiniteSet(words)
      BY SmallSetsFinite
    <2> HIDE DEF words
    <2>2. IsFiniteSet(dirs \cap words)
      BY <2>1, FS_Intersection
    <2> QED
      BY <2>2, FS_CardinalityType
  <1>3. \A i \in PatternIndicators(analyses) :
           i.evidence \in {layered, domain, 0, 1} /\ i.evidence > 0
    BY DEF PatternIndicators
  <1> HIDE DEF layered, domain
  <1> QED
    BY <1>1, <1>2, <1>3

\* What the steps after the parser rely on: its counts add up to those of the manifest.
AgreesWithManifest(pcr, manifest) ==
    /\ pcr # None
    /\ pcr.metadata.parsed \in Nat
    /\ pcr.metadata.failed \in Nat
    /\ pcr.metadata.parsed + pcr.metadata.failed = manifest.analyzable
    /\ pcr.metadata.skipped = manifest.skipped

\* The analyses of the files sent to the parser.
LEMMA AnalysesProperties ==
    ASSUME NEW sent \in Seq(FileEntries), NEW unreadable,
           \A i \in 1..Len(sent) : sent[i].reason = "none"
    PROVE  LET analyses == AnalysesOf(sent, unreadable)
           IN  /\ analyses \in Seq({analyses[i] : i \in 1..Len(sent)})
               /\ Len(analyses) = Len(sent)
               /\ \A i \in 1..Len(analyses) : analyses[i].language \in ParsedLanguages
               /\ \A i \in 1..Len(analyses) : analyses[i].path \in DOMAIN Source
  <1> DEFINE analyses == AnalysesOf(sent, unreadable)
  <1>1. DOMAIN sent = 1..Len(sent) /\ Len(sent) \in Nat
           /\ \A i \in 1..Len(sent) : sent[i] \in FileEntries
    BY LenProperties, ElementOfSeq
  <1> DEFINE T == {analyses[i] : i \in 1..Len(sent)}
  <1>2. analyses \in [1..Len(sent) -> T]
    BY <1>1 DEF AnalysesOf
  <1> HIDE DEF T
  <1>3. analyses \in Seq(T) /\ Len(analyses) = Len(sent)
    BY <1>1, <1>2, ListedSeq
  <1>4. ASSUME NEW i \in 1..Len(sent)
        PROVE  /\ analyses[i].language \in ParsedLanguages
               /\ analyses[i].path \in DOMAIN Source
    <2>1. analyses[i] = ParseFileBytes(sent[i], unreadable)
      BY <1>1 DEF AnalysesOf
    <2>2. analyses[i].path = sent[i].path /\ analyses[i].language = sent[i].language
      BY <2>1, AnalysisOfEntry
    <2>3. sent[i] \in FileEntries /\ sent[i].reason = "none"
      BY <1>1
    <2> QED
      BY <2>2, <2>3 DEF FileEntries
  <1> QED
    BY <1>3, <1>4 DEF T

\* No validator of the representation refuses what build_pcr assembles, once a file has
\* parsed: it ends with a representation whose counts agree with the manifest.
LEMMA BuildPCRProperties ==
    ASSUME NEW manifest, manifest.files \in Seq(FileEntries),
           manifest.skipped \in Nat,
           manifest.analyzable + manifest.skipped = Len(manifest.files),
           NEW T, NEW analyses \in Seq(T), NEW unreadable,
           Len(analyses) = manifest.analyzable,
           \A i \in 1..Len(analyses) : analyses[i].language \in ParsedLanguages,
           ParsedOf(analyses) # <<>>
    PROVE  LET result == BuildPCR(manifest, analyses, unreadable)
           IN  result.error = "none" /\ AgreesWithManifest(result.value, manifest)
  <1> DEFINE cross    == CrossFileSignals(analyses)
             metadata == ParseMetadata(manifest, analyses)
             pcr      == [analyses   |-> analyses,
                          coupling   |-> cross.coupling,
                          cycles     |-> cross.cycles,
                          violations |-> cross.violations,
                          indicators |-> PatternIndicators(analyses),
                          cohesion   |-> Cohesion(analyses, cross),
                          conventions |-> Conventions(analyses),
                          security   |-> SecuritySignals(analyses, unreadable),
                          quality    |-> QualitySignals(analyses),
                          metadata   |-> metadata]
             parsed   == Len(ParsedOf(analyses))
  <1>1. BuildPCR(manifest, analyses, unreadable) =
           IF LanguagesParsed(analyses) = <<>> THEN Raised("PCRAssemblyError")
           ELSE ValidatedPCR(pcr)
    BY DEF BuildPCR
  <1>2. /\ pcr.analyses = analyses
        /\ pcr.indicators = PatternIndicators(analyses)
        /\ pcr.metadata = metadata
        /\ pcr # None
    BY DEF None
  <1> HIDE DEF pcr
  <1>3. /\ metadata.attempted = Len(manifest.files)
        /\ metadata.parsed = parsed
        /\ metadata.skipped = manifest.skipped
        /\ metadata.failed = Len(analyses) - parsed
        /\ metadata.languages = LanguagesParsed(analyses)
    BY DEF ParseMetadata
  <1> HIDE DEF metadata
  <1>4. /\ parsed \in Nat /\ parsed <= Len(analyses)
        /\ DOMAIN analyses = 1..Len(analyses) /\ Len(analyses) \in Nat
        /\ DrawnFrom(ParsedOf(analyses), analyses)
        /\ ParsedOf(analyses) \in Seq(T)
    BY ParsedProperties, LenProperties
  <1>5. parsed # 0
    BY <1>4, LenProperties, EmptySeq
  <1> HIDE DEF parsed
  <1>6. Len(analyses) # 0
    BY <1>4, <1>5
  <1>7. ValidParseMetadata(metadata)
    BY <1>3, <1>4, LanguagesOfParsed DEF ValidParseMetadata
  <1>8. LanguagesParsed(analyses) # <<>>
    <2>1. Len(LanguagesParsed(analyses)) >= 1
      BY LanguagesOfParsed
    <2>2. Len(<<>>) = 0
      OBVIOUS
    <2> QED BY <2>1, <2>2
  <1>9. analyses # <<>>
    BY <1>6, EmptySeq
  <1>10. ValidIndicators(pcr.indicators) /\ ValidParseMetadata(pcr.metadata)
    BY <1>2, <1>7, IndicatorEvidence DEF ValidIndicators
  <1>11. ValidPCR(pcr)
    BY <1>2, <1>9 DEF ValidPCR
  <1>12. AgreesWithManifest(pcr, manifest)
    BY <1>2, <1>3, <1>4 DEF AgreesWithManifest
  <1> QED
    BY <1>1, <1>8, <1>10, <1>11, <1>12 DEF Returned, ValidatedPCR

\* How the parser ends: with a representation, or with one of two exceptions.
LEMMA ParserProperties ==
    ASSUME NEW manifest, manifest.files \in Seq(FileEntries),
           manifest.skipped \in Nat,
           manifest.analyzable = Len(AnalyzableOf(manifest.files)),
           manifest.analyzable + manifest.skipped = Len(manifest.files),
           NEW unreadable
    PROVE  LET result == ParserRun(manifest, unreadable)
           IN  \/ result.error = "ZeroParseableFilesError"
               \/ /\ result.error = "AttributeError"
                  /\ NamesMissingMember(AnalysesOf(AnalyzableOf(manifest.files), unreadable))
               \/ result.error = "none" /\ AgreesWithManifest(result.value, manifest)
  <1> DEFINE sent     == AnalyzableOf(manifest.files)
             analyses == AnalysesOf(sent, unreadable)
             T        == {analyses[i] : i \in 1..Len(sent)}
             built    == BuildPCR(manifest, analyses, unreadable)
  <1>1. ParserRun(manifest, unreadable) =
           CASE ParsedOf(analyses) = <<>> -> Raised("ZeroParseableFilesError")
             [] ParsedOf(analyses) # <<>> /\ NamesMissingMember(analyses) ->
                    Raised("AttributeError")
             [] OTHER -> built
    BY DEF ParserRun
  <1>2. sent \in Seq(FileEntries) /\ \A i \in 1..Len(sent) : sent[i].reason = "none"
    BY EntriesPartition
  <1> HIDE DEF sent
  <1>3. /\ analyses \in Seq(T)
        /\ Len(analyses) = Len(sent)
        /\ \A i \in 1..Len(analyses) : analyses[i].language \in ParsedLanguages
        /\ \A i \in 1..Len(analyses) : analyses[i].path \in DOMAIN Source
    BY <1>2, AnalysesProperties
  <1> HIDE DEF analyses
  <1>4. analyses \in Seq(T)
    BY <1>3
  <1> HIDE DEF T
  <1>5. Len(analyses) = manifest.analyzable
    BY <1>3 DEF sent
  <1>6. ParsedOf(analyses) # <<>> => built.error = "none" /\ AgreesWithManifest(built.value, manifest)
    BY <1>3, <1>4, <1>5, BuildPCRProperties
  <1> HIDE DEF built
  <1> QED
    BY <1>1, <1>6 DEF Raised, analyses, sent

-----------------------------------------------------------------------------
(* The findings of the agents                                              *)

\* The greatest of some severities.
LEMMA GreatestSeverity ==
    ASSUME NEW S \in SUBSET (1..5), S # {}
    PROVE  Max(S) \in S /\ \A y \in S : y <= Max(S)
  <1> DEFINE x == CASE 5 \in S -> 5
                    [] 5 \notin S /\ 4 \in S -> 4
                    [] 5 \notin S /\ 4 \notin S /\ 3 \in S -> 3
                    [] 5 \notin S /\ 4 \notin S /\ 3 \notin S /\ 2 \in S -> 2
                    [] OTHER -> 1
  <1>1. x \in S /\ \A y \in S : x >= y
    OBVIOUS
  <1> HIDE DEF x
  <1>2. \E m \in S : \A y \in S : m >= y
    BY <1>1
  <1>3. Max(S) \in S /\ \A y \in S : Max(S) >= y
    BY <1>2 DEF Max
  <1> QED
    BY <1>3

\* What the severities are.
LEMMA SeverityValues ==
    /\ Severities = 1..5
    /\ Severity.CRITICAL = 5 /\ Severity.HIGH = 4 /\ Severity.MEDIUM = 3
    /\ Severity.LOW = 2 /\ Severity.INFO = 1
  <1>1. DOMAIN Severity = {"CRITICAL", "HIGH", "MEDIUM", "LOW", "INFO"}
    BY DEF Severity
  <1>2. /\ Severity.CRITICAL = 5 /\ Severity.HIGH = 4 /\ Severity.MEDIUM = 3
        /\ Severity.LOW = 2 /\ Severity.INFO = 1
    BY DEF Severity
  <1>3. Severities = {1, 2, 3, 4, 5}
    BY <1>1, <1>2 DEF Severities
  <1> QED
    BY <1>2, <1>3

\* A list of specs or of findings: numbered by their positions, of a known severity.
FindingList(kind, items) ==
    /\ items \in Seq({items[i] : i \in 1..Len(items)})
    /\ DOMAIN items = 1..Len(items)
    /\ Len(items) \in 0..6
    /\ \A i \in 1..Len(items) : items[i].id = <<kind, i>> /\ items[i].severity \in Severities

\* An answer as AnswersAssumption has it.
WordedAnswer(answer) ==
    \A id \in DOMAIN answer.texts : /\ answer.texts[id].description \in Nat
                                    /\ answer.texts[id].hint \in Nat

\* A set of positions up to six has at most six elements.
LEMMA AtMostSix ==
    ASSUME NEW n \in 0..6, NEW S \in SUBSET (1..n)
    PROVE  Cardinality(S) \in 0..6
  <1>1. ASSUME NEW m \in Nat, NEW U \in SUBSET (1..m)
        PROVE  Cardinality(U) \in Nat /\ Cardinality(U) <= m
    <2>1. IsFiniteSet(1..m) /\ Cardinality(1..m) = m
      BY FS_Interval
    <2> QED
      BY <2>1, FS_Subset, FS_CardinalityType
  <1> QED
    BY <1>1

\* The items are those of the rules at some positions, with the severities of the rules.
MadeByRules(items, rules, positions) ==
    /\ \A i \in positions :
          /\ NumberOf(i, positions) \in 1..Len(items)
          /\ items[NumberOf(i, positions)].severity = rules[i].severity
    /\ \A k \in 1..Len(items) : \E i \in positions : NumberOf(i, positions) = k

\* One spec for each rule found.
SpecsFor(kind, specs, found) ==
    /\ specs = [i \in DOMAIN found |-> specs[i]]
    /\ \A i \in DOMAIN found : specs[i].id = <<kind, i>> /\ specs[i].severity = found[i].severity

\* A list of specs that is made of what a comprehension keeps of some rules.
LEMMA SpecsOfRules ==
    ASSUME NEW kind, NEW R, NEW rules \in Seq(R), Len(rules) \in 0..6,
           \A i \in 1..Len(rules) : rules[i].severity \in Severities,
           NEW held, NEW specs, SpecsFor(kind, specs, Only(rules, held))
    PROVE  /\ FindingList(kind, specs)
           /\ MadeByRules(specs, rules, {i \in DOMAIN rules : rules[i] \in held})
  <1> DEFINE found == Only(rules, held)
             P     == {i \in DOMAIN rules : rules[i] \in held}
             n     == Len(rules)
  <1>1. DOMAIN rules = 1..n /\ P \in SUBSET DOMAIN rules
    BY LenProperties
  <1>2. found = At(rules, P)
    BY DEF Only
  <1> HIDE DEF P, found
  <1>3. found \in Seq(R) /\ Len(found) = Cardinality(P) /\ Numbered(found, rules, P)
    BY <1>1, <1>2, AtProperties, AtNumbered
  <1>4. DOMAIN found = 1..Len(found) /\ Len(found) \in 0..6
    BY <1>1, <1>3, AtMostSix, LenProperties
  <1>5. \A i \in P : rules[i].severity \in Severities
    BY <1>1
  <1>6. /\ specs = [i \in 1..Len(found) |-> specs[i]]
        /\ \A i \in 1..Len(found) : specs[i].id = <<kind, i>> /\ specs[i].severity = found[i].severity
    BY <1>4 DEF SpecsFor, found
  <1>7. /\ Len(specs) = Len(found) /\ DOMAIN specs = 1..Len(found)
        /\ specs \in Seq({specs[i] : i \in 1..Len(specs)})
    <2> DEFINE S == {specs[i] : i \in 1..Len(found)}
    <2>1. specs \in [1..Len(found) -> S]
      BY <1>6
    <2> HIDE DEF S
    <2>2. Len(specs) = Len(found) /\ specs \in Seq(S)
      BY <1>4, <2>1, ListedSeq
    <2> QED
      BY <2>1, <2>2 DEF S
  <1>8. \A k \in 1..Len(found) : specs[k].severity \in Severities
    BY <1>3, <1>5, <1>6 DEF Numbered
  <1>9. FindingList(kind, specs)
    BY <1>4, <1>6, <1>7, <1>8 DEF FindingList
  <1>10. MadeByRules(specs, rules, P)
    BY <1>3, <1>6, <1>7 DEF Numbered, MadeByRules
  <1> QED
    BY <1>9, <1>10 DEF P

\* The specs of the architecture agent: the rules that hold, in their order.
LEMMA WeaknessSpecsProperties ==
    ASSUME NEW pcr
    PROVE  /\ FindingList("AW", WeaknessSpecs(pcr))
           /\ MadeByRules(WeaknessSpecs(pcr), WeaknessRules(pcr),
                          {i \in DOMAIN WeaknessRules(pcr) : WeaknessRules(pcr)[i].holds})
  <1> DEFINE rules == WeaknessRules(pcr)
             R     == {rules[i] : i \in 1..5}
             held  == {rule \in ToSet(rules) : rule.holds}
             specs == WeaknessSpecs(pcr)
  <1>1. rules \in Seq(R) /\ Len(rules) = 5
           /\ \A i \in 1..5 : rules[i].severity \in Severities
    <2>1. Len(rules) = 5 /\ rules = [i \in 1..5 |-> rules[i]]
      BY DEF WeaknessRules
    <2>2. /\ rules[1].severity = 4 /\ rules[2].severity = 3 /\ rules[3].severity = 3
          /\ rules[4].severity = 3 /\ rules[5].severity = 2
      BY SeverityValues DEF WeaknessRules
    <2> HIDE DEF rules
    <2>3. rules \in [1..5 -> R]
      BY <2>1
    <2> HIDE DEF R
    <2>4. rules \in Seq(R)
      BY <2>3, ListedSeq
    <2>5. \A i \in 1..5 : i \in {1, 2, 3, 4, 5}
      OBVIOUS
    <2> QED
      BY <2>1, <2>2, <2>4, <2>5, SeverityValues
  <1>2. specs = [i \in DOMAIN Only(rules, held) |->
                    [id |-> <<"AW", i>>, title |-> Only(rules, held)[i].title,
                     severity |-> Only(rules, held)[i].severity]]
    BY DEF WeaknessSpecs
  <1> HIDE DEF R, rules, specs
  <1>3. {i \in DOMAIN rules : rules[i] \in held} = {i \in DOMAIN rules : rules[i].holds}
    BY DEF ToSet
  <1> HIDE DEF held
  <1>4. SpecsFor("AW", specs, Only(rules, held))
    BY <1>2 DEF SpecsFor
  <1>5. Len(rules) \in 0..6 /\ \A i \in 1..Len(rules) : rules[i].severity \in Severities
    BY <1>1
  <1>6. /\ FindingList("AW", specs)
        /\ MadeByRules(specs, rules, {i \in DOMAIN rules : rules[i] \in held})
    BY <1>1, <1>4, <1>5, SpecsOfRules
  <1> QED
    BY <1>3, <1>6 DEF specs, rules

\* The specs of the security agent, of the rules with a signal.
LEMMA FindingSpecsProperties ==
    ASSUME NEW signals
    PROVE  /\ FindingList("SF", FindingSpecs(signals))
           /\ MadeByRules(FindingSpecs(signals), FindingRules(signals),
                          {i \in DOMAIN FindingRules(signals) : FindingRules(signals)[i].count > 0})
  <1> DEFINE rules == FindingRules(signals)
             R     == {rules[i] : i \in 1..6}
             held  == {rule \in ToSet(rules) : rule.count > 0}
             specs == FindingSpecs(signals)
  <1>1. rules \in Seq(R) /\ Len(rules) = 6
           /\ \A i \in 1..6 : rules[i].severity \in Severities
    <2>1. Len(rules) = 6 /\ rules = [i \in 1..6 |-> rules[i]]
      BY DEF FindingRules
    <2>2. /\ rules[1].severity = 4 /\ rules[2].severity = 4 /\ rules[3].severity = 4
          /\ rules[4].severity = 3 /\ rules[5].severity = 3 /\ rules[6].severity = 2
      BY SeverityValues DEF FindingRules
    <2> HIDE DEF rules
    <2>3. rules \in [1..6 -> R]
      BY <2>1
    <2> HIDE DEF R
    <2>4. rules \in Seq(R)
      BY <2>3, ListedSeq
    <2>5. \A i \in 1..6 : i \in {1, 2, 3, 4, 5, 6}
      OBVIOUS
    <2> QED
      BY <2>1, <2>2, <2>4, <2>5, SeverityValues
  <1>2. specs = [i \in DOMAIN Only(rules, held) |->
                    [id |-> <<"SF", i>>, title |-> Only(rules, held)[i].title,
                     severity |-> Only(rules, held)[i].severity,
                     confidence |-> ConfidenceFromCount(Only(rules, held)[i].count,
                                                        Only(rules, held)[i].specific)]]
    BY DEF FindingSpecs
  <1> HIDE DEF R, rules, specs
  <1>3. {i \in DOMAIN rules : rules[i] \in held} = {i \in DOMAIN rules : rules[i].count > 0}
    BY DEF ToSet
  <1> HIDE DEF held
  <1>4. SpecsFor("SF", specs, Only(rules, held))
    BY <1>2 DEF SpecsFor
  <1>5. Len(rules) \in 0..6 /\ \A i \in 1..Len(rules) : rules[i].severity \in Severities
    BY <1>1
  <1>6. /\ FindingList("SF", specs)
        /\ MadeByRules(specs, rules, {i \in DOMAIN rules : rules[i] \in held})
    BY <1>1, <1>4, <1>5, SpecsOfRules
  <1> QED
    BY <1>3, <1>6 DEF specs, rules

\* A text of the model is a number, and at least the minimum when it is not.
LEMMA OrDefaultProperties ==
    ASSUME NEW length \in Nat, NEW minimum \in 0..DefaultText
    PROVE  /\ OrDefault(length, minimum, DefaultText) \in Nat
           /\ OrDefault(length, minimum, DefaultText) >= minimum
  BY DEF OrDefault, DefaultText

\* A list with one item for each of another, of the same ids and severities.
LEMMA SameFindings ==
    ASSUME NEW kind, NEW rules, NEW positions, NEW specs,
           FindingList(kind, specs), MadeByRules(specs, rules, positions),
           NEW items, items = [i \in DOMAIN specs |-> items[i]],
           \A i \in DOMAIN specs : items[i].id = specs[i].id /\ items[i].severity = specs[i].severity
    PROVE  /\ FindingList(kind, items) /\ Len(items) = Len(specs)
           /\ MadeByRules(items, rules, positions)
  <1>1. DOMAIN specs = 1..Len(specs) /\ Len(specs) \in 0..6
    BY DEF FindingList
  <1>2. /\ Len(items) = Len(specs) /\ DOMAIN items = 1..Len(specs)
        /\ items \in Seq({items[i] : i \in 1..Len(items)})
    <2> DEFINE S == {items[i] : i \in 1..Len(specs)}
    <2>1. items \in [1..Len(specs) -> S]
      BY <1>1
    <2> HIDE DEF S
    <2>2. Len(items) = Len(specs) /\ items \in Seq(S)
      BY <1>1, <2>1, ListedSeq
    <2> QED
      BY <2>1, <2>2 DEF S
  <1>3. FindingList(kind, items)
    BY <1>1, <1>2 DEF FindingList
  <1>4. MadeByRules(items, rules, positions)
    BY <1>1, <1>2 DEF MadeByRules
  <1> QED
    BY <1>2, <1>3, <1>4

\* What the steps after the architecture agent rely on: a weakness for each rule that
\* holds, with a hint that is long enough for a query.
WeaknessesOf(section, pcr) ==
    /\ section # None
    /\ FindingList("AW", section.weaknesses)
    /\ MadeByRules(section.weaknesses, WeaknessRules(pcr),
                   {i \in DOMAIN WeaknessRules(pcr) : WeaknessRules(pcr)[i].holds})
    /\ \A i \in 1..Len(section.weaknesses) : /\ section.weaknesses[i].hint \in Nat
                                             /\ section.weaknesses[i].hint >= 10

\* How the architecture agent ends: with a section, or because the answer is no JSON object
\* or has no narrative; never because a validator refuses what it assembles.
LEMMA ArchitectureProperties ==
    ASSUME NEW pcr, NEW answer, answer.strengths \in Nat, answer.coupling \in Nat,
           WordedAnswer(answer)
    PROVE  LET result == ArchitectureRun(pcr, answer)
           IN  \/ result.error = "LLMResponseParseError"
               \/ result.error = "none" /\ WeaknessesOf(result.value, pcr)
  <1> DEFINE specs   == WeaknessSpecs(pcr)
             items   == [i \in DOMAIN specs |-> BuildWeakness(specs[i], answer)]
             section == AssembleArchitecture(pcr, answer)
             found   == {i \in DOMAIN WeaknessRules(pcr) : WeaknessRules(pcr)[i].holds}
  <1>1. /\ section.weaknesses = items
        /\ section.narrative = answer.narrative
        /\ section.strengths = OrDefault(answer.strengths, 1, 1)
        /\ section.couplingNarrative = OrDefault(answer.coupling, 10, DefaultText)
        /\ section # None
    BY DEF AssembleArchitecture, None
  <1> HIDE DEF section
  <1>2. FindingList("AW", specs) /\ MadeByRules(specs, WeaknessRules(pcr), found)
    BY WeaknessSpecsProperties
  <1> HIDE DEF specs, found
  <1>3. ASSUME NEW i \in DOMAIN specs
        PROVE  /\ items[i].id = specs[i].id /\ items[i].severity = specs[i].severity
               /\ items[i].description \in Nat /\ items[i].description >= 10
               /\ items[i].hint \in Nat /\ items[i].hint >= 10
    <2> DEFINE raw == IF specs[i].id \in DOMAIN answer.texts THEN answer.texts[specs[i].id]
                                                             ELSE [description |-> 0, hint |-> 0]
    <2>1. raw.description \in Nat /\ raw.hint \in Nat
      BY DEF WordedAnswer
    <2>2. /\ items[i].id = specs[i].id /\ items[i].severity = specs[i].severity
          /\ items[i].description = OrDefault(raw.description, 10, DefaultText)
          /\ items[i].hint = OrDefault(raw.hint, 10, DefaultText)
      BY DEF BuildWeakness
    <2> HIDE DEF raw, items
    <2>3. 10 \in 0..DefaultText
      BY DEF DefaultText
    <2> QED
      BY <2>1, <2>2, <2>3, OrDefaultProperties
  <1>4. items = [i \in DOMAIN specs |-> items[i]]
    OBVIOUS
  <1> HIDE DEF items
  <1>5. /\ FindingList("AW", items) /\ Len(items) = Len(specs)
        /\ MadeByRules(items, WeaknessRules(pcr), found)
    BY <1>2, <1>3, <1>4, SameFindings
  <1>6. DOMAIN items = 1..Len(items) /\ Len(items) \in Nat
           /\ DOMAIN specs = DOMAIN items
    BY <1>2, <1>5 DEF FindingList
  <1>7. WeaknessesOf(section, pcr)
    BY <1>1, <1>3, <1>5, <1>6 DEF WeaknessesOf, found
  <1>8. ArchitectureAnswerUsable(answer) => ValidArchitectureSection(section)
    <2>1. /\ section.strengths \in Nat /\ section.strengths >= 1
          /\ section.couplingNarrative >= 10
      BY <1>1 DEF OrDefault, DefaultText
    <2>2. IdsUnique(section.weaknesses)
      BY <1>1, <1>5 DEF IdsUnique, FindingList
    <2>3. \A i \in DOMAIN section.weaknesses : ValidWeakness(section.weaknesses[i])
      BY <1>1, <1>3, <1>6 DEF ValidWeakness
    <2>4. section.strengths + Len(section.weaknesses) > 0
      BY <1>1, <1>6, <2>1
    <2> QED
      BY <1>1, <2>1, <2>2, <2>3, <2>4
      DEF ArchitectureAnswerUsable, ValidArchitectureSection
  <1>9. ArchitectureRun(pcr, answer) =
           CASE ~ArchitectureAnswerUsable(answer) -> Raised("LLMResponseParseError")
             [] ArchitectureAnswerUsable(answer) /\ ValidArchitectureSection(section) ->
                    Returned(section)
             [] OTHER -> Raised("ValidationError")
    BY DEF ArchitectureRun, section
  <1> QED
    BY <1>7, <1>8, <1>9 DEF Returned, Raised

\* What the steps after the security agent rely on: a finding for each rule with a signal,
\* and the greatest severity among them.
FindingsOf(section, pcr) ==
    /\ section # None
    /\ FindingList("SF", section.findings)
    /\ MadeByRules(section.findings, FindingRules(pcr.security),
                   {i \in DOMAIN FindingRules(pcr.security) : FindingRules(pcr.security)[i].count > 0})
    /\ \A i \in 1..Len(section.findings) : section.findings[i].hint \in Nat
    /\ section.risk = OverallRisk(section.findings)

\* The risk is the greatest severity, at least that of an information.
LEMMA RiskProperties ==
    ASSUME NEW kind, NEW findings, FindingList(kind, findings)
    PROVE  OverallRisk(findings) =
              Max({Severity.INFO} \cup {findings[i].severity : i \in DOMAIN findings})
  <1> DEFINE S == {findings[i].severity : i \in DOMAIN findings}
             U == {Severity.INFO} \cup S
  <1>1. S \in SUBSET (1..5) /\ U \in SUBSET (1..5) /\ U # {} /\ Severity.INFO = 1
    BY SeverityValues DEF FindingList
  <1>2. CASE findings = <<>>
    <2>1. S = {}
      BY <1>2
    <2> HIDE DEF S
    <2>2. Max(U) = 1
      BY <1>1, <2>1, GreatestSeverity
    <2> QED
      BY <1>1, <1>2, <2>2 DEF OverallRisk, S
  <1>3. CASE findings # <<>>
    <2>1. OverallRisk(findings) = Max(S)
      BY <1>3 DEF OverallRisk
    <2>2. S # {}
      <3>1. Len(findings) \in Nat /\ Len(findings) # 0
        BY <1>3, EmptySeq DEF FindingList
      <3>2. 1 \in DOMAIN findings
        BY <3>1 DEF FindingList
      <3> QED
        BY <3>2
    <2> HIDE DEF S
    <2>3. /\ Max(S) \in S /\ \A y \in S : y <= Max(S)
          /\ Max(U) \in U /\ \A y \in U : y <= Max(U)
      BY <1>1, <2>2, GreatestSeverity
    <2>4. Max(S) \in U
      BY <2>3
    <2>5. Max(U) = 1 \/ Max(U) \in S
      BY <1>1, <2>3
    <2>6. Max(U) = Max(S)
      <3>1. Max(S) \in 1..5 /\ Max(U) \in 1..5 /\ Max(S) <= Max(U)
        <4> HIDE DEF U
        <4> QED
          BY <1>1, <2>3, <2>4
      <3>2. Max(U) <= Max(S)
        <4> HIDE DEF U
        <4> QED
          BY <2>3, <2>5, <3>1
      <3> HIDE DEF U
      <3> QED
        BY <3>1, <3>2
    <2> QED
      BY <2>1, <2>6 DEF U, S
  <1> QED
    BY <1>2, <1>3

\* How the security agent ends.
LEMMA SecurityProperties ==
    ASSUME NEW pcr, NEW answer, WordedAnswer(answer)
    PROVE  LET result == SecurityRun(pcr, answer)
           IN  \/ result.error = "LLMResponseParseError"
               \/ result.error = "none" /\ FindingsOf(result.value, pcr)
  <1> DEFINE signals == pcr.security
             specs   == FindingSpecs(signals)
             items   == BuildFindings(specs, answer)
             section == AssembleSecurity(pcr, answer)
             found   == {i \in DOMAIN FindingRules(signals) : FindingRules(signals)[i].count > 0}
  <1>1. /\ section.findings = items
        /\ section.narrative = answer.narrative
        /\ section.risk = OverallRisk(items)
        /\ section.counts = SeverityCounts(items)
        /\ section # None
    BY DEF AssembleSecurity, None
  <1> HIDE DEF section
  <1>2. FindingList("SF", specs) /\ MadeByRules(specs, FindingRules(signals), found)
    BY FindingSpecsProperties
  <1> HIDE DEF specs, found
  <1>3. ASSUME NEW i \in DOMAIN specs
        PROVE  /\ items[i].id = specs[i].id /\ items[i].severity = specs[i].severity
               /\ items[i].description \in Nat /\ items[i].description >= 20
               /\ items[i].hint \in Nat /\ items[i].hint >= 1
    <2> DEFINE raw == IF specs[i].id \in DOMAIN answer.texts THEN answer.texts[specs[i].id]
                                                             ELSE [description |-> 0, hint |-> 0]
    <2>1. raw.description \in Nat /\ raw.hint \in Nat
      BY DEF WordedAnswer
    <2>2. /\ items[i].id = specs[i].id /\ items[i].severity = specs[i].severity
          /\ items[i].description = OrDefault(raw.description, 20, DefaultText)
          /\ items[i].hint = OrDefault(raw.hint, 1, DefaultText)
      BY DEF BuildFindings, BuildFinding
    <2> HIDE DEF raw, items
    <2>3. 20 \in 0..DefaultText /\ 1 \in 0..DefaultText
      BY DEF DefaultText
    <2> QED
      BY <2>1, <2>2, <2>3, OrDefaultProperties
  <1>4. items = [i \in DOMAIN specs |-> items[i]]
    BY DEF BuildFindings
  <1> HIDE DEF items
  <1>5. /\ FindingList("SF", items) /\ Len(items) = Len(specs)
        /\ MadeByRules(items, FindingRules(signals), found)
    BY <1>2, <1>3, <1>4, SameFindings
  <1>6. DOMAIN items = 1..Len(items) /\ Len(items) \in Nat
           /\ DOMAIN specs = DOMAIN items
    BY <1>2, <1>5 DEF FindingList
  <1>7. FindingsOf(section, pcr)
    BY <1>1, <1>3, <1>5, <1>6 DEF FindingsOf, found
  <1>8. SecurityAnswerUsable(answer) => ValidSecuritySection(section)
    <2>1. section.risk =
             Max({Severity.INFO} \cup {section.findings[i].severity : i \in DOMAIN section.findings})
      BY <1>1, <1>5, RiskProperties
    <2>2. IdsUnique(section.findings)
      BY <1>1, <1>5 DEF IdsUnique, FindingList
    <2>3. \A i \in DOMAIN section.findings : ValidFinding(section.findings[i])
      BY <1>1, <1>3, <1>6 DEF ValidFinding
    <2> QED
      BY <1>1, <2>1, <2>2, <2>3 DEF SecurityAnswerUsable, ValidSecuritySection
  <1>9. SecurityRun(pcr, answer) =
           CASE ~SecurityAnswerUsable(answer) -> Raised("LLMResponseParseError")
             [] SecurityAnswerUsable(answer) /\ ValidSecuritySection(section) -> Returned(section)
             [] OTHER -> Raised("ValidationError")
    BY DEF SecurityRun, section
  <1> QED
    BY <1>7, <1>8, <1>9 DEF Returned, Raised

-----------------------------------------------------------------------------
(* One item for each finding of the two sections                           *)

\* One item for each finding, of the same severity.
ItemFor(items, findings) ==
    /\ items = [i \in DOMAIN findings |-> items[i]]
    /\ \A i \in DOMAIN findings : /\ items[i].source = findings[i].id
                                  /\ items[i].severity = findings[i].severity

ElementsOf(s) == {s[i] : i \in DOMAIN s}

\* The items of one section.
LEMMA ItemsListed ==
    ASSUME NEW kind, NEW findings, FindingList(kind, findings),
           NEW items, ItemFor(items, findings)
    PROVE  /\ Lists(items, ElementsOf(items))
           /\ Len(items) = Len(findings) /\ Len(items) \in Nat
           /\ DOMAIN items = 1..Len(items)
           /\ \A x \in ElementsOf(items) : x.severity \in 1..5 /\ x.source[1] = kind
           /\ \A x, y \in ElementsOf(items) : x.source = y.source => x = y
  <1>1. /\ DOMAIN findings = 1..Len(findings) /\ Len(findings) \in Nat
        /\ \A i \in 1..Len(findings) :
              findings[i].id = <<kind, i>> /\ findings[i].severity \in 1..5
    BY SeverityValues DEF FindingList
  <1>2. /\ DOMAIN items = 1..Len(findings)
        /\ \A i \in 1..Len(findings) : items[i].source = <<kind, i>> /\ items[i].severity \in 1..5
    BY <1>1 DEF ItemFor
  <1>3. items \in [1..Len(findings) -> ElementsOf(items)]
    BY <1>1, <1>2 DEF ItemFor, ElementsOf
  <1>4. items \in Seq(ElementsOf(items)) /\ Len(items) = Len(findings)
    BY <1>1, <1>3, ListedSeq
  <1>5. \A i, j \in 1..Len(items) : items[i] = items[j] => i = j
    BY <1>2, <1>4
  <1>6. \A x \in ElementsOf(items) : \E i \in 1..Len(items) : items[i] = x
    BY <1>2, <1>4 DEF ElementsOf
  <1>7. Lists(items, ElementsOf(items))
    BY <1>4, <1>5, <1>6 DEF Lists
  <1>8. \A x \in ElementsOf(items) : x.severity \in 1..5 /\ x.source[1] = kind
    BY <1>2 DEF ElementsOf
  <1>9. \A x, y \in ElementsOf(items) : x.source = y.source => x = y
    <2> SUFFICES ASSUME NEW x \in ElementsOf(items), NEW y \in ElementsOf(items),
                        x.source = y.source
                 PROVE  x = y
      OBVIOUS
    <2>1. PICK i \in 1..Len(findings) : x = items[i]
      BY <1>2 DEF ElementsOf
    <2>2. PICK j \in 1..Len(findings) : y = items[j]
      BY <1>2 DEF ElementsOf
    <2>3. <<kind, i>> = <<kind, j>>
      BY <1>2, <2>1, <2>2
    <2> QED
      BY <2>1, <2>2, <2>3
  <1> QED
    BY <1>1, <1>2, <1>4, <1>7, <1>8, <1>9

\* The items of the two sections, one list after the other.
LEMMA BothListed ==
    ASSUME NEW weaknesses, FindingList("AW", weaknesses), NEW s, ItemFor(s, weaknesses),
           NEW findings, FindingList("SF", findings), NEW t, ItemFor(t, findings)
    PROVE  LET all == ElementsOf(s) \cup ElementsOf(t)
           IN  /\ Lists(s \o t, all)
               /\ Len(s \o t) = Len(weaknesses) + Len(findings)
               /\ \A x \in all : x.severity \in 1..5
               /\ \A x, y \in all : x.source = y.source => x = y
  <1>1. /\ Lists(s, ElementsOf(s))
        /\ Len(s) = Len(weaknesses) /\ Len(s) \in Nat
        /\ \A x \in ElementsOf(s) : x.severity \in 1..5 /\ x.source[1] = "AW"
        /\ \A x, y \in ElementsOf(s) : x.source = y.source => x = y
    BY ItemsListed
  <1>2. /\ Lists(t, ElementsOf(t))
        /\ Len(t) = Len(findings) /\ Len(t) \in Nat
        /\ \A x \in ElementsOf(t) : x.severity \in 1..5 /\ x.source[1] = "SF"
        /\ \A x, y \in ElementsOf(t) : x.source = y.source => x = y
    BY ItemsListed
  <1>3. \A x \in ElementsOf(s), y \in ElementsOf(t) : x.source # y.source
    BY <1>1, <1>2
  <1>4. ElementsOf(s) \cap ElementsOf(t) = {}
    BY <1>3
  <1>5. /\ Lists(s \o t, ElementsOf(s) \cup ElementsOf(t))
        /\ Len(s \o t) = Len(s) + Len(t)
    BY <1>1, <1>2, <1>4, ConcatLists
  <1> QED
    BY <1>1, <1>2, <1>3, <1>5

-----------------------------------------------------------------------------
(* The queries                                                             *)

\* The part of the knowledge base that the findings of a kind belong to.
DomainOf(id) == IF id[1] = "AW" THEN "ARCHITECTURE" ELSE "SECURITY"

\* Of some findings, all have an item, or there is no room and those that have are as severe.
WorstHave(items, findings, limit) ==
    \A k \in DOMAIN findings :
        \/ \E i \in DOMAIN items : items[i].source = findings[k].id
        \/ /\ Len(items) = limit
           /\ \A i \in DOMAIN items : items[i].severity >= findings[k].severity

\* The ids of the findings there can be, and the queries.
FindingIds == {"AW", "SF"} \X (1..6)

QueryRecords == [id : {"Q"} \X Nat, severity : Severities, text : Nat, domain : Domains,
                 source : FindingIds, results : Seq(Points)]

\* What holds of the queries during a retrieval.
QueriesFor(queries, architecture, security) ==
    /\ queries \in Seq(QueryRecords)
    /\ Len(queries) <= MaxRagQueries
    /\ \A i \in 1..Len(queries) : /\ queries[i].id = <<"Q", i>>
                                  /\ queries[i].domain = DomainOf(queries[i].source)
    /\ WorstHave(queries, architecture.weaknesses, MaxRagQueries)
    /\ WorstHave(queries, security.findings, MaxRagQueries)

\* The queries of a retrieval; only a hint of the security agent can make one invalid.
LEMMA QueriesProperties ==
    ASSUME NEW pcr, NEW architecture, WeaknessesOf(architecture, pcr),
           NEW security, FindingsOf(security, pcr)
    PROVE  LET result == BuildQueries(architecture, security)
           IN  \/ /\ result.error = "ValidationError"
                  /\ \E i \in DOMAIN security.findings : security.findings[i].hint < 10
               \/ result.error = "none" /\ QueriesFor(result.value, architecture, security)
  <1> DEFINE a == architecture.weaknesses
             b == security.findings
             s == [i \in DOMAIN a |-> Candidate(a[i], "ARCHITECTURE")]
             t == [i \in DOMAIN b |-> Candidate(b[i], "SECURITY")]
             all == ElementsOf(s) \cup ElementsOf(t)
             chosen == WorstFirst(Candidates(architecture, security))
             made(i) == [id |-> <<"Q", i>>, severity |-> chosen[i].severity,
                         text |-> chosen[i].text, domain |-> chosen[i].domain,
                         source |-> chosen[i].source, results |-> <<>>]
             queries == [i \in DOMAIN chosen |-> made(i)]
  <1>1. FindingList("AW", a) /\ FindingList("SF", b)
    BY DEF WeaknessesOf, FindingsOf
  <1>2. ItemFor(s, a) /\ ItemFor(t, b)
    BY DEF ItemFor, Candidate
  <1>3. Candidates(architecture, security) = s \o t
    BY DEF Candidates
  <1>4. BuildQueries(architecture, security) =
           IF \A i \in DOMAIN queries : ValidQuery(queries[i])
           THEN Returned(queries) ELSE Raised("ValidationError")
    BY DEF BuildQueries
  <1>5. /\ DOMAIN a = 1..Len(a) /\ DOMAIN b = 1..Len(b)
        /\ \A i \in 1..Len(a) : /\ DomainOf(a[i].id) = "ARCHITECTURE"
                                 /\ a[i].hint \in Nat /\ a[i].hint >= 10
        /\ \A i \in 1..Len(b) : DomainOf(b[i].id) = "SECURITY" /\ b[i].hint \in Nat
    <2>1. /\ DOMAIN a = 1..Len(a)
          /\ \A i \in 1..Len(a) : /\ DomainOf(a[i].id) = "ARCHITECTURE"
                                   /\ a[i].hint \in Nat /\ a[i].hint >= 10
      BY <1>1 DEF DomainOf, FindingList, WeaknessesOf
    <2>2. /\ DOMAIN b = 1..Len(b)
          /\ \A i \in 1..Len(b) : DomainOf(b[i].id) = "SECURITY" /\ b[i].hint \in Nat
      BY <1>1 DEF DomainOf, FindingList, FindingsOf
    <2> QED BY <2>1, <2>2
  <1>6. /\ DOMAIN s = DOMAIN a /\ DOMAIN t = DOMAIN b
        /\ \A i \in DOMAIN a : /\ s[i].source = a[i].id /\ s[i].domain = "ARCHITECTURE"
                                /\ s[i].text = a[i].hint
        /\ \A i \in DOMAIN b : /\ t[i].source = b[i].id /\ t[i].domain = "SECURITY"
                                /\ t[i].text = b[i].hint
    BY DEF Candidate
  <1>7. /\ \A x \in ElementsOf(s) : x.domain = DomainOf(x.source)
        /\ \A x \in ElementsOf(t) : x.domain = DomainOf(x.source)
        /\ \A x \in all : /\ x.domain \in Domains /\ x.source \in FindingIds
                          /\ x.severity \in Severities
    <2>1. ASSUME NEW x \in ElementsOf(s)
          PROVE  x.domain = DomainOf(x.source)
      <3>1. PICK i \in DOMAIN a : x = s[i]
        BY DEF ElementsOf
      <3>2. DomainOf(a[i].id) = "ARCHITECTURE" /\ x.source = a[i].id /\ x.domain = "ARCHITECTURE"
        BY <1>5, <1>6, <3>1
      <3> QED
        BY <3>2, Zenon
    <2>2. ASSUME NEW x \in ElementsOf(t)
          PROVE  x.domain = DomainOf(x.source)
      <3>1. PICK i \in DOMAIN b : x = t[i]
        BY DEF ElementsOf
      <3>2. DomainOf(b[i].id) = "SECURITY" /\ x.source = b[i].id /\ x.domain = "SECURITY"
        BY <1>5, <1>6, <3>1
      <3> QED
        BY <3>2, Zenon
    <2>3. /\ \A x \in ElementsOf(s) : /\ x.domain \in Domains /\ x.source \in FindingIds
                                      /\ x.severity \in Severities
          /\ \A x \in ElementsOf(t) : /\ x.domain \in Domains /\ x.source \in FindingIds
                                      /\ x.severity \in Severities
      <3>1. /\ \A i \in DOMAIN a : /\ a[i].id \in FindingIds /\ s[i].severity = a[i].severity
                                   /\ a[i].severity \in Severities
            /\ \A i \in DOMAIN b : /\ b[i].id \in FindingIds /\ t[i].severity = b[i].severity
                                   /\ b[i].severity \in Severities
        <4>1. \A i \in 1..6 : <<"AW", i>> \in FindingIds /\ <<"SF", i>> \in FindingIds
          BY DEF FindingIds
        <4>2. /\ \A i \in DOMAIN a : i \in 1..6 /\ a[i].id = <<"AW", i>> /\ a[i].severity \in Severities
              /\ \A i \in DOMAIN b : i \in 1..6 /\ b[i].id = <<"SF", i>> /\ b[i].severity \in Severities
          <5>1. \A kind, items : FindingList(kind, items) =>
                   \A i \in DOMAIN items : /\ i \in 1..6 /\ items[i].id = <<kind, i>>
                                           /\ items[i].severity \in Severities
            BY DEF FindingList
          <5> HIDE DEF a, b
          <5> QED
            BY <1>1, <5>1
        <4>3. /\ \A i \in DOMAIN a : s[i].severity = a[i].severity
              /\ \A i \in DOMAIN b : t[i].severity = b[i].severity
          BY <1>2 DEF ItemFor
        <4> HIDE DEF a, b, s, t
        <4> QED
          BY <4>1, <4>2, <4>3
      <3> HIDE DEF a, b, s, t
      <3> QED
        BY <1>6, <3>1 DEF ElementsOf, Domains
    <2> QED
      BY <2>1, <2>2, <2>3
  <1>8. /\ \A x \in ElementsOf(s) : x.text \in Nat /\ x.text >= 10
        /\ \A x \in ElementsOf(t) : /\ x.text \in Nat
                                    /\ \E i \in DOMAIN b : x.text = b[i].hint
    <2> HIDE DEF a, b, s, t
    <2> QED
      BY <1>5, <1>6 DEF ElementsOf
  <1>9. /\ \A k \in DOMAIN a : s[k] \in ElementsOf(s) /\ s[k].source = a[k].id
                                                      /\ s[k].severity = a[k].severity
        /\ \A k \in DOMAIN b : t[k] \in ElementsOf(t) /\ t[k].source = b[k].id
                                                      /\ t[k].severity = b[k].severity
    BY DEF ElementsOf, Candidate
  <1> HIDE DEF s, t
  <1>10. Lists(s \o t, all) /\ \A x \in all : x.severity \in Int
    BY <1>1, <1>2, BothListed
  <1>11. WorstOf(chosen, all, MaxRagQueries)
    <2>1. /\ Lists(SortedDescending(s \o t), all)
          /\ Descending(SortedDescending(s \o t))
      <3> HIDE DEF all
      <3> QED
        BY <1>10, SortLists
    <2>2. MaxRagQueries \in Nat
      BY CapsAssumption
    <2>3. chosen = FirstOf(SortedDescending(s \o t), MaxRagQueries)
      BY <1>3 DEF WorstFirst
    <2> HIDE DEF all, chosen
    <2> QED
      BY <1>10, <2>1, <2>2, <2>3, FirstOfDescending
  <1> HIDE DEF chosen
  <1>12. /\ chosen \in Seq(all) /\ DOMAIN chosen = 1..Len(chosen) /\ Len(chosen) \in Nat
         /\ Len(chosen) <= MaxRagQueries
         /\ \A i \in 1..Len(chosen) : chosen[i] \in all
    <2> HIDE DEF all
    <2> QED
      BY <1>11, LenProperties, ElementOfSeq DEF WorstOf
  <1>13. /\ DOMAIN queries = 1..Len(chosen)
         /\ \A i \in 1..Len(chosen) :
               /\ queries[i].id = <<"Q", i>>
               /\ queries[i].severity = chosen[i].severity
               /\ queries[i].text = chosen[i].text
               /\ queries[i].domain = chosen[i].domain
               /\ queries[i].source = chosen[i].source
    BY <1>12
  <1>14. Len(queries) = Len(chosen) /\ queries \in Seq(QueryRecords)
    <2>1. \A i \in 1..Len(chosen) :
             /\ chosen[i].domain \in Domains /\ chosen[i].source \in FindingIds
             /\ chosen[i].severity \in Severities /\ chosen[i].text \in Nat
      <3>1. \A x \in all : x.text \in Nat
        BY <1>8
      <3> HIDE DEF all
      <3> QED
        BY <1>7, <1>12, <3>1
    <2>2. <<>> \in Seq(Points)
      BY EmptySeq
    <2>3. ASSUME NEW i \in 1..Len(chosen)
          PROVE  made(i) \in QueryRecords
      BY <1>12, <2>1, <2>2 DEF QueryRecords
    <2>4. queries \in [1..Len(chosen) -> QueryRecords]
      <3> HIDE DEF made
      <3> QED
        BY <1>12, <2>3
    <2> HIDE DEF queries
    <2> QED
      BY <1>12, <2>4, ListedSeq
  <1> HIDE DEF queries
  <1>15. CASE \A i \in DOMAIN queries : ValidQuery(queries[i])
    <2>1. \A i \in 1..Len(queries) : queries[i].domain = DomainOf(queries[i].source)
      BY <1>7, <1>12, <1>13, <1>14
    <2>2. \A x \in all :
             \/ \E i \in DOMAIN queries : queries[i].source = x.source
             \/ /\ Len(queries) = MaxRagQueries
                /\ \A i \in DOMAIN queries : queries[i].severity >= x.severity
      <3> HIDE DEF all
      <3> QED
        BY <1>11, <1>13, <1>14 DEF WorstOf
    <2>3. WorstHave(queries, a, MaxRagQueries) /\ WorstHave(queries, b, MaxRagQueries)
      <3>1. WorstHave(queries, a, MaxRagQueries)
        BY <1>9, <2>2 DEF WorstHave
      <3>2. WorstHave(queries, b, MaxRagQueries)
        BY <1>9, <2>2 DEF WorstHave
      <3> QED
        BY <3>1, <3>2
    <2>4. QueriesFor(queries, architecture, security)
      BY <1>12, <1>13, <1>14, <2>1, <2>3 DEF QueriesFor
    <2> QED
      BY <1>4, <1>15, <2>4 DEF Returned
  <1>16. CASE ~ \A i \in DOMAIN queries : ValidQuery(queries[i])
    <2>1. PICK i \in 1..Len(chosen) : ~ (chosen[i].text >= 10)
      BY <1>13, <1>16 DEF ValidQuery
    <2>2. chosen[i] \in ElementsOf(t)
      BY <1>8, <1>12, <2>1
    <2>3. \E k \in DOMAIN b : b[k].hint < 10
      BY <1>8, <2>1, <2>2
    <2> QED
      BY <1>4, <1>16, <2>3 DEF Raised
  <1> QED
    BY <1>15, <1>16

-----------------------------------------------------------------------------
(* The hits                                                                *)

\* What a search returns: points of the query's domain, none twice.
LEMMA SearchProperties ==
    ASSUME NEW query, NEW points \in SearchResults(query)
    PROVE  /\ Lists(points, ToSet(points))
           /\ \A p \in ToSet(points) : p \in Points /\ PointInfo[p].domain = query.domain
  <1> DEFINE found == {p \in Points : PointInfo[p].domain = query.domain}
  <1>1. PICK S \in SUBSET found : points \in SetToSeqs(S)
    BY DEF SearchResults
  <1>2. IsFiniteSet(S)
    BY <1>1, HitAssumption, FS_Subset
  <1>3. Cardinality(S) \in Nat
    BY <1>2, FS_CardinalityType
  <1> DEFINE n == Cardinality(S)
  <1>4. points \in [1..n -> S] /\ \A i, j \in 1..n : i # j => points[i] # points[j]
    BY <1>1 DEF SetToSeqs
  <1> HIDE DEF n
  <1>5. DOMAIN points = 1..n /\ points \in [1..n -> ToSet(points)]
    BY <1>4 DEF ToSet
  <1>6. points \in Seq(ToSet(points)) /\ Len(points) = n
    BY <1>3, <1>5, ListedSeq DEF n
  <1>7. \A p \in ToSet(points) : p \in S
    BY <1>4 DEF ToSet
  <1>8. Lists(points, ToSet(points))
    BY <1>4, <1>5, <1>6 DEF Lists, ToSet
  <1> QED
    BY <1>1, <1>7, <1>8

\* The chunks, and what holds of each during a retrieval: it is in the part of the
\* knowledge base that each query which matched it is for.
ChunkRecords == [id : Points, domain : {PointInfo[p].domain : p \in Points},
                 excerpt : {PointInfo[p].excerpt : p \in Points}, score : Nat,
                 queries : SUBSET ({"Q"} \X Nat)]

ChunkFor(c, queries) ==
    /\ c.score >= RelevanceThreshold
    /\ c.domain = PointInfo[c.id].domain
    /\ \A k \in 1..Len(queries) : queries[k].id \in c.queries => queries[k].domain = c.domain

ChunksFor(chunks, queries) ==
    /\ chunks \in Seq(ChunkRecords)
    /\ \A i \in 1..Len(chunks) : ChunkFor(chunks[i], queries)
    /\ \A i, j \in 1..Len(chunks) : chunks[i].id = chunks[j].id => i = j

\* A hit adds the query to the chunk of its point, or makes a new one.
LEMMA HitProperties ==
    ASSUME NEW architecture, NEW security, NEW queries, QueriesFor(queries, architecture, security),
           NEW position \in 1..Len(queries), NEW score \in HitScores,
           NEW point \in Points, PointInfo[point].domain = queries[position].domain
    PROVE  /\ NewChunk(point, queries[position], score) \in ChunkRecords
           /\ ChunkFor(NewChunk(point, queries[position], score), queries)
           /\ \A c \in ChunkRecords :
                 c.id = point /\ ChunkFor(c, queries) =>
                    /\ MergeHit(c, queries[position], score) \in ChunkRecords
                    /\ MergeHit(c, queries[position], score).id = point
                    /\ ChunkFor(MergeHit(c, queries[position], score), queries)
  <1> DEFINE query == queries[position]
             new   == NewChunk(point, query, score)
  <1>1. query \in QueryRecords /\ \A k \in 1..Len(queries) : queries[k].id = <<"Q", k>>
    BY ElementOfSeq DEF QueriesFor
  <1>2. query.id = <<"Q", position>> /\ query.id \in {"Q"} \X Nat
    BY <1>1 DEF QueryRecords
  <1>3. \A k \in 1..Len(queries) : queries[k].id = query.id => queries[k] = query
    BY <1>1
  <1>4. score \in Nat /\ score >= RelevanceThreshold
    BY HitAssumption
  <1>5. query.domain = PointInfo[point].domain
    OBVIOUS
  <1> HIDE DEF query
  <1>6. /\ new.id = point /\ new.domain = PointInfo[point].domain /\ new.score = score
        /\ new.queries = {query.id}
    BY DEF NewChunk
  <1>7. new \in ChunkRecords
    BY <1>2, <1>4 DEF NewChunk, ChunkRecords
  <1> HIDE DEF new
  <1>8. ChunkFor(new, queries)
    BY <1>3, <1>4, <1>5, <1>6 DEF ChunkFor
  <1>9. ASSUME NEW c \in ChunkRecords, c.id = point, ChunkFor(c, queries)
        PROVE  /\ MergeHit(c, query, score) \in ChunkRecords
               /\ MergeHit(c, query, score).id = point
               /\ ChunkFor(MergeHit(c, query, score), queries)
    <2> DEFINE m == MergeHit(c, query, score)
    <2>1. m = [c EXCEPT !.queries = c.queries \cup {query.id},
                        !.score = IF score > c.score THEN score ELSE c.score]
      BY DEF MergeHit
    <2>2. /\ m.id = c.id /\ m.domain = c.domain
          /\ m.queries = c.queries \cup {query.id}
          /\ m.score = IF score > c.score THEN score ELSE c.score
      BY <1>9, <2>1 DEF ChunkRecords
    <2>3. m \in ChunkRecords
      <3> DEFINE asked == c.queries \cup {query.id}
                 best  == IF score > c.score THEN score ELSE c.score
      <3>1. asked \in SUBSET ({"Q"} \X Nat) /\ best \in Nat
        BY <1>2, <1>4, <1>9 DEF ChunkRecords
      <3>2. m = [c EXCEPT !.queries = asked, !.score = best]
        BY <2>1
      <3> HIDE DEF asked, best, m
      <3> QED
        BY <1>9, <3>1, <3>2 DEF ChunkRecords
    <2> HIDE DEF m
    <2>4. c.score \in Nat /\ c.score >= RelevanceThreshold /\ c.domain = PointInfo[point].domain
      BY <1>9 DEF ChunkRecords, ChunkFor
    <2>5. ChunkFor(m, queries)
      BY <1>3, <1>4, <1>5, <1>9, <2>2, <2>4 DEF ChunkFor, RelevanceThreshold
    <2> QED
      BY <1>9, <2>2, <2>3, <2>5 DEF m
  <1> QED
    BY <1>7, <1>8, <1>9 DEF new, query

\* A sequence of a function with one element for each of another sequence.
LEMMA MappedSeq ==
    ASSUME NEW S, NEW s \in Seq(S), NEW T, NEW t, t = [i \in DOMAIN s |-> t[i]],
           \A i \in DOMAIN s : t[i] \in T
    PROVE  t \in Seq(T) /\ Len(t) = Len(s) /\ DOMAIN t = 1..Len(s)
  <1>1. DOMAIN s = 1..Len(s) /\ Len(s) \in Nat
    BY LenProperties
  <1>2. t \in [1..Len(s) -> T]
    BY <1>1
  <1> QED
    BY <1>1, <1>2, ListedSeq

\* A query with hits keeps what holds of the chunks.
LEMMA MergeProperties ==
    ASSUME NEW architecture, NEW security, NEW queries, QueriesFor(queries, architecture, security),
           NEW position \in 1..Len(queries), NEW score \in HitScores,
           NEW points \in SearchResults(queries[position]),
           NEW chunks, ChunksFor(chunks, queries)
    PROVE  ChunksFor(MergeHits(chunks, queries[position], points, score), queries)
  <1> DEFINE query == queries[position]
             known == IdsOf(chunks)
             new   == Only(points, ToSet(points) \ known)
             left  == [i \in DOMAIN chunks |->
                          IF chunks[i].id \in ToSet(points) THEN MergeHit(chunks[i], query, score)
                                                            ELSE chunks[i]]
             right == [k \in DOMAIN new |-> NewChunk(new[k], query, score)]
             t     == MergeHits(chunks, query, points, score)
  <1>1. t = left \o right
    BY DEF MergeHits
  <1>2. /\ Lists(points, ToSet(points))
        /\ \A p \in ToSet(points) : p \in Points /\ PointInfo[p].domain = query.domain
    BY SearchProperties
  <1>3. Lists(new, ToSet(points) \cap (ToSet(points) \ known))
    BY <1>2, OnlyLists
  <1>4. /\ new \in Seq(Points) /\ DOMAIN new = 1..Len(new) /\ Len(new) \in Nat
        /\ \A k \in 1..Len(new) : new[k] \in ToSet(points) /\ new[k] \notin known
        /\ \A j, k \in 1..Len(new) : new[j] = new[k] => j = k
    <2> DEFINE U == ToSet(points) \cap (ToSet(points) \ known)
    <2>1. \A x \in U : x \in ToSet(points) /\ x \notin known /\ x \in Points
      BY <1>2
    <2>2. Lists(new, U)
      BY <1>3
    <2> HIDE DEF U, new, known
    <2>3. /\ new \in Seq(U) /\ DOMAIN new = 1..Len(new) /\ Len(new) \in Nat
          /\ \A k \in 1..Len(new) : new[k] \in U
      BY <2>2, LenProperties, ElementOfSeq DEF Lists
    <2>4. new \in [1..Len(new) -> Points]
      BY <2>1, <2>3
    <2>5. new \in Seq(Points)
      BY <2>3, <2>4, ListedSeq
    <2> QED
      BY <2>2, <2>1, <2>3, <2>5 DEF Lists
  <1>5. /\ DOMAIN chunks = 1..Len(chunks) /\ Len(chunks) \in Nat
        /\ \A i \in 1..Len(chunks) : chunks[i] \in ChunkRecords /\ ChunkFor(chunks[i], queries)
    BY LenProperties, ElementOfSeq DEF ChunksFor
  <1>6. \A i \in 1..Len(chunks) : chunks[i].id \in known
    BY <1>5 DEF IdsOf
  <1> HIDE DEF new, known
  <1>7. ASSUME NEW i \in 1..Len(chunks)
        PROVE  left[i] \in ChunkRecords /\ ChunkFor(left[i], queries) /\ left[i].id = chunks[i].id
    <2>1. CASE chunks[i].id \in ToSet(points)
      <3>1. left[i] = MergeHit(chunks[i], query, score)
        BY <1>5, <2>1
      <3>2. chunks[i].id \in Points /\ PointInfo[chunks[i].id].domain = query.domain
        BY <1>2, <2>1
      <3> HIDE DEF left
      <3> QED
        BY <1>5, <3>1, <3>2, HitProperties
    <2>2. CASE chunks[i].id \notin ToSet(points)
      BY <1>5, <2>2
    <2> QED
      BY <2>1, <2>2
  <1>8. ASSUME NEW k \in 1..Len(new)
        PROVE  right[k] \in ChunkRecords /\ ChunkFor(right[k], queries) /\ right[k].id = new[k]
    <2>1. right[k] = NewChunk(new[k], query, score)
      BY <1>4
    <2>2. new[k] \in Points /\ PointInfo[new[k]].domain = query.domain
      BY <1>2, <1>4
    <2>3. right[k].id = new[k]
      BY <2>1 DEF NewChunk
    <2> HIDE DEF right
    <2> QED
      BY <2>1, <2>2, <2>3, HitProperties
  <1>9. left \in Seq(ChunkRecords) /\ Len(left) = Len(chunks)
    <2>1. left = [i \in DOMAIN chunks |-> left[i]]
      OBVIOUS
    <2> HIDE DEF left
    <2> QED
      BY <1>5, <1>7, <2>1, MappedSeq DEF ChunksFor
  <1>10. right \in Seq(ChunkRecords) /\ Len(right) = Len(new)
    <2>1. right = [k \in DOMAIN new |-> right[k]]
      OBVIOUS
    <2> HIDE DEF right
    <2> QED
      BY <1>4, <1>8, <2>1, MappedSeq
  <1> HIDE DEF left, right, t
  <1>11. /\ t \in Seq(ChunkRecords)
         /\ Len(t) = Len(chunks) + Len(new)
         /\ \A i \in 1..(Len(chunks) + Len(new)) :
               t[i] = IF i <= Len(chunks) THEN left[i] ELSE right[i - Len(chunks)]
    <2>1. /\ left \o right \in Seq(ChunkRecords)
          /\ Len(left \o right) = Len(left) + Len(right)
          /\ \A i \in 1..(Len(left) + Len(right)) :
                (left \o right)[i] = IF i <= Len(left) THEN left[i] ELSE right[i - Len(left)]
      BY <1>9, <1>10, ConcatProperties
    <2> QED
      BY <1>1, <1>9, <1>10, <2>1
  <1>12. /\ \A i \in 1..Len(chunks) : t[i] = left[i]
         /\ \A i \in 1..Len(t) : ~(i <= Len(chunks)) =>
               i - Len(chunks) \in 1..Len(new) /\ t[i] = right[i - Len(chunks)]
    BY <1>4, <1>5, <1>11
  <1>13. \A i \in 1..Len(t) : ChunkFor(t[i], queries)
    <2> SUFFICES ASSUME NEW i \in 1..Len(t) PROVE ChunkFor(t[i], queries)
      OBVIOUS
    <2>1. CASE i <= Len(chunks)
      BY <1>4, <1>5, <1>7, <1>11, <1>12, <2>1
    <2>2. CASE ~(i <= Len(chunks))
      BY <1>8, <1>12, <2>2
    <2> QED
      BY <2>1, <2>2
  <1>14. \A i, j \in 1..Len(t) : t[i].id = t[j].id => i = j
    <2> SUFFICES ASSUME NEW i \in 1..Len(t), NEW j \in 1..Len(t), t[i].id = t[j].id
                 PROVE  i = j
      OBVIOUS
    <2>1. i \in Nat /\ j \in Nat /\ i >= 1 /\ j >= 1
      BY <1>4, <1>5, <1>11
    <2>2. CASE i <= Len(chunks) /\ j <= Len(chunks)
      <3>1. i \in 1..Len(chunks) /\ j \in 1..Len(chunks)
        BY <1>5, <2>1, <2>2
      <3>2. chunks[i].id = chunks[j].id
        BY <1>7, <1>12, <3>1
      <3> QED
        BY <3>1, <3>2 DEF ChunksFor
    <2>3. CASE i <= Len(chunks) /\ ~(j <= Len(chunks))
      <3>1. i \in 1..Len(chunks) /\ t[i].id \in known
        BY <1>5, <1>6, <1>7, <1>12, <2>1, <2>3
      <3>2. t[j].id \notin known
        BY <1>4, <1>8, <1>12, <2>3
      <3> QED
        BY <3>1, <3>2
    <2>4. CASE ~(i <= Len(chunks)) /\ j <= Len(chunks)
      <3>1. j \in 1..Len(chunks) /\ t[j].id \in known
        BY <1>5, <1>6, <1>7, <1>12, <2>1, <2>4
      <3>2. t[i].id \notin known
        BY <1>4, <1>8, <1>12, <2>4
      <3> QED
        BY <3>1, <3>2
    <2>5. CASE ~(i <= Len(chunks)) /\ ~(j <= Len(chunks))
      <3>1. new[i - Len(chunks)] = new[j - Len(chunks)]
        BY <1>8, <1>12, <2>5
      <3>2. i - Len(chunks) = j - Len(chunks)
        BY <1>4, <1>12, <2>5, <3>1
      <3> QED
        BY <1>5, <2>1, <3>2
    <2> QED
      BY <2>2, <2>3, <2>4, <2>5
  <1> QED
    BY <1>11, <1>13, <1>14 DEF ChunksFor, t

\* What a recommendation relies on: each result of a query is a chunk the query matched, of
\* the part of the knowledge base its finding belongs to.
MatchedBy(id, query, chunks) ==
    \E c \in ToSet(chunks) : /\ c.id = id
                             /\ query.id \in c.queries
                             /\ c.domain = DomainOf(query.source)

GroundedContext(context) ==
    /\ context # None
    /\ context.queries \in Seq(QueryRecords)
    /\ \A i \in 1..Len(context.queries) : \A k \in 1..Len(context.queries[i].results) :
          MatchedBy(context.queries[i].results[k], context.queries[i], context.chunks)

\* The context a retrieval ends with, which its validators accept.
LEMMA ContextProperties ==
    ASSUME NEW architecture, NEW security, NEW queries, QueriesFor(queries, architecture, security),
           NEW chunks, ChunksFor(chunks, queries), NEW empty
    PROVE  /\ GroundedContext(Context(queries, chunks, empty))
           /\ ValidContext(Context(queries, chunks, empty))
  <1> DEFINE context == Context(queries, chunks, empty)
             filled  == FillResults(queries, chunks)
             matched(i) == Only(chunks, {c \in ToSet(chunks) : queries[i].id \in c.queries})
             found(i)   == [k \in DOMAIN matched(i) |-> matched(i)[k].id]
  <1>1. context.queries = filled /\ context.chunks = chunks /\ context # None
    BY DEF Context, None
  <1>2. filled = [i \in DOMAIN queries |-> [queries[i] EXCEPT !.results = found(i)]]
    BY DEF FillResults
  <1>3. /\ DOMAIN queries = 1..Len(queries)
        /\ \A i \in 1..Len(queries) : queries[i] \in QueryRecords
        /\ chunks \in Seq(ChunkRecords)
        /\ \A i \in 1..Len(chunks) : chunks[i] \in ChunkRecords /\ ChunkFor(chunks[i], queries)
    BY LenProperties, ElementOfSeq DEF QueriesFor, ChunksFor
  <1>4. ASSUME NEW i \in 1..Len(queries)
        PROVE  /\ found(i) \in Seq(Points)
               /\ \A k \in 1..Len(found(i)) : MatchedBy(found(i)[k], queries[i], chunks)
    <2> DEFINE kept == {c \in ToSet(chunks) : queries[i].id \in c.queries}
               m    == Only(chunks, kept)
               f    == [k \in DOMAIN m |-> m[k].id]
    <2>1. \A c \in kept : c \in ToSet(chunks) /\ queries[i].id \in c.queries
      OBVIOUS
    <2>2. found(i) = f
      OBVIOUS
    <2> HIDE DEF kept
    <2>3. m \in Seq(ChunkRecords) /\ Keeps(m, chunks, kept)
      BY <1>3, OnlyProperties
    <2> HIDE DEF m
    <2>4. /\ DOMAIN m = 1..Len(m) /\ Len(m) \in Nat
          /\ \A k \in 1..Len(m) : m[k] \in ChunkRecords /\ m[k] \in kept
      BY <2>3, LenProperties, ElementOfSeq DEF Keeps
    <2>5. f = [k \in DOMAIN m |-> f[k]] /\ \A k \in 1..Len(m) : f[k] = m[k].id
      BY <2>4
    <2> HIDE DEF f
    <2>6. f \in Seq(Points) /\ Len(f) = Len(m)
      BY <2>3, <2>4, <2>5, MappedSeq DEF ChunkRecords
    <2>7. ASSUME NEW k \in 1..Len(m)
          PROVE  MatchedBy(f[k], queries[i], chunks)
      <3>1. m[k] \in ToSet(chunks) /\ queries[i].id \in m[k].queries
        BY <2>1, <2>4
      <3>2. PICK j \in 1..Len(chunks) : m[k] = chunks[j]
        BY <2>3 DEF Keeps, DrawnFrom
      <3>3. queries[i].domain = m[k].domain
        BY <1>3, <3>1, <3>2 DEF ChunkFor
      <3>4. m[k].domain = DomainOf(queries[i].source)
        BY <3>3 DEF QueriesFor
      <3> QED
        BY <2>5, <3>1, <3>4 DEF MatchedBy
    <2> QED
      BY <2>2, <2>6, <2>7
  <1>5. ASSUME NEW i \in 1..Len(queries)
        PROVE  /\ filled[i] \in QueryRecords /\ filled[i].id = <<"Q", i>>
               /\ \A k \in 1..Len(filled[i].results) :
                     MatchedBy(filled[i].results[k], filled[i], chunks)
    <2> DEFINE f == found(i)
               q == filled[i]
    <2>1. q = [queries[i] EXCEPT !.results = f]
      BY <1>2, <1>3
    <2>2. f \in Seq(Points) /\ \A k \in 1..Len(f) : MatchedBy(f[k], queries[i], chunks)
      BY <1>4
    <2> HIDE DEF f, q
    <2>3. /\ q \in QueryRecords
          /\ q.results = f /\ q.id = queries[i].id /\ q.source = queries[i].source
      BY <1>3, <2>1, <2>2 DEF QueryRecords
    <2>4. \A k \in 1..Len(f) : MatchedBy(f[k], q, chunks)
      BY <2>2, <2>3 DEF MatchedBy
    <2>5. q.id = <<"Q", i>>
      BY <2>3 DEF QueriesFor
    <2> QED
      BY <2>3, <2>4, <2>5 DEF q
  <1> HIDE DEF found, matched
  <1>6. filled = [i \in DOMAIN queries |-> filled[i]]
    BY <1>2
  <1> HIDE DEF filled, context
  <1>7. filled \in Seq(QueryRecords) /\ Len(filled) = Len(queries)
    BY <1>3, <1>5, <1>6, MappedSeq DEF QueriesFor
  <1>8. IdsUnique(filled)
    <2>1. DOMAIN filled = 1..Len(queries)
      BY <1>3, <1>6
    <2> QED BY <1>5, <2>1 DEF IdsUnique
  <1>9. IdsUnique(chunks)
    BY LenProperties DEF IdsUnique, ChunksFor
  <1> QED
    BY <1>1, <1>5, <1>7, <1>8, <1>9 DEF GroundedContext, ValidContext, context

-----------------------------------------------------------------------------
(* The order of the recommendations                                        *)

\* What there is to recommend something for.
SpecElements(all) ==
    \A x \in all : /\ x.severity \in 1..5
                   /\ x.priority = SeverityToPriority(x.severity)
                   /\ x.category = DomainOf(x.source)
                   /\ x.source \in FindingIds

\* The severities of each priority.
LEMMA PriorityValues ==
    \A severity \in 1..5 :
        /\ SeverityToPriority(severity) \in {"P1", "P2", "P3"}
        /\ SeverityToPriority(severity) = "P1" <=> severity >= 4
        /\ SeverityToPriority(severity) = "P2" <=> severity = 3
        /\ SeverityToPriority(severity) = "P3" <=> severity <= 2
  BY SeverityValues DEF SeverityToPriority

\* A bucket lists the specs of its priority, and the sort keeps them.
LEMMA BucketProperties ==
    ASSUME NEW all, SpecElements(all), NEW specs, Lists(specs, all), NEW priority
    PROVE  LET sorted == SortedDescending(Bucket(specs, priority))
           IN  /\ Lists(sorted, {x \in all : x.priority = priority})
               /\ Descending(sorted)
  <1> DEFINE kept == {s \in ToSet(specs) : s.priority = priority}
             mine == {x \in all : x.priority = priority}
             t    == Bucket(specs, priority)
  <1>1. DOMAIN specs = 1..Len(specs) /\ \A i \in 1..Len(specs) : specs[i] \in all
    BY LenProperties, ElementOfSeq DEF Lists
  <1>2. ToSet(specs) = all
    BY <1>1 DEF ToSet, Lists
  <1>3. all \cap kept = mine
    BY <1>2
  <1>4. t = Only(specs, kept)
    BY DEF Bucket
  <1>5. \A x \in mine : x.severity \in Int
    BY DEF SpecElements
  <1> HIDE DEF kept, mine, t
  <1>6. Lists(t, mine)
    BY <1>3, <1>4, OnlyLists
  <1>7. Lists(SortedDescending(t), mine) /\ Descending(SortedDescending(t))
    BY <1>5, <1>6, SortLists
  <1> QED
    BY <1>7 DEF mine, t

\* A list that is followed by one of milder elements.
LEMMA ConcatDescending ==
    ASSUME NEW S, NEW s, Lists(s, S), Descending(s), NEW U, NEW u, Lists(u, U), Descending(u),
           S \cap U = {}, \A x \in S, y \in U : x.severity >= y.severity
    PROVE  Lists(s \o u, S \cup U) /\ Descending(s \o u)
  <1>1. Lists(s \o u, S \cup U) /\ Len(s \o u) = Len(s) + Len(u)
    BY ConcatLists
  <1>2. /\ Len(s) \in Nat /\ \A i \in 1..Len(s) : s[i] \in S
        /\ Len(u) \in Nat /\ \A i \in 1..Len(u) : u[i] \in U
    BY LenProperties, ElementOfSeq DEF Lists
  <1>3. s \in Seq(S \cup U) /\ u \in Seq(S \cup U)
    <2>1. s \in [1..Len(s) -> S \cup U] /\ u \in [1..Len(u) -> S \cup U]
      BY <1>2, LenProperties DEF Lists
    <2> QED
      BY <1>2, <2>1, ListedSeq
  <1>4. \A i \in 1..(Len(s) + Len(u)) :
           (s \o u)[i] = IF i <= Len(s) THEN s[i] ELSE u[i - Len(s)]
    BY <1>3, ConcatProperties
  <1> DEFINE t == s \o u
  <1>5. /\ \A i \in 1..Len(s) : t[i] = s[i]
        /\ \A i \in 1..(Len(s) + Len(u)) :
              ~(i <= Len(s)) => i - Len(s) \in 1..Len(u) /\ t[i] = u[i - Len(s)]
    BY <1>2, <1>4
  <1> HIDE DEF t
  <1>6. ASSUME NEW i \in 1..(Len(s) + Len(u)), NEW j \in 1..(Len(s) + Len(u)), i < j
        PROVE  t[i].severity >= t[j].severity
    <2>1. CASE j <= Len(s)
      <3>1. i \in 1..Len(s) /\ j \in 1..Len(s)
        BY <1>2, <1>6, <2>1
      <3> QED
        BY <1>5, <1>6, <3>1 DEF Descending
    <2>2. CASE i <= Len(s) /\ ~(j <= Len(s))
      <3>1. i \in 1..Len(s)
        BY <1>2, <2>2
      <3>2. t[i] \in S /\ t[j] \in U
        BY <1>2, <1>5, <2>2, <3>1
      <3> QED
        BY <3>2
    <2>3. CASE ~(i <= Len(s))
      <3>1. ~(j <= Len(s)) /\ i - Len(s) < j - Len(s)
        BY <1>2, <1>6, <2>3
      <3>2. /\ i - Len(s) \in 1..Len(u) /\ j - Len(s) \in 1..Len(u)
            /\ t[i] = u[i - Len(s)] /\ t[j] = u[j - Len(s)]
        BY <1>5, <2>3, <3>1
      <3> QED
        BY <3>1, <3>2 DEF Descending
    <2> QED
      BY <2>1, <2>2, <2>3
  <1>7. Descending(t)
    BY <1>1, <1>6 DEF Descending, t
  <1> QED
    BY <1>1, <1>7 DEF t

\* The order in which the specs are cut: all of them, and the severest first.
LEMMA OrderProperties ==
    ASSUME NEW all, SpecElements(all), NEW specs, Lists(specs, all)
    PROVE  Lists(OrderSpecs(specs), all) /\ Descending(OrderSpecs(specs))
  <1> DEFINE of(p) == {x \in all : x.priority = p}
             s1 == SortedDescending(Bucket(specs, "P1"))
             s2 == SortedDescending(Bucket(specs, "P2"))
             s3 == SortedDescending(Bucket(specs, "P3"))
             A == of("P1")
             B == of("P2")
             C == of("P3")
  <1>1. /\ Lists(s1, A) /\ Descending(s1)
        /\ Lists(s2, B) /\ Descending(s2)
        /\ Lists(s3, C) /\ Descending(s3)
    BY BucketProperties
  <1>2. /\ \A x \in A : x.severity \in 1..5 /\ x.severity >= 4
        /\ \A x \in B : x.severity \in 1..5 /\ x.severity = 3
        /\ \A x \in C : x.severity \in 1..5 /\ x.severity <= 2
    BY PriorityValues DEF SpecElements
  <1>3. (A \cup B) \cup C = all
    BY PriorityValues DEF SpecElements
  <1>4. OrderSpecs(specs) = (s1 \o s2) \o s3
    BY DEF OrderSpecs
  <1> HIDE DEF s1, s2, s3, A, B, C
  <1>5. Lists(s1 \o s2, A \cup B) /\ Descending(s1 \o s2)
    <2>1. A \cap B = {} /\ \A x \in A, y \in B : x.severity >= y.severity
      BY <1>2
    <2> QED
      BY <1>1, <2>1, ConcatDescending
  <1>6. Lists((s1 \o s2) \o s3, (A \cup B) \cup C) /\ Descending((s1 \o s2) \o s3)
    <2> DEFINE front == s1 \o s2
               AB    == A \cup B
    <2>1. AB \cap C = {} /\ \A x \in AB, y \in C : x.severity >= y.severity
      BY <1>2
    <2>2. Lists(front, AB) /\ Descending(front)
      BY <1>5
    <2> HIDE DEF front, AB
    <2>3. Lists(front \o s3, AB \cup C) /\ Descending(front \o s3)
      BY <1>1, <2>1, <2>2, ConcatDescending
    <2> QED
      BY <2>3 DEF front, AB
  <1> QED
    BY <1>3, <1>4, <1>6

-----------------------------------------------------------------------------
(* The citations                                                           *)

\* A chunk that was found for a finding: matched by a query that was made for it, and of
\* the part of the knowledge base it belongs to.
FoundFor(id, source, context) ==
    \E c \in ToSet(context.chunks), q \in ToSet(context.queries) :
        /\ c.id = id
        /\ c.domain = DomainOf(source)
        /\ q.source = source
        /\ q.id \in c.queries

\* What a recommendation cites was found for its finding.
LEMMA CitedProperties ==
    ASSUME NEW context, context = None \/ GroundedContext(context), NEW source
    PROVE  LET cited == CitedChunks(context, source)
           IN  /\ cited \in Seq(Points)
               /\ Len(cited) \in Nat /\ Len(cited) <= MaxExcerpts
               /\ DOMAIN cited = 1..Len(cited)
               /\ \A k \in 1..Len(cited) : FoundFor(cited[k], source, context)
  <1> DEFINE cited == CitedChunks(context, source)
  <1>1. MaxExcerpts \in Nat
    BY CapsAssumption
  <1>2. CASE context = None
    <2>1. cited = <<>> /\ Len(cited) = 0 /\ cited \in Seq(Points)
      BY <1>2, EmptySeq DEF CitedChunks
    <2> HIDE DEF cited
    <2>2. DOMAIN cited = 1..Len(cited)
      BY <2>1, LenProperties
    <2> QED
      BY <1>1, <2>1, <2>2 DEF cited
  <1>3. CASE context # None
    <2> DEFINE kept    == {q \in ToSet(context.queries) : q.source = source}
               mine    == Only(context.queries, kept)
               results == [i \in DOMAIN mine |-> mine[i].results]
               flat    == Flatten(results)
               list    == Distinct(flat)
    <2>1. GroundedContext(context) /\ cited = FirstOf(list, MaxExcerpts)
      BY <1>3 DEF CitedChunks
    <2> HIDE DEF cited
    <2>2. \A q \in kept : q \in ToSet(context.queries) /\ q.source = source
      OBVIOUS
    <2> HIDE DEF kept
    <2>3. mine \in Seq(QueryRecords) /\ Keeps(mine, context.queries, kept)
      BY <2>1, OnlyProperties DEF GroundedContext
    <2> HIDE DEF mine
    <2>4. /\ DOMAIN mine = 1..Len(mine) /\ Len(mine) \in Nat
          /\ \A i \in 1..Len(mine) : /\ mine[i] \in QueryRecords /\ mine[i] \in kept
                                     /\ \E k \in 1..Len(context.queries) :
                                           mine[i] = context.queries[k]
      BY <2>3, LenProperties, ElementOfSeq DEF Keeps, DrawnFrom
    <2>5. results = [i \in DOMAIN mine |-> results[i]]
             /\ \A i \in DOMAIN mine : results[i] = mine[i].results
      OBVIOUS
    <2> HIDE DEF results
    <2>6. /\ results \in Seq(Seq(Points)) /\ Len(results) = Len(mine)
          /\ DOMAIN results = 1..Len(mine)
      <3>1. \A i \in DOMAIN mine : results[i] \in Seq(Points)
        BY <2>4, <2>5 DEF QueryRecords
      <3> QED
        BY <2>3, <2>5, <3>1, MappedSeq
    <2>7. flat \in Seq(Points) /\ DrawnFromAny(flat, results)
      BY <2>6, FlattenProperties
    <2> HIDE DEF flat
    <2>8. list \in Seq(Points) /\ DrawnFrom(list, flat)
      BY <2>7, DistinctProperties
    <2> HIDE DEF list
    <2>9. /\ cited \in Seq(Points)
          /\ Len(cited) = (IF MaxExcerpts <= Len(list) THEN MaxExcerpts ELSE Len(list))
          /\ \A i \in 1..Len(cited) : cited[i] = list[i]
      BY <1>1, <2>1, <2>8, FirstOfProperties
    <2>10. Len(list) \in Nat /\ Len(cited) \in Nat /\ DOMAIN cited = 1..Len(cited)
      BY <2>8, <2>9, LenProperties
    <2>11. Len(cited) <= MaxExcerpts /\ Len(cited) <= Len(list)
      BY <1>1, <2>9, <2>10
    <2>12. ASSUME NEW i \in 1..Len(mine), NEW b \in 1..Len(mine[i].results)
           PROVE  FoundFor(mine[i].results[b], source, context)
      <3>1. PICK k \in 1..Len(context.queries) : mine[i] = context.queries[k]
        BY <2>4
      <3>2. MatchedBy(mine[i].results[b], mine[i], context.chunks)
        BY <2>1, <3>1 DEF GroundedContext
      <3>3. mine[i] \in ToSet(context.queries) /\ mine[i].source = source
        BY <2>2, <2>4
      <3> QED
        BY <3>2, <3>3 DEF MatchedBy, FoundFor
    <2>13. ASSUME NEW k \in 1..Len(cited)
           PROVE  FoundFor(cited[k], source, context)
      <3>1. k \in 1..Len(list) /\ cited[k] = list[k]
        BY <2>9, <2>10, <2>11
      <3>2. PICK j \in 1..Len(flat) : list[k] = flat[j]
        BY <2>8, <3>1 DEF DrawnFrom
      <3>3. PICK a \in 1..Len(results) : \E b \in 1..Len(results[a]) : flat[j] = results[a][b]
        BY <2>7 DEF DrawnFromAny
      <3>4. PICK b \in 1..Len(results[a]) : flat[j] = results[a][b]
        BY <3>3
      <3>5. a \in 1..Len(mine) /\ results[a] = mine[a].results
        BY <2>4, <2>5, <2>6
      <3> QED
        BY <2>12, <3>1, <3>2, <3>4, <3>5
    <2> QED
      BY <2>9, <2>10, <2>11, <2>13 DEF cited
  <1> QED
    BY <1>2, <1>3

-----------------------------------------------------------------------------
(* The recommendations                                                     *)

\* An answer of Gemini to the recommendation agent, as AnswersAssumption has it.
WordedRecommendation(answer) ==
    /\ answer.steps \in Nat
    /\ \A id \in DOMAIN answer.texts : /\ answer.texts[id].text \in Nat
                                       /\ answer.texts[id].rationale \in Nat
                                       /\ answer.texts[id].context \in Nat

\* The finding a recommendation is for, of the same severity.
ForFinding(rec, findings) ==
    \E k \in DOMAIN findings : /\ findings[k].id = rec.source
                               /\ findings[k].severity = rec.severity

\* A sequence of its own elements.
IsList(s) == s \in Seq({s[i] : i \in 1..Len(s)})

\* A list of specs or of recommendations: of the worst findings, each once, the worst first,
\* with what was found for them.
WorstFindings(recs, architecture, security, context) ==
    /\ DOMAIN recs = 1..Len(recs) /\ Len(recs) \in Nat /\ Len(recs) <= MaxRecommendations
    /\ Descending(recs)
    /\ \A i \in 1..Len(recs) :
          /\ recs[i].id = <<"REC", i>>
          /\ recs[i].severity \in 1..5
          /\ recs[i].priority = SeverityToPriority(recs[i].severity)
          /\ recs[i].category = DomainOf(recs[i].source)
          /\ ForFinding(recs[i], architecture.weaknesses) \/ ForFinding(recs[i], security.findings)
          /\ recs[i].cited = CitedChunks(context, recs[i].source)
    /\ \A i, j \in 1..Len(recs) : recs[i].source = recs[j].source => i = j
    /\ WorstHave(recs, architecture.weaknesses, MaxRecommendations)
    /\ WorstHave(recs, security.findings, MaxRecommendations)

\* The specs of the recommendations.
LEMMA RecommendationSpecsProperties ==
    ASSUME NEW pcr, NEW architecture, WeaknessesOf(architecture, pcr),
           NEW security, FindingsOf(security, pcr), NEW context
    PROVE  /\ WorstFindings(RecommendationSpecs(architecture, security, context),
                            architecture, security, context)
           /\ IsList(RecommendationSpecs(architecture, security, context))
           /\ CollectSpecs(architecture, security) = <<>> <=>
                 Len(architecture.weaknesses) + Len(security.findings) = 0
  <1> DEFINE a == architecture.weaknesses
             b == security.findings
             s == [i \in DOMAIN a |-> SpecOf(a[i], "ARCHITECTURE")]
             t == [i \in DOMAIN b |-> SpecOf(b[i], "SECURITY")]
             all == ElementsOf(s) \cup ElementsOf(t)
             collected == CollectSpecs(architecture, security)
             final == FirstOf(OrderSpecs(collected), MaxRecommendations)
             made(i) == [id |-> <<"REC", i>>, source |-> final[i].source,
                         title |-> final[i].title, severity |-> final[i].severity,
                         priority |-> final[i].priority, category |-> final[i].category,
                         cited |-> CitedChunks(context, final[i].source)]
             recs == RecommendationSpecs(architecture, security, context)
  <1>1. FindingList("AW", a) /\ FindingList("SF", b)
    BY DEF WeaknessesOf, FindingsOf
  <1>2. ItemFor(s, a) /\ ItemFor(t, b)
    BY DEF ItemFor, SpecOf
  <1>3. collected = s \o t
    BY DEF CollectSpecs
  <1>4. recs = [i \in DOMAIN final |-> made(i)]
    BY DEF RecommendationSpecs
  <1>5. /\ DOMAIN s = DOMAIN a /\ DOMAIN t = DOMAIN b
        /\ \A i \in DOMAIN a : /\ s[i].source = a[i].id /\ s[i].severity = a[i].severity
                               /\ s[i].category = "ARCHITECTURE"
                               /\ s[i].priority = SeverityToPriority(a[i].severity)
        /\ \A i \in DOMAIN b : /\ t[i].source = b[i].id /\ t[i].severity = b[i].severity
                               /\ t[i].category = "SECURITY"
                               /\ t[i].priority = SeverityToPriority(b[i].severity)
    BY DEF SpecOf
  <1>6. /\ \A i \in DOMAIN a : /\ a[i].id \in FindingIds /\ DomainOf(a[i].id) = "ARCHITECTURE"
                               /\ a[i].severity \in 1..5
        /\ \A i \in DOMAIN b : /\ b[i].id \in FindingIds /\ DomainOf(b[i].id) = "SECURITY"
                               /\ b[i].severity \in 1..5
    <2>1. \A i \in 1..6 : /\ <<"AW", i>> \in FindingIds /\ DomainOf(<<"AW", i>>) = "ARCHITECTURE"
                          /\ <<"SF", i>> \in FindingIds /\ DomainOf(<<"SF", i>>) = "SECURITY"
      BY DEF FindingIds, DomainOf
    <2>2. \A kind, items : FindingList(kind, items) =>
             \A i \in DOMAIN items : /\ i \in 1..6 /\ items[i].id = <<kind, i>>
                                     /\ items[i].severity \in 1..5
      BY SeverityValues DEF FindingList
    <2> HIDE DEF a, b
    <2>3. /\ \A i \in DOMAIN a : i \in 1..6 /\ a[i].id = <<"AW", i>> /\ a[i].severity \in 1..5
          /\ \A i \in DOMAIN b : i \in 1..6 /\ b[i].id = <<"SF", i>> /\ b[i].severity \in 1..5
      BY <1>1, <2>2
    <2> QED
      BY <2>1, <2>3
  <1>7. /\ Lists(collected, all)
        /\ Len(collected) = Len(a) + Len(b)
        /\ \A x, y \in all : x.source = y.source => x = y
    <2> HIDE DEF s, t
    <2>1. /\ Lists(s \o t, all)
          /\ Len(s \o t) = Len(a) + Len(b)
          /\ \A x \in all : x.severity \in 1..5
          /\ \A x, y \in all : x.source = y.source => x = y
      BY <1>1, <1>2, BothListed
    <2> QED
      BY <1>3, <2>1
  <1>8. /\ \A k \in DOMAIN a : \E x \in all : x.source = a[k].id /\ x.severity = a[k].severity
        /\ \A k \in DOMAIN b : \E x \in all : x.source = b[k].id /\ x.severity = b[k].severity
    <2> HIDE DEF s, t, a, b
    <2>1. \A k \in DOMAIN a : s[k] \in all
      BY <1>5 DEF ElementsOf
    <2>2. \A k \in DOMAIN b : t[k] \in all
      BY <1>5 DEF ElementsOf
    <2> QED
      BY <1>5, <2>1, <2>2
  <1>9. ASSUME NEW x \in all
        PROVE  /\ x.severity \in 1..5
               /\ x.priority = SeverityToPriority(x.severity)
               /\ x.category = DomainOf(x.source)
               /\ x.source \in FindingIds
               /\ ForFinding(x, a) \/ ForFinding(x, b)
    <2> HIDE DEF s, t, a, b
    <2>1. CASE x \in ElementsOf(s)
      <3>1. PICK i \in DOMAIN a : x = s[i]
        BY <1>5, <2>1 DEF ElementsOf
      <3>2. /\ x.source = a[i].id /\ x.severity = a[i].severity
            /\ x.category = "ARCHITECTURE"
            /\ x.priority = SeverityToPriority(a[i].severity)
            /\ DomainOf(a[i].id) = "ARCHITECTURE"
        BY <1>5, <1>6, <3>1, Zenon
      <3>3. x.category = DomainOf(x.source) /\ x.priority = SeverityToPriority(x.severity)
        BY <3>2, Zenon
      <3>4. x.severity \in 1..5 /\ x.source \in FindingIds
        BY <1>6, <3>2
      <3> QED
        BY <3>2, <3>3, <3>4 DEF ForFinding
    <2>2. CASE x \in ElementsOf(t)
      <3>1. PICK i \in DOMAIN b : x = t[i]
        BY <1>5, <2>2 DEF ElementsOf
      <3>2. /\ x.source = b[i].id /\ x.severity = b[i].severity
            /\ x.category = "SECURITY"
            /\ x.priority = SeverityToPriority(b[i].severity)
            /\ DomainOf(b[i].id) = "SECURITY"
        BY <1>5, <1>6, <3>1, Zenon
      <3>3. x.category = DomainOf(x.source) /\ x.priority = SeverityToPriority(x.severity)
        BY <3>2, Zenon
      <3>4. x.severity \in 1..5 /\ x.source \in FindingIds
        BY <1>6, <3>2
      <3> QED
        BY <3>2, <3>3, <3>4 DEF ForFinding
    <2> QED
      BY <2>1, <2>2
  <1> HIDE DEF s, t, all, collected
  <1>10. SpecElements(all)
    BY <1>9 DEF SpecElements
  <1>11. Lists(OrderSpecs(collected), all) /\ Descending(OrderSpecs(collected))
    BY <1>7, <1>10, OrderProperties
  <1>12. MaxRecommendations \in Nat /\ \A x \in all : x.severity \in Int
    BY <1>9, CapsAssumption
  <1>13. WorstOf(final, all, MaxRecommendations)
    BY <1>11, <1>12, FirstOfDescending
  <1> HIDE DEF final
  <1>14. /\ final \in Seq(all) /\ DOMAIN final = 1..Len(final) /\ Len(final) \in Nat
         /\ Len(final) <= MaxRecommendations
         /\ \A i \in 1..Len(final) : final[i] \in all
    BY <1>13, LenProperties, ElementOfSeq DEF WorstOf
  <1>15. /\ recs = [i \in 1..Len(final) |-> recs[i]]
         /\ \A i \in 1..Len(final) :
               /\ recs[i].id = <<"REC", i>>
               /\ recs[i].source = final[i].source
               /\ recs[i].severity = final[i].severity
               /\ recs[i].priority = final[i].priority
               /\ recs[i].category = final[i].category
               /\ recs[i].cited = CitedChunks(context, final[i].source)
    BY <1>4, <1>14
  <1> HIDE DEF recs
  <1>16. /\ Len(recs) = Len(final) /\ DOMAIN recs = 1..Len(final)
         /\ recs \in Seq({recs[i] : i \in 1..Len(recs)})
    <2> DEFINE S == {recs[i] : i \in 1..Len(final)}
    <2>1. recs \in [1..Len(final) -> S]
      BY <1>15
    <2> HIDE DEF S
    <2>2. Len(recs) = Len(final) /\ recs \in Seq(S)
      BY <1>14, <2>1, ListedSeq
    <2> QED
      BY <2>1, <2>2 DEF S
  <1>17. Descending(recs)
    BY <1>13, <1>15, <1>16 DEF Descending, WorstOf
  <1>18. \A i, j \in 1..Len(recs) : recs[i].source = recs[j].source => i = j
    BY <1>7, <1>13, <1>14, <1>15, <1>16 DEF WorstOf
  <1>19. \A x \in all :
            \/ \E i \in DOMAIN recs : recs[i].source = x.source
            \/ /\ Len(recs) = MaxRecommendations
               /\ \A i \in DOMAIN recs : recs[i].severity >= x.severity
    <2> SUFFICES ASSUME NEW x \in all
                 PROVE  \/ \E i \in DOMAIN recs : recs[i].source = x.source
                        \/ /\ Len(recs) = MaxRecommendations
                           /\ \A i \in DOMAIN recs : recs[i].severity >= x.severity
      OBVIOUS
    <2>1. CASE \E i \in 1..Len(final) : final[i] = x
      BY <1>15, <1>16, <2>1
    <2>2. CASE ~ \E i \in 1..Len(final) : final[i] = x
      <3>1. /\ Len(final) = MaxRecommendations
            /\ \A i \in 1..Len(final) : final[i].severity >= x.severity
        BY <1>13, <2>2 DEF WorstOf
      <3> QED
        BY <1>15, <1>16, <3>1
    <2> QED
      BY <2>1, <2>2
  <1>20. WorstHave(recs, a, MaxRecommendations) /\ WorstHave(recs, b, MaxRecommendations)
    <2> HIDE DEF a, b
    <2>1. WorstHave(recs, a, MaxRecommendations)
      BY <1>8, <1>19 DEF WorstHave
    <2>2. WorstHave(recs, b, MaxRecommendations)
      BY <1>8, <1>19 DEF WorstHave
    <2> QED
      BY <2>1, <2>2
  <1>21. ASSUME NEW i \in 1..Len(recs)
         PROVE  /\ recs[i].id = <<"REC", i>>
                /\ recs[i].severity \in 1..5
                /\ recs[i].priority = SeverityToPriority(recs[i].severity)
                /\ recs[i].category = DomainOf(recs[i].source)
                /\ ForFinding(recs[i], a) \/ ForFinding(recs[i], b)
                /\ recs[i].cited = CitedChunks(context, recs[i].source)
    <2> DEFINE x == final[i]
               r == recs[i]
    <2>1. /\ x \in all
          /\ r.id = <<"REC", i>> /\ r.source = x.source /\ r.severity = x.severity
          /\ r.priority = x.priority /\ r.category = x.category
          /\ r.cited = CitedChunks(context, x.source)
      BY <1>14, <1>15, <1>16
    <2> HIDE DEF x, r, a, b
    <2>2. /\ x.severity \in 1..5
          /\ x.priority = SeverityToPriority(x.severity)
          /\ x.category = DomainOf(x.source)
          /\ ForFinding(x, a) \/ ForFinding(x, b)
      BY <1>9, <2>1
    <2>3. ForFinding(r, a) \/ ForFinding(r, b)
      BY <2>1, <2>2 DEF ForFinding
    <2>4. /\ r.severity \in 1..5 /\ r.priority = SeverityToPriority(r.severity)
          /\ r.category = DomainOf(r.source) /\ r.cited = CitedChunks(context, r.source)
      BY <2>1, <2>2, Zenon
    <2> QED
      BY <2>1, <2>3, <2>4 DEF r
  <1>22. WorstFindings(recs, architecture, security, context)
    BY <1>14, <1>16, <1>17, <1>18, <1>20, <1>21 DEF WorstFindings
  <1>23. collected = <<>> <=> Len(a) + Len(b) = 0
    <2>1. collected \in Seq(all)
      BY <1>7 DEF Lists
    <2> HIDE DEF a, b
    <2> QED
      BY <1>7, <2>1, EmptySeq
  <1> QED
    BY <1>16, <1>22, <1>23 DEF recs, collected, IsList

\* As many are in a bucket as have its priority.
LEMMA BucketLength ==
    ASSUME NEW T, NEW specs \in Seq(T), NEW priority
    PROVE  Len(Bucket(specs, priority)) =
              Cardinality({i \in DOMAIN specs : specs[i].priority = priority})
  <1> DEFINE kept == {s \in ToSet(specs) : s.priority = priority}
  <1>1. Bucket(specs, priority) = Only(specs, kept)
    BY DEF Bucket
  <1>2. DOMAIN specs = 1..Len(specs)
    BY LenProperties
  <1>3. {i \in 1..Len(specs) : specs[i] \in kept} = {i \in DOMAIN specs : specs[i].priority = priority}
    BY <1>2 DEF ToSet
  <1> HIDE DEF kept
  <1>4. Len(Only(specs, kept)) = Cardinality({i \in 1..Len(specs) : specs[i] \in kept})
    BY OnlyProperties
  <1> QED
    BY <1>1, <1>3, <1>4

\* Items with the findings, the order and the citations of others.
SameSpecs(items, specs) ==
    /\ items = [i \in DOMAIN specs |-> items[i]]
    /\ \A i \in DOMAIN specs : /\ items[i].id = specs[i].id
                               /\ items[i].source = specs[i].source
                               /\ items[i].severity = specs[i].severity
                               /\ items[i].priority = specs[i].priority
                               /\ items[i].category = specs[i].category
                               /\ items[i].cited = specs[i].cited

LEMMA SameWorstFindings ==
    ASSUME NEW architecture, NEW security, NEW context, NEW specs,
           WorstFindings(specs, architecture, security, context),
           NEW items, SameSpecs(items, specs)
    PROVE  /\ WorstFindings(items, architecture, security, context)
           /\ IsList(items)
           /\ Len(items) = Len(specs)
  <1>1. DOMAIN specs = 1..Len(specs) /\ Len(specs) \in Nat /\ Len(specs) <= MaxRecommendations
    BY DEF WorstFindings
  <1>2. /\ items = [i \in 1..Len(specs) |-> items[i]]
        /\ \A i \in 1..Len(specs) : /\ items[i].id = specs[i].id
                                    /\ items[i].source = specs[i].source
                                    /\ items[i].severity = specs[i].severity
                                    /\ items[i].priority = specs[i].priority
                                    /\ items[i].category = specs[i].category
                                    /\ items[i].cited = specs[i].cited
    BY <1>1 DEF SameSpecs
  <1>3. /\ Len(items) = Len(specs) /\ DOMAIN items = 1..Len(specs)
        /\ items \in Seq({items[i] : i \in 1..Len(items)})
    <2> DEFINE S == {items[i] : i \in 1..Len(specs)}
    <2>1. items \in [1..Len(specs) -> S]
      BY <1>2
    <2> HIDE DEF S
    <2>2. Len(items) = Len(specs) /\ items \in Seq(S)
      BY <1>1, <2>1, ListedSeq
    <2> QED
      BY <2>1, <2>2 DEF S
  <1>4. Descending(items)
    BY <1>2, <1>3 DEF WorstFindings, Descending
  <1>5. ASSUME NEW i \in 1..Len(items)
        PROVE  /\ items[i].id = <<"REC", i>>
               /\ items[i].severity \in 1..5
               /\ items[i].priority = SeverityToPriority(items[i].severity)
               /\ items[i].category = DomainOf(items[i].source)
               /\ \/ ForFinding(items[i], architecture.weaknesses)
                  \/ ForFinding(items[i], security.findings)
               /\ items[i].cited = CitedChunks(context, items[i].source)
    <2> DEFINE x == specs[i]
               r == items[i]
    <2>1. /\ r.id = x.id /\ r.source = x.source /\ r.severity = x.severity
          /\ r.priority = x.priority /\ r.category = x.category /\ r.cited = x.cited
      BY <1>2, <1>3
    <2>2. /\ x.id = <<"REC", i>> /\ x.severity \in 1..5
          /\ x.priority = SeverityToPriority(x.severity)
          /\ x.category = DomainOf(x.source)
          /\ ForFinding(x, architecture.weaknesses) \/ ForFinding(x, security.findings)
          /\ x.cited = CitedChunks(context, x.source)
      BY <1>3 DEF WorstFindings
    <2> HIDE DEF x, r
    <2>3. ForFinding(r, architecture.weaknesses) \/ ForFinding(r, security.findings)
      BY <2>1, <2>2 DEF ForFinding
    <2>4. /\ r.id = <<"REC", i>> /\ r.severity \in 1..5
          /\ r.priority = SeverityToPriority(r.severity)
          /\ r.category = DomainOf(r.source) /\ r.cited = CitedChunks(context, r.source)
      BY <2>1, <2>2, Zenon
    <2> QED
      BY <2>3, <2>4 DEF r
  <1>6. \A i, j \in 1..Len(items) : items[i].source = items[j].source => i = j
    BY <1>2, <1>3 DEF WorstFindings
  <1>7. ASSUME NEW findings, WorstHave(specs, findings, MaxRecommendations)
        PROVE  WorstHave(items, findings, MaxRecommendations)
    BY <1>1, <1>2, <1>3, <1>7 DEF WorstHave
  <1>8. /\ WorstHave(items, architecture.weaknesses, MaxRecommendations)
        /\ WorstHave(items, security.findings, MaxRecommendations)
    BY <1>7 DEF WorstFindings
  <1>9. WorstFindings(items, architecture, security, context)
    BY <1>1, <1>3, <1>4, <1>5, <1>6, <1>8 DEF WorstFindings
  <1> QED
    BY <1>3, <1>9 DEF IsList

\* The chunks cited, counted by recommendation and place.
CitedPlaces(recs) ==
    {p \in (DOMAIN recs) \X (1..MaxExcerpts) : p[2] \in DOMAIN recs[p[1]].cited}

LEMMA ChunksUsed ==
    ASSUME NEW architecture, NEW security, NEW context, context = None \/ GroundedContext(context),
           NEW recs, WorstFindings(recs, architecture, security, context)
    PROVE  Len(Flatten([i \in DOMAIN recs |-> recs[i].cited])) = Cardinality(CitedPlaces(recs))
  <1> DEFINE lists == [i \in DOMAIN recs |-> recs[i].cited]
  <1>1. DOMAIN recs = 1..Len(recs) /\ Len(recs) \in Nat
           /\ \A i \in 1..Len(recs) : recs[i].cited = CitedChunks(context, recs[i].source)
    BY DEF WorstFindings
  <1>2. \A i \in 1..Len(recs) : /\ recs[i].cited \in Seq(Points)
                                /\ Len(recs[i].cited) \in Nat /\ Len(recs[i].cited) <= MaxExcerpts
                                /\ DOMAIN recs[i].cited = 1..Len(recs[i].cited)
    BY <1>1, CitedProperties
  <1>3. MaxExcerpts \in Nat
    BY CapsAssumption
  <1>4. lists \in Seq(Seq(Points)) /\ DOMAIN lists = DOMAIN recs
           /\ \A i \in DOMAIN recs : lists[i] = recs[i].cited
    <2>1. lists \in [1..Len(recs) -> Seq(Points)]
      BY <1>1, <1>2
    <2>2. \A i \in DOMAIN recs : lists[i] = recs[i].cited
      OBVIOUS
    <2> HIDE DEF lists
    <2> QED
      BY <1>1, <2>1, <2>2, ListedSeq
  <1> HIDE DEF lists
  <1>5. Len(Flatten(lists)) = Cardinality(PlacesOf(lists))
    BY <1>4, FlattenProperties
  <1>6. ASSUME NEW p
        PROVE  p \in PlacesOf(lists) <=> p \in CitedPlaces(recs)
    <2>1. ASSUME p \in PlacesOf(lists)
          PROVE  p \in CitedPlaces(recs)
      <3>1. PICK a \in DOMAIN recs : p \in {a} \X DOMAIN recs[a].cited
        BY <1>4, <2>1 DEF PlacesOf
      <3>2. \A b \in DOMAIN recs[a].cited : b \in 1..MaxExcerpts
        BY <1>1, <1>2, <1>3
      <3> QED
        BY <3>1, <3>2 DEF CitedPlaces
    <2>2. ASSUME p \in CitedPlaces(recs)
          PROVE  p \in PlacesOf(lists)
      <3>1. p = <<p[1], p[2]>> /\ p[1] \in DOMAIN recs /\ p[2] \in DOMAIN recs[p[1]].cited
        BY <2>2 DEF CitedPlaces
      <3>2. p \in {p[1]} \X DOMAIN lists[p[1]]
        BY <1>4, <3>1
      <3> QED
        BY <1>4, <3>1, <3>2 DEF PlacesOf
    <2> QED
      BY <2>1, <2>2
  <1>7. PlacesOf(lists) = CitedPlaces(recs)
    BY <1>6
  <1> QED
    BY <1>5, <1>7 DEF lists

\* What the report relies on.
RecommendationsOf(section, architecture, security, context) ==
    LET recs == section.recommendations
    IN  /\ section # None
        /\ WorstFindings(recs, architecture, security, context)
        /\ section.counts["P1"] = Cardinality({i \in DOMAIN recs : recs[i].priority = "P1"})
        /\ section.chunksUsed = Cardinality(CitedPlaces(recs))

\* How the recommendation agent ends.
LEMMA RecommendationProperties ==
    ASSUME NEW pcr, NEW architecture, WeaknessesOf(architecture, pcr),
           NEW security, FindingsOf(security, pcr),
           NEW context, context = None \/ GroundedContext(context),
           NEW answer, WordedRecommendation(answer)
    PROVE  LET result == RecommendationRun(architecture, security, context, answer)
           IN  \/ result.error = "LLMResponseParseError"
               \/ /\ result.error = "none"
                  /\ RecommendationsOf(result.value, architecture, security, context)
  <1> DEFINE specs   == RecommendationSpecs(architecture, security, context)
             all     == CollectSpecs(architecture, security)
             recs    == [i \in DOMAIN specs |-> BuildRecommendation(specs[i], answer)]
             section == AssembleRecommendations(architecture, security, context, answer)
             sources == Len(architecture.weaknesses) + Len(security.findings)
  <1>1. /\ section.recommendations = recs
        /\ section.summary = answer.summary
        /\ section.steps = KeptSteps(answer.steps)
        /\ section.counts = PriorityCounts(specs)
        /\ section.sources = sources
        /\ section.chunksUsed = Len(Flatten([i \in DOMAIN specs |-> specs[i].cited]))
        /\ section.note = IF all = <<>> THEN "given" ELSE "none"
        /\ section # None
    <2>1. section =
             [recommendations |-> recs,
              summary    |-> answer.summary,
              steps      |-> KeptSteps(answer.steps),
              counts     |-> PriorityCounts(specs),
              sources    |-> sources,
              chunksUsed |-> Len(Flatten([i \in DOMAIN specs |-> specs[i].cited])),
              note       |-> IF all = <<>> THEN "given" ELSE "none",
              tokens     |-> answer.tokens]
      BY DEF AssembleRecommendations
    <2> HIDE DEF section, recs, specs, all, sources
    <2> QED
      BY <2>1 DEF None
  <1> HIDE DEF section
  <1>2. /\ WorstFindings(specs, architecture, security, context)
        /\ IsList(specs)
        /\ all = <<>> <=> sources = 0
    BY RecommendationSpecsProperties
  <1> HIDE DEF specs, all, sources
  <1>3. ASSUME NEW i \in DOMAIN specs
        PROVE  /\ recs[i].text \in Nat /\ recs[i].text >= 30
               /\ recs[i].rationale \in Nat /\ recs[i].rationale >= 20
               /\ recs[i].context \in Nat /\ recs[i].context >= 10
    <2> DEFINE raw == IF specs[i].id \in DOMAIN answer.texts THEN answer.texts[specs[i].id]
                      ELSE [text |-> 0, rationale |-> 0, context |-> 0]
    <2>1. raw.text \in Nat /\ raw.rationale \in Nat /\ raw.context \in Nat
      BY DEF WordedRecommendation
    <2>2. /\ recs[i].text = OrDefault(raw.text, 30, DefaultText)
          /\ recs[i].rationale = OrDefault(raw.rationale, 20, DefaultText)
          /\ recs[i].context = OrDefault(raw.context, 10, DefaultText)
      BY DEF BuildRecommendation
    <2> HIDE DEF raw, recs
    <2>3. {10, 20, 30} \subseteq 0..DefaultText
      BY DEF DefaultText
    <2> QED
      BY <2>1, <2>2, <2>3, OrDefaultProperties
  <1>4. SameSpecs(recs, specs)
    BY DEF SameSpecs, BuildRecommendation
  <1> HIDE DEF recs
  <1>5. /\ WorstFindings(recs, architecture, security, context)
        /\ IsList(recs)
        /\ Len(recs) = Len(specs)
    BY <1>2, <1>4, SameWorstFindings
  <1>6. /\ DOMAIN recs = DOMAIN specs /\ DOMAIN recs = 1..Len(recs) /\ Len(recs) \in Nat
        /\ \A i \in DOMAIN specs : recs[i].priority = specs[i].priority
    BY <1>4, <1>5 DEF SameSpecs, WorstFindings
  <1>7. \A p \in Priorities : Len(Bucket(recs, p)) = Len(Bucket(specs, p))
    <2> SUFFICES ASSUME NEW p \in Priorities
                 PROVE  Len(Bucket(recs, p)) = Len(Bucket(specs, p))
      OBVIOUS
    <2>1. /\ Len(Bucket(recs, p)) = Cardinality({i \in DOMAIN recs : recs[i].priority = p})
          /\ Len(Bucket(specs, p)) = Cardinality({i \in DOMAIN specs : specs[i].priority = p})
      BY <1>2, <1>5, BucketLength DEF IsList
    <2>2. {i \in DOMAIN recs : recs[i].priority = p} = {i \in DOMAIN specs : specs[i].priority = p}
      BY <1>6
    <2> QED
      BY <2>1, <2>2
  <1>8. PriorityCounts(recs) = PriorityCounts(specs)
    BY <1>7 DEF PriorityCounts
  <1>9. section.counts["P1"] = Cardinality({i \in DOMAIN recs : recs[i].priority = "P1"})
    BY <1>1, <1>5, <1>8, BucketLength DEF PriorityCounts, Priorities, IsList
  <1>10. section.chunksUsed = Cardinality(CitedPlaces(recs))
    <2>1. Len(Flatten([i \in DOMAIN recs |-> recs[i].cited])) = Cardinality(CitedPlaces(recs))
      BY <1>5, ChunksUsed
    <2>2. [i \in DOMAIN recs |-> recs[i].cited] = [i \in DOMAIN specs |-> specs[i].cited]
      BY <1>4, <1>6 DEF SameSpecs
    <2> QED
      BY <1>1, <2>1, <2>2
  <1>11. RecommendationsOf(section, architecture, security, context)
    BY <1>1, <1>5, <1>9, <1>10 DEF RecommendationsOf
  <1>12. RecommendationAnswerUsable(answer) => ValidRecommendationSection(section)
    <2> SUFFICES ASSUME RecommendationAnswerUsable(answer)
                 PROVE  ValidRecommendationSection(section)
      OBVIOUS
    <2>1. section.summary >= 100 /\ answer.steps >= 3 /\ answer.steps \in Nat
      BY <1>1 DEF RecommendationAnswerUsable, MinNextSteps, WordedRecommendation
    <2>2. section.steps \in MinNextSteps..MaxNextSteps
      <3>1. Min({answer.steps, 10}) = IF answer.steps <= 10 THEN answer.steps ELSE 10
        BY <2>1, MinOfTwo
      <3> QED
        BY <1>1, <2>1, <3>1 DEF KeptSteps, MinNextSteps, MaxNextSteps
    <2>3. \A i \in DOMAIN recs : ValidRecommendation(recs[i])
      BY <1>3, <1>6 DEF ValidRecommendation
    <2>4. \A i \in 2..Len(recs) :
             PriorityRank[recs[i - 1].priority] <= PriorityRank[recs[i].priority]
      <3> SUFFICES ASSUME NEW i \in 2..Len(recs)
                   PROVE  PriorityRank[recs[i - 1].priority] <= PriorityRank[recs[i].priority]
        OBVIOUS
      <3>1. i - 1 \in 1..Len(recs) /\ i \in 1..Len(recs) /\ i - 1 < i
        BY <1>6
      <3> DEFINE x == recs[i - 1].severity
                 y == recs[i].severity
      <3>2. /\ x \in 1..5 /\ y \in 1..5 /\ x >= y
            /\ recs[i - 1].priority = SeverityToPriority(x)
            /\ recs[i].priority = SeverityToPriority(y)
        BY <1>5, <3>1 DEF WorstFindings, Descending
      <3> HIDE DEF x, y
      <3>3. PriorityRank[SeverityToPriority(x)] <= PriorityRank[SeverityToPriority(y)]
        BY <3>2, SeverityValues DEF SeverityToPriority, PriorityRank
      <3> QED
        BY <3>2, <3>3
    <2>5. IdsUnique(recs)
      BY <1>5, <1>6 DEF IdsUnique, WorstFindings
    <2>6. section.sources = 0 <=> section.note = "given"
      BY <1>1, <1>2
    <2> QED
      BY <1>1, <1>8, <2>1, <2>2, <2>3, <2>4, <2>5, <2>6 DEF ValidRecommendationSection
  <1>13. RecommendationRun(architecture, security, context, answer) =
            CASE ~RecommendationAnswerUsable(answer) -> Raised("LLMResponseParseError")
              [] RecommendationAnswerUsable(answer) /\ ValidRecommendationSection(section) ->
                     Returned(section)
              [] OTHER -> Raised("ValidationError")
    BY DEF RecommendationRun, section
  <1> QED
    BY <1>11, <1>12, <1>13 DEF Returned, Raised


-----------------------------------------------------------------------------
(* The report                                                              *)

\* The report of some outputs of the nodes.
AssembledReport(architecture, security, recommendations, manifest, pcr) ==
    [sections |-> <<ExecutiveSummary(recommendations, security),
                    RepositoryOverview(manifest, pcr),
                    ArchitectureAssessment(architecture),
                    SecurityFindings(security),
                    Recommendations(recommendations),
                    ActionableNextSteps(recommendations)>>,
     metadata |-> BuildMetadata(architecture, security, recommendations, pcr)]

\* A count of the elements of a list is at most its length.
LEMMA CountOfList ==
    ASSUME NEW recs, DOMAIN recs = 1..Len(recs), Len(recs) \in Nat, NEW priority
    PROVE  /\ Cardinality({i \in DOMAIN recs : recs[i].priority = priority}) \in Nat
           /\ Cardinality({i \in DOMAIN recs : recs[i].priority = priority}) <= Len(recs)
<1>1. IsFiniteSet(1..Len(recs)) /\ Cardinality(1..Len(recs)) = Len(recs)
  <2>1. ASSUME NEW n \in Nat PROVE IsFiniteSet(1..n) /\ Cardinality(1..n) = n
    BY FS_Interval
  <2> QED BY <2>1
<1>2. {i \in DOMAIN recs : recs[i].priority = priority} \in SUBSET (1..Len(recs))
  OBVIOUS
<1> QED
  BY <1>1, <1>2, FS_Subset, FS_CardinalityType

\* How the report service ends: its validators refuse nothing.
LEMMA ReportProperties ==
    ASSUME NEW architecture, NEW security, NEW context, NEW recommendations,
           RecommendationsOf(recommendations, architecture, security, context),
           NEW manifest, NEW pcr
    PROVE  LET result == ReportRun(architecture, security, recommendations, manifest, pcr)
           IN  /\ result.error = "none"
               /\ result.value = AssembledReport(architecture, security, recommendations,
                                                 manifest, pcr)
<1> DEFINE recs   == recommendations.recommendations
           report == AssembledReport(architecture, security, recommendations, manifest, pcr)
<1>1. /\ DOMAIN recs = 1..Len(recs) /\ Len(recs) \in Nat
      /\ recommendations.counts["P1"] =
            Cardinality({i \in DOMAIN recs : recs[i].priority = "P1"})
  BY DEF RecommendationsOf, WorstFindings
<1>2. recommendations.counts["P1"] <= Len(recs)
  BY <1>1, CountOfList
<1>3. report.metadata.p1 <= report.metadata.total
  <2>1. report.metadata = BuildMetadata(architecture, security, recommendations, pcr)
    BY DEF AssembledReport
  <2> QED BY <2>1, <1>2 DEF BuildMetadata
<1>4. /\ Len(report.sections) = 6 /\ Len(SectionOrder) = 6
      /\ DOMAIN report.sections = 1..6
  BY DEF AssembledReport, SectionOrder
<1>5. ASSUME NEW i \in 1..6
      PROVE  report.sections[i].order = i /\ report.sections[i].key = SectionOrder[i]
  <2>1. i \in {1, 2, 3, 4, 5, 6}
    OBVIOUS
  <2>2. /\ report.sections[1].order = 1 /\ report.sections[1].key = "EXECUTIVE_SUMMARY"
        /\ report.sections[2].order = 2 /\ report.sections[2].key = "REPOSITORY_OVERVIEW"
        /\ report.sections[3].order = 3 /\ report.sections[3].key = "ARCHITECTURE_ASSESSMENT"
    BY DEF AssembledReport, ExecutiveSummary, RepositoryOverview, ArchitectureAssessment, Section
  <2>3. /\ report.sections[4].order = 4 /\ report.sections[4].key = "SECURITY_FINDINGS"
        /\ report.sections[5].order = 5 /\ report.sections[5].key = "RECOMMENDATIONS"
        /\ report.sections[6].order = 6 /\ report.sections[6].key = "ACTIONABLE_NEXT_STEPS"
    BY DEF AssembledReport, SecurityFindings, Recommendations, ActionableNextSteps, Section
  <2>4. /\ SectionOrder[1] = "EXECUTIVE_SUMMARY" /\ SectionOrder[2] = "REPOSITORY_OVERVIEW"
        /\ SectionOrder[3] = "ARCHITECTURE_ASSESSMENT" /\ SectionOrder[4] = "SECURITY_FINDINGS"
        /\ SectionOrder[5] = "RECOMMENDATIONS" /\ SectionOrder[6] = "ACTIONABLE_NEXT_STEPS"
    BY DEF SectionOrder
  <2> HIDE DEF report
  <2> QED BY <2>1, <2>2, <2>3, <2>4
<1>6. ValidReport(report)
  BY <1>3, <1>4, <1>5 DEF ValidReport
<1>7. ReportRun(architecture, security, recommendations, manifest, pcr) = Returned(report)
  BY <1>6 DEF ReportRun, AssembledReport
<1> QED
  BY <1>7 DEF Returned

\* What the sections and the metadata of a report state.
LEMMA ReportFacts ==
    ASSUME NEW architecture, NEW security, NEW recommendations, NEW manifest, NEW pcr
    PROVE  LET report == AssembledReport(architecture, security, recommendations, manifest, pcr)
               facts(i) == report.sections[i].facts
               m == report.metadata
           IN  /\ facts(1).risk = security.risk
               /\ facts(1).p1 = recommendations.counts["P1"]
               /\ facts(1).total = Len(recommendations.recommendations)
               /\ facts(2).total = manifest.total
               /\ facts(2).analyzable = manifest.analyzable
               /\ facts(2).parsed = pcr.metadata.parsed
               /\ facts(2).skipped = pcr.metadata.skipped
               /\ facts(2).failed = pcr.metadata.failed
               /\ facts(3).rows = [i \in DOMAIN architecture.weaknesses |->
                                     [id |-> architecture.weaknesses[i].id,
                                      severity |-> architecture.weaknesses[i].severity]]
               /\ facts(4).risk = security.risk
               /\ facts(4).rows = [i \in DOMAIN security.findings |->
                                     [id |-> security.findings[i].id,
                                      severity |-> security.findings[i].severity]]
               /\ facts(5).rows = [i \in DOMAIN recommendations.recommendations |->
                                     [id |-> recommendations.recommendations[i].id,
                                      priority |-> recommendations.recommendations[i].priority,
                                      source |-> recommendations.recommendations[i].source]]
               /\ m.findings = Len(security.findings)
               /\ m.highest = HighestSeverity(security.findings)
               /\ m.total = Len(recommendations.recommendations)
               /\ m.p1 = recommendations.counts["P1"]
               /\ m.files = pcr.metadata.parsed
<1> DEFINE report == AssembledReport(architecture, security, recommendations, manifest, pcr)
<1>1. /\ report.sections[1] = ExecutiveSummary(recommendations, security)
      /\ report.sections[2] = RepositoryOverview(manifest, pcr)
      /\ report.sections[3] = ArchitectureAssessment(architecture)
      /\ report.sections[4] = SecurityFindings(security)
      /\ report.sections[5] = Recommendations(recommendations)
      /\ report.metadata = BuildMetadata(architecture, security, recommendations, pcr)
  BY DEF AssembledReport
<1> HIDE DEF report
<1>2. /\ report.sections[1].facts.risk = security.risk
      /\ report.sections[1].facts.p1 = recommendations.counts["P1"]
      /\ report.sections[1].facts.total = Len(recommendations.recommendations)
  BY <1>1 DEF ExecutiveSummary, Section
<1>3. /\ report.sections[2].facts.total = manifest.total
      /\ report.sections[2].facts.analyzable = manifest.analyzable
      /\ report.sections[2].facts.parsed = pcr.metadata.parsed
      /\ report.sections[2].facts.skipped = pcr.metadata.skipped
      /\ report.sections[2].facts.failed = pcr.metadata.failed
  BY <1>1 DEF RepositoryOverview, Section
<1>4. report.sections[3].facts.rows = [i \in DOMAIN architecture.weaknesses |->
                                     [id |-> architecture.weaknesses[i].id,
                                      severity |-> architecture.weaknesses[i].severity]]
  BY <1>1 DEF ArchitectureAssessment, Section
<1>5. /\ report.sections[4].facts.risk = security.risk
      /\ report.sections[4].facts.rows = [i \in DOMAIN security.findings |->
                                     [id |-> security.findings[i].id,
                                      severity |-> security.findings[i].severity]]
  BY <1>1 DEF SecurityFindings, Section
<1>6. report.sections[5].facts.rows = [i \in DOMAIN recommendations.recommendations |->
                                     [id |-> recommendations.recommendations[i].id,
                                      priority |-> recommendations.recommendations[i].priority,
                                      source |-> recommendations.recommendations[i].source]]
  BY <1>1 DEF Recommendations, Section
<1>7. /\ report.metadata.findings = Len(security.findings)
      /\ report.metadata.highest = HighestSeverity(security.findings)
      /\ report.metadata.total = Len(recommendations.recommendations)
      /\ report.metadata.p1 = recommendations.counts["P1"]
      /\ report.metadata.files = pcr.metadata.parsed
  BY <1>1 DEF BuildMetadata
<1> QED
  BY <1>2, <1>3, <1>4, <1>5, <1>6, <1>7 DEF report

=============================================================================
