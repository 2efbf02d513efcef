------------------------ MODULE KnowledgeBase_proofs ------------------------
(***************************************************************************)
(* What the exit of the loading script tells of the collection, for any    *)
(* documents, any editions of them and any number of loads.                *)
(***************************************************************************)
EXTENDS KnowledgeBase, FiniteSetTheorems, TLAPS

-----------------------------------------------------------------------------
(* The chunks of a text are numbered without a gap                         *)

\* The library states this for an operator, which the provers cannot instantiate.
LEMMA ImageFinite ==
    ASSUME NEW S, IsFiniteSet(S), NEW f
    PROVE  IsFiniteSet({f[x] : x \in S})
  <1> DEFINE T == {f[x] : x \in S}
             g == [x \in S |-> f[x]]
  <1>1. g \in [S -> T]
    OBVIOUS
  <1>2. \A y \in T : \E x \in S : g[x] = y
    OBVIOUS
  <1>3. g \in Surjection(S, T)
    BY <1>1, <1>2 DEF Surjection
  <1> HIDE DEF g, T
  <1>4. IsFiniteSet(T)
    BY <1>3, FS_Surjection
  <1> QED
    BY <1>4 DEF T

LEMMA FixedWindowDomain ==
    ASSUME NEW length \in Nat
    PROVE  \E n \in Nat : DOMAIN FixedWindow(length) = 1..n
  <1>1. (length + (MaxWindow - Overlap) - 1) \div (MaxWindow - Overlap) \in Nat
    BY DEF MaxWindow, Overlap
  <1> QED
    BY <1>1, Zenon DEF FixedWindow

LEMMA WindowsFinite ==
    ASSUME NEW length \in Nat
    PROVE  IsFiniteSet(DOMAIN WindowsOf(length))
  <1>1. CASE length > MaxWindow
    <2>1. PICK n \in Nat : DOMAIN FixedWindow(length) = 1..n
      BY FixedWindowDomain
    <2>2. IsFiniteSet(1..n)
      BY FS_Interval
    <2> QED
      BY <1>1, <2>1, <2>2 DEF WindowsOf
  <1>2. CASE ~(length > MaxWindow)
    <2>1. DOMAIN WindowsOf(length) = 1..1
      BY <1>2 DEF WindowsOf
    <2>2. 1 \in Int
      OBVIOUS
    <2>3. IsFiniteSet(1..1)
      BY <2>2, FS_Interval
    <2> QED
      BY <2>1, <2>3
  <1> QED
    BY <1>1, <1>2

LEMMA PiecesFinite ==
    ASSUME NEW t \in DOMAIN Sections
    PROVE  IsFiniteSet(Pieces(t))
  <1> DEFINE segment(s, k) == [text |-> t, section |-> s, window |-> k,
                               length |-> WindowsOf(Sections[t][s])[k]]
             segments(s) == {segment(s, k) : k \in DOMAIN WindowsOf(Sections[t][s])}
             all == {segments(s) : s \in DOMAIN Sections[t]}
  <1>1. Sections[t] \in Seq(Nat)
    BY KnowledgeAssumption
  <1>2. DOMAIN Sections[t] = 1..Len(Sections[t]) /\ Len(Sections[t]) \in Nat
    BY <1>1
  <1>3. IsFiniteSet(DOMAIN Sections[t])
    BY <1>2, FS_Interval
  <1>4. ASSUME NEW s \in DOMAIN Sections[t] PROVE IsFiniteSet(segments(s))
    <2>1. IsFiniteSet(DOMAIN WindowsOf(Sections[t][s]))
      BY <1>1, WindowsFinite
    <2> DEFINE f == [k \in DOMAIN WindowsOf(Sections[t][s]) |-> segment(s, k)]
    <2>2. segments(s) = {f[k] : k \in DOMAIN WindowsOf(Sections[t][s])}
      BY Zenon
    <2> HIDE DEF f, segments
    <2> QED
      BY <2>1, <2>2, ImageFinite
  <1>5. IsFiniteSet(all)
    <2> DEFINE f == [s \in DOMAIN Sections[t] |-> segments(s)]
    <2> HIDE DEF segments
    <2>1. all = {f[s] : s \in DOMAIN Sections[t]}
      BY Zenon
    <2> HIDE DEF f, all
    <2> QED
      BY <1>3, <2>1, ImageFinite
  <1> HIDE DEF segments
  <1>6. IsFiniteSet(UNION all)
    BY <1>4, <1>5, FS_UNION
  <1>7. Pieces(t) \subseteq UNION all
    BY Zenon DEF Pieces, segments
  <1> QED
    BY <1>6, <1>7, FS_Subset

LEMMA ChunksNumbered ==
    ASSUME NEW t \in DOMAIN Sections
    PROVE  /\ Len(ChunksOf(t)) \in Nat
           /\ DOMAIN ChunksOf(t) = 1..Len(ChunksOf(t))
  <1> DEFINE n == Cardinality(Pieces(t))
             piece(i) == CHOOSE p \in Pieces(t) :
                            Cardinality({q \in Pieces(t) : Precedes(q, p)}) = i - 1
  <1>1. n \in Nat
    BY PiecesFinite, FS_CardinalityType
  <1>2. ChunksOf(t) = [i \in 1..n |-> piece(i)]
    BY Zenon DEF ChunksOf
  <1> HIDE DEF n, piece
  <1>3. DOMAIN [i \in 1..n |-> piece(i)] = 1..n /\ Len([i \in 1..n |-> piece(i)]) = n
    BY <1>1
  <1> QED
    BY <1>1, <1>2, <1>3

-----------------------------------------------------------------------------
(* The invariant                                                           *)

DocumentSet == ToSet(Documents)

\* A point that is as the documents on disk are, and one the load found there.
Current(id) == id \in CurrentIds /\ points[id] = CurrentChunks(id[1])[id[2]]
Kept(id)    == id \in DOMAIN before /\ points[id] = before[id]

\* A chunk of a document the loader has been through.
Passed(id) == \E k \in 1..(document - 1) : Documents[k] = id[1]

\* Where a point comes from while a load runs.
Accounted(id) == (Current(id) /\ Passed(id)) \/ Kept(id)

\* Every chunk of a document is in the collection.
Indexed(d) ==
    \A i \in DOMAIN CurrentChunks(d) :
        <<d, i>> \in DOMAIN points /\ points[<<d, i>>] = CurrentChunks(d)[i]

\* The types, with the edition of every document.
TypeInv ==
    /\ BaseTypeOK
    /\ edition \in [DocumentSet -> Nat]
    /\ loader \in {"document", "embed"} => collection
    /\ loader = "embed" => document <= Len(Documents)

\* No load exits while it runs, and it has changed nothing until its collection is
\* there, which with `recreate` was not there before. From then on each point is current,
\* of a document behind the loader, or was there before, none is lost, and the documents
\* behind the loader are indexed unless an error was counted.
ProgressInv ==
    /\ loader # "idle" => exit = "none"
    /\ loader = "setup" => points = before /\ document = 1
    /\ loader \in {"document", "embed"} =>
          /\ DOMAIN before \subseteq DOMAIN points
          /\ recreate => DOMAIN before = {}
          /\ \A id \in DOMAIN points : Accounted(id)
          /\ errors = 0 => \A j \in 1..(document - 1) : Indexed(Documents[j])

\* The batch has the chunks embedded so far, all of them unless an error was counted.
BatchInv ==
    loader = "embed" =>
        LET d == Documents[document]
        IN  /\ chunk \in 1..(Len(CurrentChunks(d)) + 1)
            /\ \A id \in DOMAIN batch :
                  \E i \in 1..(chunk - 1) : id = <<d, i>> /\ batch[id] = CurrentChunks(d)[i]
            /\ errors = 0 => \A i \in 1..(chunk - 1) : <<d, i>> \in DOMAIN batch

BaseInv == TypeInv /\ ProgressInv /\ BatchInv /\ CleanLoadComplete

-----------------------------------------------------------------------------
(* Types                                                                   *)

LEMMA DocumentsTyped ==
    /\ Len(Documents) \in Nat
    /\ \A j \in 1..Len(Documents) : Documents[j] \in DocumentSet
    /\ \A d \in DocumentSet : \E j \in 1..Len(Documents) : d = Documents[j]
    /\ \A d \in DocumentSet : d \in DOMAIN Editions
  BY KnowledgeAssumption DEF DocumentSet, ToSet

LEMMA EditionsTyped ==
    ASSUME NEW d \in DocumentSet
    PROVE  /\ Len(Editions[d]) \in Nat \ {0}
           /\ DOMAIN Editions[d] = 1..Len(Editions[d])
           /\ \A i \in DOMAIN Editions[d] : Editions[d][i] \in DOMAIN Sections
  <1>1. Editions[d] \in Seq(DOMAIN Sections) /\ Editions[d] # <<>>
    BY DocumentsTyped, KnowledgeAssumption
  <1> QED
    BY <1>1

LEMMA CurrentNumbered ==
    ASSUME BaseTypeOK, NEW d \in DocumentSet
    PROVE  /\ Len(CurrentChunks(d)) \in Nat
           /\ DOMAIN CurrentChunks(d) = 1..Len(CurrentChunks(d))
  <1>1. TextOf(d) \in DOMAIN Sections
    BY EditionsTyped DEF BaseTypeOK, TextOf, DocumentSet
  <1> QED
    BY <1>1, ChunksNumbered DEF CurrentChunks

\* An id is current if it is a document's, of a chunk it has.
LEMMA IdCurrent ==
    /\ \A id \in CurrentIds : \E d \in DocumentSet : \E i \in DOMAIN CurrentChunks(d) :
                              id = <<d, i>>
    /\ \A d \in DocumentSet : \A i \in DOMAIN CurrentChunks(d) :
          <<d, i>> \in CurrentIds
  <1> DEFINE ids(d) == {<<d, i>> : i \in DOMAIN CurrentChunks(d)}
  <1>1. CurrentIds = UNION {ids(d) : d \in DocumentSet}
    BY Zenon DEF CurrentIds, DocumentSet
  <1>2. \A id, d : id \in ids(d) <=> \E i \in DOMAIN CurrentChunks(d) : id = <<d, i>>
    BY Zenon
  <1> HIDE DEF ids
  <1>3. \A id : id \in CurrentIds <=> \E d \in DocumentSet : id \in ids(d)
    BY <1>1, Zenon
  <1> QED
    BY <1>2, <1>3, Zenon

\* The documents are edited between the loads only.
LEMMA EditionKept ==
    ASSUME UNCHANGED edition
    PROVE  /\ CurrentIds' = CurrentIds
           /\ \A d : CurrentChunks(d)' = CurrentChunks(d)
  BY DEF CurrentIds, CurrentChunks, TextOf

LEMMA NextTypeInv == TypeInv /\ [BaseNext]_baseVars => TypeInv'
  <1> SUFFICES ASSUME TypeInv, [BaseNext]_baseVars PROVE TypeInv'
    OBVIOUS
  <1> USE DEF DocumentSet
  <1>1. MaxLoads \in Nat /\ Len(Documents) \in Nat
    BY KnowledgeAssumption, DocumentsTyped
  <1>2. CASE EditDocument
    <2>1. PICK d \in DocumentSet : /\ edition[d] < Len(Editions[d])
                                  /\ edition' = [edition EXCEPT ![d] = @ + 1]
      BY <1>2 DEF EditDocument
    <2>2. edition' \in [DocumentSet -> Nat]
      BY <2>1 DEF TypeInv
    <2>3. edition'[d] \in DOMAIN Editions[d]
      BY <2>1, EditionsTyped DEF TypeInv, BaseTypeOK
    <2>4. \A e \in DocumentSet : edition'[e] \in DOMAIN Editions[e]
      BY <2>1, <2>3 DEF TypeInv, BaseTypeOK
    <2> QED
      BY <1>2, <2>2, <2>4 DEF EditDocument, TypeInv, BaseTypeOK
  <1>3. CASE StartLoad
    BY <1>1, <1>3 DEF StartLoad, TypeInv, BaseTypeOK, NoPoints
  <1>4. CASE SetupFails \/ DocumentUndecodable \/ FinishLoad
    BY <1>4 DEF SetupFails, DocumentUndecodable, FinishLoad, EndLoad, TypeInv, BaseTypeOK
  <1>5. CASE EnsureCollection
    BY <1>5 DEF EnsureCollection, TypeInv, BaseTypeOK
  <1>6. CASE ReadDocument
    BY <1>1, <1>6 DEF ReadDocument, TypeInv, BaseTypeOK, NoPoints
  <1>7. CASE DocumentUnreadable
    BY <1>1, <1>7 DEF DocumentUnreadable, TypeInv, BaseTypeOK
  <1>8. CASE EmbedChunk
    <2>1. ChunkId[1] \in DocumentSet
      BY <1>8, DocumentsTyped DEF EmbedChunk, ToEmbed, TypeInv, BaseTypeOK, ChunkId
    <2>2. DOMAIN batch' = DOMAIN batch \union {ChunkId}
      BY <1>8 DEF EmbedChunk
    <2> QED
      BY <1>8, <2>1, <2>2 DEF EmbedChunk, TypeInv, BaseTypeOK
  <1>9. CASE EmbedFails
    BY <1>9 DEF EmbedFails, TypeInv, BaseTypeOK
  <1>10. CASE WriteDocument
    <2>1. DOMAIN points' \subseteq DOMAIN points \union DOMAIN batch /\ collection'
      BY <1>10 DEF WriteDocument, Upserted, TypeInv
    <2> QED
      BY <1>1, <1>10, <2>1 DEF WriteDocument, TypeInv, BaseTypeOK
  <1>11. CASE UpsertFails
    <2>1. DOMAIN points' \subseteq DOMAIN points \union DOMAIN batch /\ collection'
      BY <1>11 DEF UpsertFails, Upserted, TypeInv
    <2> QED
      BY <1>1, <1>11, <2>1 DEF UpsertFails, TypeInv, BaseTypeOK
  <1>12. CASE UNCHANGED baseVars
    BY <1>12 DEF baseVars, TypeInv, BaseTypeOK
  <1> QED
    BY <1>2, <1>3, <1>4, <1>5, <1>6, <1>7, <1>8, <1>9, <1>10, <1>11, <1>12 DEF BaseNext

-----------------------------------------------------------------------------
(* The steps                                                               *)

LEMMA BaseInitial == BaseInit => BaseInv
  <1> SUFFICES ASSUME BaseInit PROVE BaseInv
    OBVIOUS
  <1>1. ASSUME NEW d \in DocumentSet PROVE 1 \in DOMAIN Editions[d]
    BY EditionsTyped
  <1>2. DOMAIN points = {} /\ DOMAIN batch = {} /\ DOMAIN before = {}
    BY DEF BaseInit, NoPoints
  <1>3. BaseTypeOK
    <2>1. \A d \in ToSet(Documents) : edition[d] \in DOMAIN Editions[d]
      BY <1>1 DEF BaseInit, DocumentSet
    <2>2. document \in 1..(Len(Documents) + 1) /\ loads \in 0..MaxLoads
      BY KnowledgeAssumption, DocumentsTyped DEF BaseInit
    <2>3. \A id \in DOMAIN points \union DOMAIN batch \union DOMAIN before :
              id[1] \in ToSet(Documents)
      BY <1>2
    <2> QED
      BY <2>1, <2>2, <2>3 DEF BaseInit, BaseTypeOK
  <1> QED
    BY <1>3 DEF BaseInit, BaseInv, TypeInv, ProgressInv, BatchInv, CleanLoadComplete, DocumentSet

\* What is said of a point depends on the documents and the points alone.
LEMMA PointsKept ==
    ASSUME UNCHANGED <<edition, points, before>>
    PROVE  /\ \A id : (Current(id) <=> Current(id)') /\ (Kept(id) <=> Kept(id)')
           /\ \A d : Indexed(d) <=> Indexed(d)'
           /\ document' = document => \A id : Passed(id) <=> Passed(id)'
  BY EditionKept DEF Current, Kept, Indexed, Passed

LEMMA SetupStepInv ==
    ASSUME BaseInv, TypeInv', EditDocument \/ StartLoad \/ EnsureCollection \/ SetupFails
    PROVE  BaseInv'
  <1>1. CASE EditDocument
    BY <1>1 DEF EditDocument, BaseInv, ProgressInv, BatchInv, CleanLoadComplete
  <1>2. CASE StartLoad
    BY <1>2 DEF StartLoad, BaseInv, ProgressInv, BatchInv, CleanLoadComplete
  <1>3. CASE EnsureCollection
    <2>1. points = before /\ document = 1 /\ exit = "none"
      BY <1>3 DEF EnsureCollection, BaseInv, ProgressInv
    <2>2. UNCHANGED <<points, before, document, exit, recreate>> /\ loader' = "document"
      BY <1>3 DEF EnsureCollection
    <2>3. \A id \in DOMAIN points' : Accounted(id)'
      BY <2>1, <2>2 DEF Kept, Accounted
    <2>4. recreate => DOMAIN before = {}
      BY <1>3, <2>1 DEF EnsureCollection, NoPoints, BaseInv, TypeInv, BaseTypeOK
    <2>5. ProgressInv'
      BY <2>1, <2>2, <2>3, <2>4 DEF ProgressInv
    <2> QED
      BY <2>1, <2>2, <2>5 DEF BaseInv, BatchInv, CleanLoadComplete
  <1>4. CASE SetupFails
    BY <1>4 DEF SetupFails, EndLoad, BaseInv, ProgressInv, BatchInv, CleanLoadComplete
  <1> QED
    BY <1>1, <1>2, <1>3, <1>4

\* The load ends at a document that cannot be decoded: it wrote those before it.
LEMMA UndecodableInv ==
    ASSUME BaseInv, TypeInv', DocumentUndecodable
    PROVE  BaseInv'
  <1>1. /\ loader = "document" /\ loader' = "idle" /\ exit' = "raised"
        /\ UNCHANGED <<edition, points, before, document>>
    BY DEF DocumentUndecodable, EndLoad
  <1>2. /\ DOMAIN before \subseteq DOMAIN points
        /\ \A id \in DOMAIN points : (Current(id) /\ Passed(id)) \/ Kept(id)
    BY <1>1 DEF BaseInv, ProgressInv, Accounted
  <1>3. /\ \A e : CurrentChunks(e)' = CurrentChunks(e)
        /\ CurrentIds' = CurrentIds
    BY <1>1, EditionKept
  <1>4. CleanLoadComplete'
    BY <1>1, <1>2, <1>3 DEF CleanLoadComplete, Current, Kept, Passed
  <1>5. ProgressInv' /\ BatchInv'
    BY <1>1 DEF ProgressInv, BatchInv
  <1> QED
    BY <1>4, <1>5 DEF BaseInv

\* A document is taken up, or passed over with an error.
LEMMA TakeUpInv ==
    ASSUME BaseInv, TypeInv', ReadDocument \/ DocumentUnreadable
    PROVE  BaseInv'
  <1>1. /\ loader \in {"document", "embed"} /\ exit = "none" /\ exit' = "none"
        /\ UNCHANGED <<edition, points, before, recreate>>
        /\ loader' \in {"document", "embed"}
    BY DEF ReadDocument, DocumentUnreadable, BaseInv, ProgressInv
  <1>2. errors' = 0 => errors = 0 /\ document' = document
    BY DEF ReadDocument, DocumentUnreadable, BaseInv, TypeInv, BaseTypeOK
  <1>3. ProgressInv'
    <2>1. \A id : Passed(id) => Passed(id)'
      <3>1. document \in Nat /\ (document' = document \/ document' = document + 1)
        BY DocumentsTyped DEF ReadDocument, DocumentUnreadable, BaseInv, TypeInv, BaseTypeOK
      <3>2. \A k \in 1..(document - 1) : k \in 1..(document' - 1)
        BY <3>1
      <3> QED
        BY <3>2 DEF Passed
    <2>2. \A id : Accounted(id) => Accounted(id)'
      BY <1>1, <2>1, PointsKept DEF Accounted
    <2>3. errors' = 0 => \A j \in 1..(document' - 1) : Indexed(Documents[j])'
      BY <1>1, <1>2, PointsKept DEF BaseInv, ProgressInv
    <2> QED
      BY <1>1, <2>2, <2>3 DEF BaseInv, ProgressInv
  <1>4. BatchInv'
    <2>1. CASE ReadDocument
      <3>1. document' = document /\ document \in 1..Len(Documents) /\ chunk' = 1
            /\ DOMAIN batch' = {}
        BY <2>1 DEF ReadDocument, NoPoints, BaseInv, TypeInv, BaseTypeOK
      <3>2. Len(CurrentChunks(Documents[document])) \in Nat
        BY <3>1, DocumentsTyped, CurrentNumbered DEF BaseInv, TypeInv
      <3>3. CurrentChunks(Documents[document])' = CurrentChunks(Documents[document])
        BY <1>1, <3>1 DEF CurrentChunks, TextOf
      <3> QED
        BY <3>1, <3>2, <3>3 DEF BatchInv
    <2>2. CASE DocumentUnreadable
      BY <2>2 DEF DocumentUnreadable, BaseInv, BatchInv
    <2> QED
      BY <2>1, <2>2
  <1> QED
    BY <1>1, <1>3, <1>4 DEF BaseInv, CleanLoadComplete

\* A chunk joins the batch, or is skipped with an error.
LEMMA EmbedInv ==
    ASSUME BaseInv, TypeInv', EmbedChunk \/ EmbedFails
    PROVE  BaseInv'
  <1> DEFINE d == Documents[document]
  <1>1. /\ loader = "embed" /\ loader' = "embed" /\ exit = "none" /\ exit' = "none"
        /\ UNCHANGED <<edition, points, before, document, recreate>>
        /\ chunk' = chunk + 1 /\ chunk <= Len(CurrentChunks(d))
    BY DEF EmbedChunk, EmbedFails, ToEmbed, BaseInv, ProgressInv
  <1>2. errors' = 0 => errors = 0 /\ EmbedChunk
    BY DEF EmbedChunk, EmbedFails, BaseInv, TypeInv, BaseTypeOK
  <1>3. ProgressInv'
    BY <1>1, <1>2, PointsKept DEF BaseInv, ProgressInv, Accounted
  <1>4. CurrentChunks(d)' = CurrentChunks(d)
    BY <1>1 DEF CurrentChunks, TextOf
  <1>5. chunk \in 1..Len(CurrentChunks(d)) /\ Len(CurrentChunks(d)) \in Nat
    <2>1. document \in 1..Len(Documents)
      BY <1>1 DEF BaseInv, TypeInv, BaseTypeOK
    <2>2. Len(CurrentChunks(d)) \in Nat
      BY <2>1, DocumentsTyped, CurrentNumbered DEF BaseInv, TypeInv
    <2> QED
      BY <1>1, <2>2 DEF BaseInv, BatchInv
  <1>6. \A id \in DOMAIN batch' :
            \E i \in 1..chunk : id = <<d, i>> /\ batch'[id] = CurrentChunks(d)[i]
    <2>1. \A id \in DOMAIN batch :
              \E i \in 1..chunk : id = <<d, i>> /\ batch[id] = CurrentChunks(d)[i]
      BY <1>1, <1>5 DEF BaseInv, BatchInv
    <2>2. CASE EmbedChunk
      <3>1. /\ ChunkId = <<d, chunk>>
            /\ DOMAIN batch' = DOMAIN batch \union {ChunkId}
            /\ batch'[ChunkId] = CurrentChunks(d)[chunk]
            /\ \A id \in DOMAIN batch : id # ChunkId => batch'[id] = batch[id]
        BY <2>2 DEF EmbedChunk, ChunkId
      <3> QED
        BY <1>5, <2>1, <3>1
    <2>3. CASE EmbedFails
      BY <2>1, <2>3 DEF EmbedFails
    <2> QED
      BY <2>2, <2>3
  <1>7. errors' = 0 => \A i \in 1..chunk : <<d, i>> \in DOMAIN batch'
    <2> SUFFICES ASSUME errors' = 0, NEW i \in 1..chunk PROVE <<d, i>> \in DOMAIN batch'
      OBVIOUS
    <2>1. EmbedChunk /\ \A k \in 1..(chunk - 1) : <<d, k>> \in DOMAIN batch
      BY <1>1, <1>2 DEF BaseInv, BatchInv
    <2>2. DOMAIN batch' = DOMAIN batch \union {<<d, chunk>>}
      BY <2>1 DEF EmbedChunk, ChunkId
    <2> QED
      BY <1>5, <2>1, <2>2
  <1>8. chunk' - 1 = chunk /\ chunk' \in 1..(Len(CurrentChunks(d)) + 1)
    BY <1>1, <1>5
  <1>9. BatchInv'
    BY <1>1, <1>4, <1>6, <1>7, <1>8 DEF BatchInv
  <1> QED
    BY <1>1, <1>3, <1>9 DEF BaseInv, CleanLoadComplete

\* The batch of a document is written, whether or not the answer arrives: its points are
\* current, the others as before.
LEMMA WriteInv ==
    ASSUME BaseInv, TypeInv', WriteDocument \/ UpsertFails
    PROVE  BaseInv'
  <1> DEFINE d == Documents[document]
  <1>1. /\ loader = "embed" /\ loader' = "document" /\ exit = "none" /\ exit' = "none"
        /\ UNCHANGED <<edition, before, recreate>>
        /\ document' = document + 1 /\ chunk > Len(CurrentChunks(d))
        /\ errors' = 0 => errors = 0 /\ WriteDocument
    BY DEF WriteDocument, UpsertFails, BaseInv, ProgressInv, TypeInv, BaseTypeOK
  <1>2. /\ DOMAIN points \subseteq DOMAIN points'
        /\ \A id \in DOMAIN points' : \/ id \in DOMAIN batch /\ points'[id] = batch[id]
                                      \/ id \in DOMAIN points /\ points'[id] = points[id]
        /\ WriteDocument =>
              /\ DOMAIN batch \subseteq DOMAIN points'
              /\ \A id \in DOMAIN batch : points'[id] = batch[id]
    <2>1. CASE points' = Upserted
      BY <2>1 DEF Upserted
    <2>2. CASE points' = points /\ ~WriteDocument
      BY <2>2
    <2> QED
      BY <2>1, <2>2 DEF WriteDocument, UpsertFails
  <1>3. /\ document \in 1..Len(Documents) /\ Len(Documents) \in Nat /\ d \in DocumentSet
        /\ Len(CurrentChunks(d)) \in Nat
        /\ DOMAIN CurrentChunks(d) = 1..Len(CurrentChunks(d))
        /\ chunk - 1 = Len(CurrentChunks(d))
    <2>1. document \in 1..Len(Documents) /\ Len(Documents) \in Nat
      BY <1>1, DocumentsTyped DEF BaseInv, TypeInv, BaseTypeOK
    <2>2. d \in DocumentSet
      BY <2>1, DocumentsTyped
    <2>3. /\ Len(CurrentChunks(d)) \in Nat
          /\ DOMAIN CurrentChunks(d) = 1..Len(CurrentChunks(d))
      BY <2>2, CurrentNumbered DEF BaseInv, TypeInv
    <2>4. chunk \in 1..(Len(CurrentChunks(d)) + 1)
      BY <1>1 DEF BaseInv, BatchInv
    <2> QED
      BY <1>1, <2>1, <2>2, <2>3, <2>4
  <1>4. /\ \A e : CurrentChunks(e)' = CurrentChunks(e)
        /\ CurrentIds' = CurrentIds
    BY <1>1, EditionKept
  <1>5. document' - 1 = document
    BY <1>1, <1>3
  <1>6. ASSUME NEW id \in DOMAIN batch
        PROVE  id \in CurrentIds /\ batch[id] = CurrentChunks(id[1])[id[2]] /\ id[1] = d
    <2>1. PICK i \in 1..(chunk - 1) : id = <<d, i>> /\ batch[id] = CurrentChunks(d)[i]
      BY <1>1 DEF BaseInv, BatchInv
    <2>2. id \in CurrentIds
      BY <1>3, <2>1, IdCurrent
    <2> QED
      BY <2>1, <2>2
  <1>7. \A id \in DOMAIN points' : Accounted(id)'
    <2> SUFFICES ASSUME NEW id \in DOMAIN points' PROVE Accounted(id)'
      OBVIOUS
    <2>1. CASE id \in DOMAIN batch /\ points'[id] = batch[id]
      <3>1. Current(id)'
        BY <1>4, <1>6, <2>1 DEF Current
      <3>2. Passed(id)'
        BY <1>3, <1>5, <1>6, <2>1 DEF Passed
      <3> QED
        BY <3>1, <3>2 DEF Accounted
    <2>2. CASE id \in DOMAIN points /\ points'[id] = points[id]
      <3>1. (Current(id) /\ Passed(id)) \/ Kept(id)
        BY <1>1, <2>2 DEF BaseInv, ProgressInv, Accounted
      <3>2. Passed(id) => Passed(id)'
        BY <1>3, <1>5 DEF Passed
      <3> QED
        BY <1>1, <1>4, <2>2, <3>1, <3>2 DEF Current, Kept, Accounted
    <2> QED
      BY <1>2, <2>1, <2>2
  <1>8. ASSUME errors' = 0, NEW j \in 1..document
        PROVE  Indexed(Documents[j])'
    <2> SUFFICES ASSUME NEW i \in DOMAIN CurrentChunks(Documents[j])
                 PROVE  LET id == <<Documents[j], i>>
                        IN  id \in DOMAIN points' /\ points'[id] = CurrentChunks(Documents[j])[i]
      BY <1>4 DEF Indexed
    <2> DEFINE id == <<Documents[j], i>>
    <2>1. id[1] = Documents[j] /\ id[2] = i /\ errors = 0 /\ WriteDocument
      BY <1>1, <1>8
    <2>2. CASE id \in DOMAIN batch
      BY <1>2, <1>6, <2>1, <2>2
    <2>3. CASE id \notin DOMAIN batch
      <3>1. j # document
        <4>1. errors = 0 => \A k \in 1..(chunk - 1) : <<d, k>> \in DOMAIN batch
          BY <1>1 DEF BaseInv, BatchInv
        <4> QED
          BY <1>3, <2>1, <2>3, <4>1
      <3>2. j \in 1..(document - 1)
        BY <1>3, <3>1
      <3>3. id \in DOMAIN points /\ points[id] = CurrentChunks(Documents[j])[i]
        BY <1>1, <2>1, <3>2 DEF BaseInv, ProgressInv, Indexed
      <3> QED
        BY <1>2, <2>3, <3>3
    <2> QED
      BY <2>2, <2>3
  <1>9. DOMAIN before' \subseteq DOMAIN points' /\ (recreate' => DOMAIN before' = {})
    BY <1>1, <1>2 DEF BaseInv, ProgressInv
  <1>10. ProgressInv'
    BY <1>1, <1>5, <1>7, <1>8, <1>9 DEF ProgressInv
  <1>11. BatchInv' /\ CleanLoadComplete'
    BY <1>1 DEF BatchInv, CleanLoadComplete
  <1> QED
    BY <1>10, <1>11 DEF BaseInv

\* The load is over: the documents behind the loader are all there are.
LEMMA FinishLoadInv ==
    ASSUME BaseInv, TypeInv', FinishLoad
    PROVE  BaseInv'
  <1>1. /\ loader = "document" /\ loader' = "idle" /\ document > Len(Documents)
        /\ UNCHANGED <<edition, points, before, recreate>>
        /\ exit' = IF errors = 0 THEN "clean" ELSE "errors"
    BY DEF FinishLoad, EndLoad
  <1>2. /\ DOMAIN before \subseteq DOMAIN points
        /\ \A id \in DOMAIN points : Current(id) \/ Kept(id)
        /\ recreate => DOMAIN before = {}
        /\ errors = 0 => \A j \in 1..(document - 1) : Indexed(Documents[j])
    BY <1>1 DEF BaseInv, ProgressInv, Accounted
  <1>3. ASSUME errors = 0, NEW id \in CurrentIds
        PROVE  id \in DOMAIN points /\ Current(id)
    <2>1. PICK d \in DocumentSet : \E i \in DOMAIN CurrentChunks(d) : id = <<d, i>>
      BY IdCurrent
    <2>2. PICK i \in DOMAIN CurrentChunks(d) : id = <<d, i>>
      BY <2>1
    <2>3. PICK j \in 1..Len(Documents) : d = Documents[j]
      BY DocumentsTyped
    <2>4. j \in 1..(document - 1)
      BY <1>1, <2>3, DocumentsTyped DEF BaseInv, TypeInv, BaseTypeOK
    <2>5. Indexed(d)
      BY <1>2, <1>3, <2>3, <2>4
    <2> QED
      BY <1>3, <2>2, <2>5 DEF Indexed, Current
  <1>4. /\ \A e : CurrentChunks(e)' = CurrentChunks(e)
        /\ CurrentIds' = CurrentIds
    BY <1>1, EditionKept
  <1>5. CleanLoadComplete'
    <2>1. CASE errors = 0
      <3>1. exit' = "clean" /\ \A id \in CurrentIds : id \in DOMAIN points /\ Current(id)
        BY <1>1, <1>3, <2>1
      <3>2. \A id \in DOMAIN points \ CurrentIds : Kept(id)
        BY <1>2 DEF Current
      <3>3. DOMAIN points = CurrentIds \union (IF recreate THEN {} ELSE DOMAIN before)
        BY <1>2, <3>1, <3>2 DEF Kept
      <3> QED
        BY <1>1, <1>2, <1>4, <3>1, <3>2, <3>3 DEF CleanLoadComplete, Current, Kept
    <2>2. CASE errors # 0
      <3>1. exit' = "errors"
        BY <1>1, <2>2
      <3> QED
        BY <1>1, <1>2, <1>4, <3>1 DEF CleanLoadComplete, Current, Kept
    <2> QED
      BY <2>1, <2>2
  <1>6. ProgressInv' /\ BatchInv'
    BY <1>1 DEF ProgressInv, BatchInv
  <1> QED
    BY <1>5, <1>6 DEF BaseInv

LEMMA StutterInv ==
    ASSUME BaseInv, TypeInv', UNCHANGED baseVars
    PROVE  BaseInv'
  <1>1. UNCHANGED <<edition, points, before, loader, recreate, document, chunk, batch,
                    errors, exit>>
    BY DEF baseVars
  <1>2. ProgressInv'
    BY <1>1, PointsKept DEF BaseInv, ProgressInv, Accounted
  <1>3. /\ \A e : CurrentChunks(e)' = CurrentChunks(e)
        /\ CurrentIds' = CurrentIds
    BY <1>1, EditionKept
  <1>4. BatchInv'
    BY <1>1, <1>3 DEF BaseInv, BatchInv
  <1>5. CleanLoadComplete'
    BY <1>1, <1>3 DEF BaseInv, CleanLoadComplete
  <1> QED
    BY <1>2, <1>4, <1>5 DEF BaseInv

LEMMA NextBase == BaseInv /\ [BaseNext]_baseVars => BaseInv'
  <1> SUFFICES ASSUME BaseInv, [BaseNext]_baseVars PROVE BaseInv'
    OBVIOUS
  <1>1. TypeInv'
    BY NextTypeInv DEF BaseInv
  <1> QED
    BY <1>1, SetupStepInv, UndecodableInv, TakeUpInv, EmbedInv, WriteInv, FinishLoadInv,
       StutterInv DEF BaseNext

-----------------------------------------------------------------------------
(* What follows from the invariant                                         *)

\* The state of the loader and of the collection is well typed; a collection that does
\* not exist has no points.
THEOREM BaseTypeCorrect == BaseSpec => []BaseTypeOK
  <1>1. BaseInv => BaseTypeOK
    BY DEF BaseInv, TypeInv
  <1> QED
    BY <1>1, BaseInitial, NextBase, PTL DEF BaseSpec

\* What the exit of the script tells of the collection is true, whatever was edited,
\* failed or left over before.
THEOREM CleanLoadCompleteHolds == BaseSpec => []CleanLoadComplete
  <1>1. BaseInv => CleanLoadComplete
    BY DEF BaseInv
  <1> QED
    BY <1>1, BaseInitial, NextBase, PTL DEF BaseSpec

=============================================================================
