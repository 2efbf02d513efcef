--------------------------- MODULE KnowledgeBase ---------------------------
(***************************************************************************)
(* scripts/load_knowledge_base.py: the documents of the knowledge base are *)
(* cut into chunks, embedded, and written to the Qdrant collection, under  *)
(* ids made of the name of the document and the position of the chunk. The *)
(* documents are edited between two loads.                                 *)
(***************************************************************************)
EXTENDS Naturals, Sequences, FiniteSets, SequencesExt

CONSTANTS
    Documents,   \* the documents, as a sequence: the order of the loader
    Editions,    \* Editions[d]: the texts document d has had, one after the other
    Sections,    \* Sections[t]: the lengths of the sections of text t, between headers
    MaxLoads     \* bound on the loads

ASSUME KnowledgeAssumption ==
    /\ MaxLoads \in Nat
    /\ Documents \in Seq(DOMAIN Editions)
    /\ \A d \in DOMAIN Editions : Editions[d] \in Seq(DOMAIN Sections) \ {<<>>}
    /\ \A t \in DOMAIN Sections : Sections[t] \in Seq(Nat)

VARIABLES
    edition,     \* edition[d]: the position in Editions[d] of the text on disk
    collection,  \* whether the Qdrant collection exists
    points,      \* its points, a function from the chunk ids it has to texts
    loader,      \* "idle", "setup", "document" or "embed"
    recreate,    \* the flag --recreate
    document,    \* position of the document the loader is at
    chunk,       \* position of the chunk it is to embed
    batch,       \* the chunks embedded so far of the document, not written yet
    errors,      \* how many errors the load has met
    exit,        \* the last load's end: "none", "clean", "errors" or "raised"
    before,      \* the points when the last load began
    loads        \* how many loads there were

baseVars == <<edition, collection, points, loader, recreate, document, chunk, batch,
              errors, exit, before, loads>>

-----------------------------------------------------------------------------
(* chunk_document                                                          *)

\* The window and the overlap of chunk_document, and KB_CHUNK_MIN_LENGTH.
MaxWindow == 1500
Overlap   == 150
MinLength == 100

\* _fixed_window: the lengths of the windows, the last of which may lie within the
\* overlap of the one before.
FixedWindow(length) ==
    LET step  == MaxWindow - Overlap
        count == (length + step - 1) \div step
        rest(k) == length - (k - 1) * step
    IN  [k \in 1..count |-> IF rest(k) < MaxWindow THEN rest(k) ELSE MaxWindow]

\* A section within the window is not cut.
WindowsOf(length) == IF length > MaxWindow THEN FixedWindow(length) ELSE <<length>>

\* The segments of a text that are long enough; blanks at their ends are not counted.
Pieces(text) ==
    LET segments(s) ==
            LET windows == WindowsOf(Sections[text][s])
            IN  {[text |-> text, section |-> s, window |-> k, length |-> windows[k]]
                    : k \in DOMAIN windows}
    IN  {piece \in UNION {segments(s) : s \in DOMAIN Sections[text]} : piece.length >= MinLength}

Precedes(p, q) == p.section < q.section \/ (p.section = q.section /\ p.window < q.window)

\* The chunks of a text: its pieces, numbered in the order of the text.
ChunksOf(text) ==
    LET pieces == Pieces(text)
    IN  [i \in 1..Cardinality(pieces) |->
            CHOOSE p \in pieces : Cardinality({q \in pieces : Precedes(q, p)}) = i - 1]

TextOf(d)        == Editions[d][edition[d]]
CurrentChunks(d) == ChunksOf(TextOf(d))

\* The chunk ids of the documents as they are on disk.
CurrentIds == UNION {{<<d, i>> : i \in DOMAIN CurrentChunks(d)} : d \in ToSet(Documents)}

-----------------------------------------------------------------------------
(* load                                                                    *)

NoPoints == [id \in {} |-> <<>>]

BaseInit ==
    /\ edition = [d \in ToSet(Documents) |-> 1]
    /\ collection = FALSE
    /\ points = NoPoints
    /\ loader = "idle"
    /\ recreate = FALSE
    /\ document = 1 /\ chunk = 1 /\ batch = NoPoints
    /\ errors = 0
    /\ exit = "none"
    /\ before = NoPoints
    /\ loads = 0

\* Somebody edits a document; not while it is being loaded, to keep the model small.
EditDocument ==
    /\ loader = "idle"
    /\ \E d \in ToSet(Documents) :
          /\ edition[d] < Len(Editions[d])
          /\ edition' = [edition EXCEPT ![d] = @ + 1]
    /\ exit' = "none"
    /\ UNCHANGED <<collection, points, loader, recreate, document, chunk, batch, errors,
                   before, loads>>

StartLoad ==
    /\ loader = "idle" /\ loads < MaxLoads
    /\ loader' = "setup"
    /\ loads' = loads + 1
    /\ recreate' \in BOOLEAN
    /\ before' = points
    /\ exit' = "none"
    /\ errors' = 0
    /\ document' = 1 /\ chunk' = 1 /\ batch' = NoPoints
    /\ UNCHANGED <<edition, collection, points>>

\* The script ends. What load raises is caught by nothing; otherwise the exit code says
\* whether there were errors.
EndLoad(result) ==
    /\ loader' = "idle"
    /\ exit' = result
    /\ UNCHANGED <<edition, recreate, document, chunk, batch, before, loads>>

\* _ensure_collection: with `recreate` the collection that exists is created once more,
\* without being deleted, which Qdrant refuses; or Qdrant cannot be reached, perhaps only
\* for the answer to a creation it has carried out.
SetupFails ==
    /\ loader = "setup"
    /\ collection' \in {collection, TRUE}
    /\ EndLoad("raised")
    /\ UNCHANGED <<points, errors>>

\* Mutant: create_collection is called only with `recreate`.
CreateOnRequest ==
    /\ loader = "setup"
    /\ ~(recreate /\ collection)
    /\ collection' = (collection \/ recreate)
    /\ loader' = "document"
    /\ UNCHANGED <<edition, points, recreate, document, chunk, batch, errors, exit,
                   before, loads>>

\* A collection that is there is used as it is; one that is not is created.
EnsureCollection ==
    /\ loader = "setup"
    /\ ~(recreate /\ collection)
    /\ collection' = TRUE
    /\ loader' = "document"
    /\ UNCHANGED <<edition, points, recreate, document, chunk, batch, errors, exit,
                   before, loads>>

\* The next document is read and cut, if its file can be read.
ReadDocument ==
    /\ loader = "document" /\ document <= Len(Documents)
    /\ loader' = "embed"
    /\ chunk' = 1 /\ batch' = NoPoints
    /\ UNCHANGED <<edition, collection, points, recreate, document, errors, exit, before, loads>>

\* The OSError of a file that cannot be read is counted, and the file passed over.
DocumentUnreadable ==
    /\ loader = "document" /\ document <= Len(Documents)
    /\ errors' = errors + 1
    /\ document' = document + 1
    /\ UNCHANGED <<edition, collection, points, loader, recreate, chunk, batch, exit,
                   before, loads>>

\* The UnicodeDecodeError of a file that is not UTF-8 is no OSError: it ends the load,
\* with the documents before it written.
DocumentUndecodable ==
    /\ loader = "document" /\ document <= Len(Documents)
    /\ EndLoad("raised")
    /\ UNCHANGED <<collection, points, errors>>

\* The chunk the loader is at.
ChunkId    == <<Documents[document], chunk>>
ToEmbed    == loader = "embed" /\ chunk <= Len(CurrentChunks(Documents[document]))

EmbedChunk ==
    /\ ToEmbed
    /\ batch' = [id \in DOMAIN batch \union {ChunkId} |->
                    IF id = ChunkId THEN CurrentChunks(Documents[document])[chunk] ELSE batch[id]]
    /\ chunk' = chunk + 1
    /\ UNCHANGED <<edition, collection, points, loader, recreate, document, errors, exit,
                   before, loads>>

\* Mutant: the error is only logged.
SkipChunk ==
    /\ ToEmbed
    /\ chunk' = chunk + 1
    /\ UNCHANGED <<edition, collection, points, loader, recreate, document, batch, errors,
                   exit, before, loads>>

\* The chunk is skipped, the others of the document are not.
EmbedFails ==
    /\ ToEmbed
    /\ errors' = errors + 1
    /\ chunk' = chunk + 1
    /\ UNCHANGED <<edition, collection, points, loader, recreate, document, batch, exit,
                   before, loads>>

\* What an upsert leaves: the points of the batch, each in the place of the one under its
\* id, and the other points as they are.
Upserted == [id \in DOMAIN points \union DOMAIN batch |->
                IF id \in DOMAIN batch THEN batch[id] ELSE points[id]]

\* One upsert for the chunks of a document; none if there are none.
WriteDocument ==
    /\ loader = "embed" /\ chunk > Len(CurrentChunks(Documents[document]))
    /\ points' = Upserted
    /\ loader' = "document"
    /\ document' = document + 1
    /\ UNCHANGED <<edition, collection, recreate, chunk, batch, errors, exit, before, loads>>

\* An upsert whose answer was lost has been carried out all the same.
UpsertFails ==
    /\ loader = "embed" /\ chunk > Len(CurrentChunks(Documents[document]))
    /\ batch # NoPoints
    /\ points' \in {points, Upserted}
    /\ errors' = errors + 1
    /\ loader' = "document"
    /\ document' = document + 1
    /\ UNCHANGED <<edition, collection, recreate, chunk, batch, exit, before, loads>>

FinishLoad ==
    /\ loader = "document" /\ document > Len(Documents)
    /\ EndLoad(IF errors = 0 THEN "clean" ELSE "errors")
    /\ UNCHANGED <<collection, points, errors>>

BaseNext ==
    \/ EditDocument \/ StartLoad
    \/ EnsureCollection \/ SetupFails
    \/ ReadDocument \/ DocumentUnreadable \/ DocumentUndecodable
    \/ EmbedChunk \/ EmbedFails
    \/ WriteDocument \/ UpsertFails
    \/ FinishLoad

BaseSpec == BaseInit /\ [][BaseNext]_baseVars

-----------------------------------------------------------------------------
(* Properties                                                              *)

BaseTypeOK ==
    /\ \A d \in ToSet(Documents) : edition[d] \in DOMAIN Editions[d]
    /\ collection \in BOOLEAN /\ recreate \in BOOLEAN
    /\ loader \in {"idle", "setup", "document", "embed"}
    /\ document \in 1..(Len(Documents) + 1)
    /\ chunk \in Nat
    /\ errors \in Nat
    /\ exit \in {"none", "clean", "errors", "raised"}
    /\ loads \in 0..MaxLoads
    /\ \A id \in DOMAIN points \union DOMAIN batch \union DOMAIN before : id[1] \in ToSet(Documents)
    /\ points # NoPoints => collection

\* What the exit of the script tells. After a clean load every chunk of the documents is in
\* the collection with its present text: an id that a document still has never keeps an
\* older text. What else is there was there before, under ids that no document has any
\* more; there is none after --recreate, which succeeds only without a collection. No exit
\* loses a point. A load that met errors leaves each point as it was or current; one that
\* raised too, and it got current points only from documents before the one it stopped at,
\* so that a failed setup has changed none.
CleanLoadComplete ==
    LET current(id) == id \in CurrentIds /\ points[id] = CurrentChunks(id[1])[id[2]]
        kept(id)    == id \in DOMAIN before /\ points[id] = before[id]
        passed(id)  == \E k \in 1..(document - 1) : Documents[k] = id[1]
    IN  /\ exit # "none" => DOMAIN before \subseteq DOMAIN points
        /\ exit = "clean" =>
              /\ DOMAIN points = CurrentIds \union (IF recreate THEN {} ELSE DOMAIN before)
              /\ \A id \in CurrentIds : current(id)
              /\ \A id \in DOMAIN points \ CurrentIds : kept(id)
        /\ exit = "errors" => \A id \in DOMAIN points : current(id) \/ kept(id)
        /\ exit = "raised" => \A id \in DOMAIN points : (current(id) /\ passed(id)) \/ kept(id)

=============================================================================
