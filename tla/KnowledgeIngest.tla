-------------------------- MODULE KnowledgeIngest ---------------------------
(***************************************************************************)
(* knowledge/market_risk_kb.py and knowledge/knowledge_base.py over the    *)
(* store of knowledge/vector_store.py.  The reference library is ingested  *)
(* again and again, document by document and batch by batch, by a process  *)
(* that may be stopped at any step, while people edit the documents and    *)
(* the server searches the collection; the executable knowledge is         *)
(* ingested whole, by whoever finds its collection empty.  What Chunker    *)
(* makes of a text is here a sequence of [slug, body, size, titled].       *)
(* Each definition named ...Wrong is a mutation of the one that follows it.*)
(***************************************************************************)
EXTENDS Naturals, Sequences, SequencesExt, FiniteSetsExt

CONSTANTS Paths,        \* documents by their path
          Library,      \* a sequence: the texts a document may have, each its chunks; 0 is no document
          PathOrder,    \* discover: the paths sorted
          BatchSize, ModelLimit,
          TitleCost,    \* tokens of the title that a chunk without it is given
          MaxEdits, MaxIngests                                      \* bounds

ASSUME LibraryAssumption ==
    /\ PathOrder \in Seq(Paths) /\ Range(PathOrder) = Paths /\ Len(PathOrder) = Cardinality(Paths)
    /\ Library \in Seq(Seq([slug : STRING, body : Nat, size : Nat, titled : BOOLEAN])) /\ Len(Library) > 0
    /\ BatchSize \in Nat \ {0} /\ {ModelLimit, TitleCost} \subseteq Nat

VARIABLES disk,       \* the text of each path
          points,     \* the collection market_risk_kb
          job,        \* the ingest under way
          quant,      \* the collection quant_knowledge, and what its ingest has read
          edits, ingests                                            \* bounds
libVars == <<disk, points, job, quant, edits, ingests>>

Texts == 1..Len(Library)
Idle  == [at |-> "idle", found |-> {}, prune |-> TRUE, next |-> 0, failed |-> {}, read |-> [p \in Paths |-> 0]]

(* ---- the store ---------------------------------------------------------- *)
\* A point: its id is the path, the ordinal and the slug; text and total are its payload.
Id(point) == <<point.path, point.index, point.slug>>          \* chunk_id
\* upsert replaces the points that have the ids of new ones
UpsertBesideWrong(new) == points \cup new
Upsert(new)     == {p \in points : \A q \in new : Id(q) # Id(p)} \cup new
IdsWhere(path)  == {Id(p) : p \in {q \in points : q.path = path}}
Delete(ids)     == {p \in points : Id(p) \notin ids}

(* ---- the chunks of one document ----------------------------------------- *)
Titled(chunk) == IF chunk.titled THEN chunk.size ELSE chunk.size + TitleCost       \* _with_document_title
PointsOf(path, text) == {[path |-> path, index |-> k, slug |-> Library[text][k].slug, body |-> Library[text][k].body,
                          size |-> Titled(Library[text][k]), total |-> Len(Library[text])] : k \in DOMAIN Library[text]}
TooLargeBeforeTitleWrong(text) == \E k \in DOMAIN Library[text] : Library[text][k].size > ModelLimit
\* measured on the string the model will see
TooLarge(text)  == \E k \in DOMAIN Library[text] : Titled(Library[text][k]) > ModelLimit
Batch(path, text, next) == {p \in PointsOf(path, text) : p.index \in next..(next + BatchSize - 1)}

(* ---- ingest ------------------------------------------------------------- *)
\* the paths are sorted
First(found) == PathOrder[CHOOSE i \in DOMAIN PathOrder : /\ PathOrder[i] \in found
                              /\ \A j \in DOMAIN PathOrder : PathOrder[j] \in found => i <= j]
Current      == First(job.found)
\* A document's failure is recorded, and the next one is begun.
FailSilentlyWrong == job' = [job EXCEPT !.at = "read", !.found = @ \ {Current}]
Fail       == job' = [job EXCEPT !.at = "read", !.found = @ \ {Current}, !.failed = @ \cup {Current}]

\* main: --rebuild drops the collection first, --no-prune keeps what is stale
Begin(rebuild, prune) ==
    /\ job.at \in {"idle", "ended"} /\ ingests < MaxIngests
    /\ ingests' = ingests + 1
    /\ points' = IF rebuild THEN {} ELSE points
    /\ job' = [Idle EXCEPT !.at = "read", !.prune = prune,
                           !.found = {p \in Paths : disk[p] # 0}]
    /\ UNCHANGED <<disk, quant, edits>>

\* _ingest_one up to its first upsert: a document that is gone, makes no chunk or one that is too
\* large fails before anything of it is stored.
Read == /\ job.at = "read" /\ job.found # {}
        /\ IF disk[Current] = 0 \/ Library[disk[Current]] = <<>> \/ TooLarge(disk[Current]) THEN Fail
           ELSE job' = [job EXCEPT !.at = "upsert", !.next = 1, !.read[Current] = disk[Current]]
        /\ UNCHANGED <<disk, points, quant, edits, ingests>>

UpsertAfterPruneWrong ==
    /\ job.at = "upsert" /\ job.next <= Len(Library[job.read[Current]])
    /\ points' = (IF job.next = 1 /\ job.prune THEN Delete(IdsWhere(Current)) ELSE points)
                 \cup Batch(Current, job.read[Current], job.next)
    /\ job' = [job EXCEPT !.next = @ + BatchSize]
    /\ UNCHANGED <<disk, quant, edits, ingests>>
UpsertBatch ==
    /\ job.at = "upsert" /\ job.next <= Len(Library[job.read[Current]])
    /\ points' = Upsert(Batch(Current, job.read[Current], job.next))
    /\ job' = [job EXCEPT !.next = @ + BatchSize]
    /\ UNCHANGED <<disk, quant, edits, ingests>>

StaleByIndexWrong(ids) == {i \in IdsWhere(Current) : \A k \in ids : k[2] # i[2]}
Stale(ids) == IdsWhere(Current) \ ids
\* _prune, the last step of a document
Prune == /\ job.at = "upsert" /\ job.next > Len(Library[job.read[Current]])
         /\ points' = IF job.prune THEN Delete(Stale({Id(p) : p \in PointsOf(Current, job.read[Current])})) ELSE points
         /\ job' = [job EXCEPT !.at = "read", !.found = @ \ {Current}]
         /\ UNCHANGED <<disk, quant, edits, ingests>>
\* The store or the embedder raises, in a batch or in the pruning.
StoreFails == job.at = "upsert" /\ Fail /\ UNCHANGED <<disk, points, quant, edits, ingests>>

EndIngest == /\ job.at = "read" /\ job.found = {}
             /\ job' = [job EXCEPT !.at = "ended"]
             /\ UNCHANGED <<disk, points, quant, edits, ingests>>
Killed == job.at \in {"read", "upsert"} /\ job' = Idle /\ UNCHANGED <<disk, points, quant, edits, ingests>>

Edit(p, t) == /\ edits < MaxEdits /\ disk[p] # t
              /\ disk' = [disk EXCEPT ![p] = t] /\ edits' = edits + 1
              /\ UNCHANGED <<points, job, quant, ingests>>

(* ---- KnowledgeBase ------------------------------------------------------ *)
OpenAlwaysWrong(rebuild) ==
    /\ ~quant.reading /\ quant' = [quant EXCEPT !.points = IF rebuild THEN {} ELSE @, !.reading = TRUE, !.seen = disk]
    /\ UNCHANGED <<disk, points, job, edits, ingests>>
\* __init__: a collection that holds anything is taken as it is
Open(rebuild) ==
    /\ ~quant.reading
    /\ LET held == IF rebuild THEN {} ELSE quant.points
       IN  quant' = [quant EXCEPT !.points = held, !.reading = (held = {}), !.seen = IF held = {} THEN disk ELSE @]
    /\ UNCHANGED <<disk, points, job, edits, ingests>>
\* ingest: one upsert of everything
Whole(texts) == UNION {PointsOf(p, texts[p]) : p \in {q \in Paths : texts[q] # 0}}
Store == /\ quant.reading
         /\ quant' = [quant EXCEPT !.reading = FALSE,
                         !.points = {p \in @ : \A q \in Whole(quant.seen) : Id(q) # Id(p)} \cup Whole(quant.seen)]
         /\ UNCHANGED <<disk, points, job, edits, ingests>>
Stopped == quant.reading /\ quant' = [quant EXCEPT !.reading = FALSE] /\ UNCHANGED <<disk, points, job, edits, ingests>>

-----------------------------------------------------------------------------
LibInit == /\ disk \in [Paths -> 0..Len(Library)] /\ points = {} /\ job = Idle /\ edits = 0 /\ ingests = 0
           /\ quant = [points |-> {}, reading |-> FALSE, seen |-> disk]
LibNext ==
    \/ \E rebuild, prune \in BOOLEAN : Begin(rebuild, prune)
    \/ Read \/ UpsertBatch \/ Prune \/ StoreFails \/ EndIngest \/ Killed
    \/ \E p \in Paths, t \in 0..Len(Library) : Edit(p, t)
    \/ \E rebuild \in BOOLEAN : Open(rebuild)
    \/ Store \/ Stopped
LibSpec == LibInit /\ [][LibNext]_libVars
-----------------------------------------------------------------------------
(* What is checked.                                                        *)

Owned(p) == {q \in points : q.path = p}
\* A point is of a document and of a place in it, and no two points have one id.
LibTypeOK == /\ \A p \in points : p.path \in Paths /\ p.index \in 1..p.total
             /\ \A p, q \in points : Id(p) = Id(q) => p = q
             /\ disk \in [Paths -> 0..Len(Library)]

\* An ingest that reports no failure has left each document it found with the chunks of the text it
\* read and no others, whatever was edited, stopped half-way, or left behind without pruning before.
CleanIngestIsExact == job.at = "ended" /\ job.prune => \A p \in Paths \ job.failed :
    job.read[p] # 0 => Owned(p) = PointsOf(p, job.read[p])

\* A document that was on disk before the ingest and after it is either stored or reported.
FailureIsReported == job.at = "ended" /\ edits = 0 => \A p \in Paths : disk[p] # 0 =>
    p \in job.failed \/ PointsOf(p, disk[p]) \subseteq points

\* No text in the collection is longer than the model reads, so none was embedded from its beginning
\* only.
NothingTruncated == \A p \in points : p.size <= ModelLimit

\* Whoever searches beside an ingest finds every chunk that the text before and the text after have
\* in common: it is replaced in place, never removed to be added again.
SharedChunkStays == [][\A p \in points :
    (job.at \in {"read", "upsert"} /\ ~(\E q \in points' : Id(q) = Id(p))) =>
        \A t \in {job.read[p.path]} \ {0} : p \notin PointsOf(p.path, t)]_libVars

\* The executable knowledge is always of one reading of the documents: no chunk of an earlier one
\* stands beside those of a later one.
QuantIsOneReading == quant.points # {} /\ ~quant.reading => quant.points = Whole(quant.seen)

\* The collection is what the documents say, through edits, failures and searches beside an ingest
\* (market_risk_kb.py:380-500, knowledge_base.py).
LibraryHolds == [](LibTypeOK /\ CleanIngestIsExact /\ FailureIsReported /\ NothingTruncated /\ QuantIsOneReading)
                /\ SharedChunkStays
=============================================================================
