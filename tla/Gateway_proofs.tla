---------------------------- MODULE Gateway_proofs ----------------------------
(***************************************************************************)
(* Proofs about what lies behind the agents: the ingest of the documents,  *)
(* the tools of the data server beside a loader, the bridge that the       *)
(* threads share, and the sequences of calls of a risk calculation.        *)
(*                                                                         *)
(* KnowledgeIngest, for any documents, texts, batch size and limit, and    *)
(* any number of ingests, edits, failures, stops and rebuilds: that a      *)
(* clean ingest is exact is inductive only with what is known half-way.    *)
(* The batches of the current document that were sent are all in the       *)
(* store, whatever batch is sent next, since an upsert takes away only     *)
(* points whose ids it puts back.                                          *)
(*                                                                         *)
(* Retrieval, for any days, vintages, pages and limits: a load may begin,  *)
(* rewrite or fail between any two queries of a task. Each curve is whole, *)
(* of one registered vintage, or gone; the period of a history is fixed by *)
(* the catalogue; and the pages and tenors brought so far are those of the *)
(* period, which the cut to the most recent days needs.                    *)
(*                                                                         *)
(* McpBridge, for any threads, calls, blocks of work and rounds: a call    *)
(* that has outlived its caller still writes to the relay of the block in  *)
(* which it was made and to no other, and a question once recorded stays.  *)
(*                                                                         *)
(* RiskWorkflows, for any calendar and any arguments: what is left of a    *)
(* plan dates the valuation before it reads a history, and holds as many   *)
(* curves of a replay as have not been read.                               *)
(***************************************************************************)
EXTENDS KnowledgeIngest, Retrieval, McpBridge, RiskWorkflows, FiniteSetTheorems, SequenceTheorems,
        WellFoundedInduction, TLAPS

-----------------------------------------------------------------------------
(* KnowledgeIngest: the inductive invariant.                               *)

\* A point is a chunk of a text, as it may be today or was once, that fits the model.
Known(q) == /\ q.path \in Paths
            /\ \E t \in Texts : ~TooLarge(t) /\ q \in PointsOf(q.path, t)

JobType == [at : {"idle", "read", "upsert", "ended"}, found : SUBSET Paths, prune : BOOLEAN, next : Nat,
            failed : SUBSET Paths, read : [Paths -> 0..Len(Library)]]
QuantType == [points : SUBSET UNION {PointsOf(p, t) : p \in Paths, t \in Texts},
              reading : BOOLEAN, seen : [Paths -> 0..Len(Library)]]

LibShape == /\ disk \in [Paths -> 0..Len(Library)]
            /\ job \in JobType
            /\ quant \in QuantType
            /\ edits \in Nat
            /\ job.at = "ended" => job.found = {}

Stored == /\ \A q \in points : Known(q)
          /\ \A p, q \in points : Id(p) = Id(q) => p = q

\* The document under way is the current one, and what was sent of it is stored.
Upserting == job.at = "upsert" =>
    /\ Current \in job.found /\ job.read[Current] # 0 /\ ~TooLarge(job.read[Current])
    /\ \A q \in PointsOf(Current, job.read[Current]) : q.index < job.next => q \in points

Finished(p) == job.at # "idle" /\ p \notin job.found /\ p \notin job.failed

Exact == job.prune => \A p \in Paths : Finished(p) /\ job.read[p] # 0 => Owned(p) = PointsOf(p, job.read[p])

\* Without an edit, what an ingest reads is what is on disk.
Unedited == edits = 0 => \A p \in Paths :
    /\ job.read[p] \in {0, disk[p]}
    /\ Finished(p) /\ disk[p] # 0 => PointsOf(p, disk[p]) \subseteq points

\* The executable knowledge is read only into an empty collection.
OneReading == /\ quant.reading => quant.points = {}
              /\ ~quant.reading /\ quant.points # {} => quant.points = Whole(quant.seen)

IngestInv == LibShape /\ Stored /\ Upserting /\ Exact /\ Unedited /\ OneReading

-----------------------------------------------------------------------------
(* The order of the documents and the chunks of a text.                    *)

\* Of any documents that are left there is a first one.
LEMMA FirstIsLeft ==
  ASSUME NEW found \in SUBSET Paths, found # {}
  PROVE  First(found) \in found
<1> DEFINE Places == {i \in DOMAIN PathOrder : PathOrder[i] \in found}
<1>1. DOMAIN PathOrder \subseteq Nat
  BY LibraryAssumption
<1>2. PICK p \in found : TRUE
  OBVIOUS
<1>3. PICK i \in DOMAIN PathOrder : PathOrder[i] = p
  BY <1>2, LibraryAssumption DEF Range
<1>4. Places # {} /\ Places \subseteq Nat
  BY <1>1, <1>2, <1>3
<1>5. PICK m \in Places : \A j \in Places : ~ (<<j, m>> \in OpToRel(<, Nat))
  BY <1>4, NatLessThanWellFounded, WFMin
<1>6. \A j \in Places : ~ (j < m)
  BY <1>4, <1>5 DEF OpToRel
<1>7. \A j \in Places : m <= j
  BY <1>4, <1>6
<1> QED BY <1>5, <1>7 DEF First

\* A chunk is a chunk, and its size with its title is a number.
LEMMA ChunkFacts ==
  ASSUME NEW t \in Texts
  PROVE  /\ Library[t] \in Seq([slug : STRING, body : Nat, size : Nat, titled : BOOLEAN])
         /\ DOMAIN Library[t] = 1..Len(Library[t]) /\ Len(Library[t]) \in Nat
         /\ \A k \in DOMAIN Library[t] : Titled(Library[t][k]) \in Nat
<1> DEFINE Chunks == [slug : STRING, body : Nat, size : Nat, titled : BOOLEAN]
<1>1. t \in DOMAIN Library
  BY LibraryAssumption DEF Texts
<1>2. Library[t] \in Seq(Chunks)
  BY <1>1, LibraryAssumption
<1>3. ASSUME NEW chunk \in Chunks
      PROVE  Titled(chunk) \in Nat
  BY <1>3, LibraryAssumption DEF Titled
<1> HIDE DEF Chunks
<1>4. /\ DOMAIN Library[t] = 1..Len(Library[t]) /\ Len(Library[t]) \in Nat
      /\ \A k \in DOMAIN Library[t] : Library[t][k] \in Chunks
  BY <1>2
<1> QED BY <1>2, <1>3, <1>4 DEF Chunks

\* A point of a document and a text: its place is one of the text's, and its id has the path and the place.
LEMMA PointFacts ==
  ASSUME NEW path, NEW t \in Texts, NEW q \in PointsOf(path, t)
  PROVE  /\ q.path = path
         /\ q.index \in 1..Len(Library[t]) /\ q.total = Len(Library[t])
         /\ q.size = Titled(Library[t][q.index])
         /\ q.slug = Library[t][q.index].slug
         /\ Id(q) = <<path, q.index, Library[t][q.index].slug>>
<1>1. PICK k \in DOMAIN Library[t] :
        q = [path |-> path, index |-> k, slug |-> Library[t][k].slug, body |-> Library[t][k].body,
             size |-> Titled(Library[t][k]), total |-> Len(Library[t])]
  BY DEF PointsOf
<1>2. k \in 1..Len(Library[t])
  BY ChunkFacts
<1> QED BY <1>1, <1>2 DEF Id

\* In one text no two points have one id.
LEMMA PlaceIsPoint ==
  ASSUME NEW path, NEW t \in Texts, NEW p \in PointsOf(path, t), NEW q \in PointsOf(path, t), Id(p) = Id(q)
  PROVE  p = q
<1>1. PICK k \in DOMAIN Library[t] :
        p = [path |-> path, index |-> k, slug |-> Library[t][k].slug, body |-> Library[t][k].body,
             size |-> Titled(Library[t][k]), total |-> Len(Library[t])]
  BY DEF PointsOf
<1>2. PICK l \in DOMAIN Library[t] :
        q = [path |-> path, index |-> l, slug |-> Library[t][l].slug, body |-> Library[t][l].body,
             size |-> Titled(Library[t][l]), total |-> Len(Library[t])]
  BY DEF PointsOf
<1>3. k = l
  BY <1>1, <1>2 DEF Id
<1> QED BY <1>1, <1>2, <1>3

-----------------------------------------------------------------------------
(* The store.                                                              *)

\* An upsert of points of one text leaves what the store is: points of texts, one for each id.  It
\* takes away no id, no point of another document, and no point of the same text.
LEMMA UpsertFacts ==
  ASSUME Stored, NEW path \in Paths, NEW t \in Texts, ~TooLarge(t), NEW new \in SUBSET PointsOf(path, t)
  PROVE  /\ \A q \in Upsert(new) : Known(q)
         /\ \A p, q \in Upsert(new) : Id(p) = Id(q) => p = q
         /\ new \subseteq Upsert(new)
         /\ \A q \in Upsert(new) : q \in points \/ q.path = path
         /\ \A q \in points : q.path # path => q \in Upsert(new)
         /\ \A q \in points : \E r \in Upsert(new) : Id(r) = Id(q)
         /\ \A q \in points : q \in PointsOf(path, t) => q \in Upsert(new)
<1>1. \A q \in new : q.path = path /\ q \in PointsOf(path, t)
  BY PointFacts
<1>2. \A q \in new : Known(q)
  BY <1>1 DEF Known
<1>3. \A p, q \in new : Id(p) = Id(q) => p = q
  BY PlaceIsPoint
<1>4. \A q : q \in Upsert(new) <=> q \in new \/ (q \in points /\ \A r \in new : Id(r) # Id(q))
  BY DEF Upsert
<1>5. \A q \in Upsert(new) : Known(q)
  BY <1>2, <1>4 DEF Stored
<1>6. \A p, q \in Upsert(new) : Id(p) = Id(q) => p = q
  BY <1>3, <1>4 DEF Stored
<1>7. \A q \in points : q.path # path => q \in Upsert(new)
  <2>1. \A q \in points, r \in new : q.path # path => Id(r) # Id(q)
    BY <1>1 DEF Id
  <2> QED BY <2>1, <1>4
<1>8. \A q \in points : q \in PointsOf(path, t) => q \in Upsert(new)
  <2>1. \A q \in PointsOf(path, t), r \in new : Id(r) = Id(q) => r = q
    BY PlaceIsPoint
  <2> QED BY <2>1, <1>4
<1>9. \A q \in points : \E r \in Upsert(new) : Id(r) = Id(q)
  BY <1>4
<1> QED BY <1>1, <1>4, <1>5, <1>6, <1>7, <1>8, <1>9

\* Pruning a document whose text is all stored leaves of it that text, and of the others everything.
LEMMA PruneFacts ==
  ASSUME Stored, NEW t \in Texts, PointsOf(Current, t) \subseteq points
  PROVE  LET kept == Delete(Stale({Id(p) : p \in PointsOf(Current, t)})) IN
         /\ kept \subseteq points
         /\ \A q \in points : q.path # Current => q \in kept
         /\ {q \in kept : q.path = Current} = PointsOf(Current, t)
<1> DEFINE ids  == {Id(p) : p \in PointsOf(Current, t)}
           kept == Delete(Stale(ids))
<1>1. \A q : q \in kept <=> q \in points /\ (Id(q) \notin IdsWhere(Current) \/ Id(q) \in ids)
  BY DEF Delete, Stale
<1>2. \A q \in points : Id(q) \in IdsWhere(Current) <=> q.path = Current
  BY DEF IdsWhere, Id
<1>3. \A q \in points : Id(q) \in ids <=> q \in PointsOf(Current, t)
  BY DEF Stored
<1>4. \A q \in PointsOf(Current, t) : q.path = Current
  BY PointFacts
<1> HIDE DEF ids, kept
<1>5. {q \in kept : q.path = Current} = PointsOf(Current, t)
  BY <1>1, <1>2, <1>3, <1>4
<1>6. kept \subseteq points /\ \A q \in points : q.path # Current => q \in kept
  BY <1>1, <1>2
<1> QED BY <1>5, <1>6 DEF ids, kept

-----------------------------------------------------------------------------
(* The steps of an ingest.                                                 *)

LEMMA InitInv == LibInit => IngestInv
<1> SUFFICES ASSUME LibInit PROVE IngestInv
  OBVIOUS
<1> USE DEF LibInit
<1>1. job = [at |-> "idle", found |-> {}, prune |-> TRUE, next |-> 0, failed |-> {}, read |-> [p \in Paths |-> 0]]
  BY DEF Idle
<1>2. Len(Library) \in Nat
  BY LibraryAssumption
<1>3. [p \in Paths |-> 0] \in [Paths -> 0..Len(Library)]
  BY <1>2
<1>4. job \in JobType
  BY <1>1, <1>3 DEF JobType
<1>5. quant \in QuantType
  BY DEF QuantType
<1>6. LibShape /\ Stored /\ Upserting /\ Exact
  BY <1>1, <1>4, <1>5 DEF LibShape, Stored, Upserting, Exact, Finished
<1>7. Unedited /\ OneReading
  BY <1>1 DEF Unedited, Finished, OneReading
<1> QED BY <1>6, <1>7 DEF IngestInv

LEMMA BeginStep ==
  ASSUME IngestInv, NEW rebuild \in BOOLEAN, NEW prune \in BOOLEAN, Begin(rebuild, prune)
  PROVE  IngestInv'
<1>1. job' = [at |-> "read", found |-> {p \in Paths : disk[p] # 0}, prune |-> prune, next |-> 0,
              failed |-> {}, read |-> [p \in Paths |-> 0]]
  BY DEF Begin, Idle
<1>2. /\ points' \subseteq points /\ UNCHANGED <<disk, quant, edits>>
  BY DEF Begin
<1>3. [p \in Paths |-> 0] \in [Paths -> 0..Len(Library)]
  BY LibraryAssumption
<1>4. job' \in JobType
  BY <1>1, <1>3 DEF JobType
<1>5. LibShape'
  BY <1>1, <1>2, <1>4 DEF IngestInv, LibShape
<1>6. Stored'
  BY <1>2 DEF IngestInv, Stored
<1>7. Upserting' /\ Exact'
  BY <1>1 DEF Upserting, Exact
<1>8. Unedited'
  BY <1>1, <1>2 DEF Unedited, Finished
<1>9. OneReading'
  BY <1>2 DEF IngestInv, OneReading, Whole
<1> QED BY <1>5, <1>6, <1>7, <1>8, <1>9 DEF IngestInv

\* A document that fails is done with and reported.
LEMMA FailFacts ==
  ASSUME job \in JobType, Current \in job.found, Fail
  PROVE  /\ job' \in JobType /\ job'.at = "read" /\ job'.found = job.found \ {Current}
         /\ job'.failed = job.failed \cup {Current}
         /\ job'.prune = job.prune /\ job'.read = job.read
<1>1. job' = [at |-> "read", found |-> job.found \ {Current}, prune |-> job.prune, next |-> job.next,
              failed |-> job.failed \cup {Current}, read |-> job.read]
  BY DEF Fail, JobType
<1>2. /\ job.found \in SUBSET Paths /\ job.failed \in SUBSET Paths /\ job.next \in Nat /\ job.prune \in BOOLEAN
      /\ job.read \in [Paths -> 0..Len(Library)]
  BY DEF JobType
<1>3. job.found \ {Current} \in SUBSET Paths /\ job.failed \cup {Current} \in SUBSET Paths
  BY <1>2
<1>4. job' \in JobType
  BY <1>1, <1>2, <1>3 DEF JobType
<1> QED BY <1>1, <1>4

LEMMA FailStep ==
  ASSUME IngestInv, job.at \in {"read", "upsert"}, Current \in job.found, Fail,
         UNCHANGED <<disk, points, quant, edits>>
  PROVE  IngestInv'
<1>1. job \in JobType
  BY DEF IngestInv, LibShape
<1>2. /\ job' \in JobType /\ job'.at = "read" /\ job'.found = job.found \ {Current}
      /\ job'.failed = job.failed \cup {Current}
      /\ job'.prune = job.prune /\ job'.read = job.read
  BY <1>1, FailFacts
<1>3. LibShape' /\ Stored'
  BY <1>2 DEF IngestInv, LibShape, Stored
<1>4. Upserting'
  BY <1>2 DEF Upserting
<1>5. \A p : Finished(p)' => Finished(p)
  BY <1>2 DEF Finished
<1>6. Exact'
  BY <1>2, <1>5 DEF IngestInv, Exact, Owned
<1>7. Unedited'
  BY <1>2, <1>5 DEF IngestInv, Unedited
<1>8. OneReading'
  BY DEF IngestInv, OneReading, Whole
<1> QED BY <1>3, <1>4, <1>6, <1>7, <1>8 DEF IngestInv

LEMMA ReadStep ==
  ASSUME IngestInv, Read
  PROVE  IngestInv'
<1>1. job \in JobType
  BY DEF IngestInv, LibShape
<1>2. Current \in job.found
  <2>1. job.found \in SUBSET Paths /\ job.found # {}
    BY <1>1 DEF Read, JobType
  <2> QED BY <2>1, FirstIsLeft DEF Current
<1>3. UNCHANGED <<disk, points, quant, edits>>
  BY DEF Read
<1>4. CASE disk[Current] = 0 \/ Library[disk[Current]] = <<>> \/ TooLarge(disk[Current])
  BY <1>2, <1>3, <1>4, FailStep DEF Read
<1>5. CASE ~(disk[Current] = 0 \/ Library[disk[Current]] = <<>> \/ TooLarge(disk[Current]))
  <2> DEFINE now == [job.read EXCEPT ![Current] = disk[Current]]
  <2>1. job' = [at |-> "upsert", found |-> job.found, prune |-> job.prune, next |-> 1,
                failed |-> job.failed, read |-> now]
    <3>1. job' = [job EXCEPT !.at = "upsert", !.next = 1, !.read[Current] = disk[Current]]
      BY <1>5 DEF Read
    <3>2. job = [at |-> job.at, found |-> job.found, prune |-> job.prune, next |-> job.next,
                 failed |-> job.failed, read |-> job.read]
      BY <1>1 DEF JobType
    <3> QED BY <3>1, <3>2
  <2>2. /\ job.found \in SUBSET Paths /\ job.failed \in SUBSET Paths /\ job.prune \in BOOLEAN
        /\ job.read \in [Paths -> 0..Len(Library)]
    BY <1>1 DEF JobType
  <2>3. Current \in Paths /\ disk[Current] \in 0..Len(Library)
    BY <1>2, <2>2 DEF IngestInv, LibShape
  <2>4. /\ now \in [Paths -> 0..Len(Library)] /\ now[Current] = disk[Current]
        /\ \A p \in Paths : p # Current => now[p] = job.read[p]
    BY <2>2, <2>3
  <2> HIDE DEF now
  <2>5. job' \in JobType
    BY <2>1, <2>2, <2>4 DEF JobType
  <2>6. Current' = Current
    BY <2>1 DEF Current
  <2>7. LibShape' /\ Stored'
    BY <1>3, <2>1, <2>5 DEF IngestInv, LibShape, Stored
  <2>8. disk[Current] \in Texts
    BY <1>5, <2>3, LibraryAssumption DEF Texts
  <2>9. \A q \in PointsOf(Current, disk[Current]) : ~ (q.index < 1)
    BY <2>8, ChunkFacts, PointFacts
  <2>10. Upserting'
    BY <1>2, <1>3, <1>5, <2>1, <2>4, <2>6, <2>9 DEF Upserting
  <2>11. \A p : Finished(p)' => Finished(p) /\ p # Current
    BY <1>2, <2>1 DEF Finished, Read
  <2>12. Exact'
    BY <1>3, <2>1, <2>4, <2>11 DEF IngestInv, Exact, Owned
  <2>13. Unedited'
    BY <1>3, <2>1, <2>4, <2>11 DEF IngestInv, Unedited
  <2>14. OneReading'
    BY <1>3 DEF IngestInv, OneReading, Whole
  <2> QED BY <2>7, <2>10, <2>12, <2>13, <2>14 DEF IngestInv
<1> QED BY <1>4, <1>5

\* The document under way.
LEMMA UpsertingFacts ==
  ASSUME IngestInv, job.at = "upsert"
  PROVE  /\ job \in JobType /\ Stored
         /\ Current \in job.found /\ Current \in Paths
         /\ job.read[Current] \in Texts /\ ~TooLarge(job.read[Current])
         /\ Len(Library[job.read[Current]]) \in Nat
         /\ \A q \in PointsOf(Current, job.read[Current]) : q.index < job.next => q \in points
<1>1. job \in JobType /\ Stored /\ Upserting
  BY DEF IngestInv, LibShape
<1>2. Current \in Paths /\ job.read[Current] \in 0..Len(Library) /\ job.read[Current] # 0
  BY <1>1 DEF JobType, Upserting
<1>3. job.read[Current] \in Texts
  BY <1>2, LibraryAssumption DEF Texts
<1> QED BY <1>1, <1>2, <1>3, ChunkFacts DEF Upserting

LEMMA BatchStep ==
  ASSUME IngestInv, UpsertBatch
  PROVE  IngestInv'
<1> DEFINE t   == job.read[Current]
           new == Batch(Current, t, job.next)
           old == Current
<1>1. /\ job.at = "upsert" /\ points' = Upsert(new) /\ UNCHANGED <<disk, quant, edits>>
      /\ job' = [job EXCEPT !.next = @ + BatchSize]
  BY DEF UpsertBatch
<1>2. /\ job \in JobType /\ Stored
      /\ Current \in job.found /\ Current \in Paths /\ t \in Texts /\ ~TooLarge(t)
      /\ Len(Library[t]) \in Nat
      /\ \A q \in PointsOf(Current, t) : q.index < job.next => q \in points
  BY <1>1, UpsertingFacts
<1>3. new \in SUBSET PointsOf(Current, t)
  BY DEF Batch
<1>4. job.next \in Nat /\ BatchSize \in Nat /\ job.next + BatchSize \in Nat
  BY <1>2, LibraryAssumption DEF JobType
<1>5. /\ job' \in JobType /\ job'.next = job.next + BatchSize
      /\ job'.at = job.at /\ job'.found = job.found /\ job'.prune = job.prune
      /\ job'.failed = job.failed /\ job'.read = job.read
  BY <1>1, <1>2, <1>4 DEF JobType
<1>6. Current' = Current
  BY <1>5 DEF Current
<1>7. \A q \in PointsOf(Current, t) : q.index < job.next + BatchSize => q.index < job.next \/ q \in new
  <2>1. ASSUME NEW q \in PointsOf(Current, t), q.index < job.next + BatchSize, ~ (q.index < job.next)
        PROVE  q.index \in job.next..(job.next + BatchSize - 1)
    <3>1. q.index \in Nat
      BY <1>2, PointFacts
    <3> QED BY <1>4, <2>1, <3>1
  <2> QED BY <2>1 DEF Batch
<1> HIDE DEF new, t
<1>8. /\ \A q \in points' : Known(q)
      /\ \A p, q \in points' : Id(p) = Id(q) => p = q
      /\ new \subseteq points'
      /\ \A q \in points' : q \in points \/ q.path = Current
      /\ \A q \in points : q.path # Current => q \in points'
      /\ \A q \in points : q \in PointsOf(Current, t) => q \in points'
  BY <1>1, <1>2, <1>3, UpsertFacts
<1>9. LibShape'
  BY <1>1, <1>5 DEF IngestInv, LibShape
<1>10. Stored'
  BY <1>8 DEF Stored
<1>11. Upserting'
  <2>1. \A q \in PointsOf(Current, t) : q.index < job.next + BatchSize => q \in points'
    BY <1>2, <1>7, <1>8
  <2>2. job'.read[Current'] = t
    BY <1>5, <1>6 DEF t
  <2>3. t # 0
    BY <1>2 DEF Texts
  <2> QED BY <1>2, <1>5, <1>6, <2>1, <2>2, <2>3 DEF Upserting
<1>12. \A p : Finished(p)' => Finished(p) /\ p # Current
  BY <1>2, <1>5 DEF Finished
<1>13. Exact'
  <2>1. \A p : p # Current => {q \in points' : q.path = p} = {q \in points : q.path = p}
    BY <1>8
  <2> QED BY <1>5, <1>12, <2>1 DEF IngestInv, Exact, Owned
<1>14. Unedited'
  <2>1. ASSUME NEW p \in Paths, p # Current, disk[p] \in Texts, PointsOf(p, disk[p]) \subseteq points
        PROVE  PointsOf(p, disk[p]) \subseteq points'
    BY <1>8, <2>1, PointFacts
  <2>2. \A p \in Paths : disk[p] # 0 => disk[p] \in Texts
    BY LibraryAssumption DEF IngestInv, LibShape, Texts
  <2> QED BY <1>1, <1>5, <1>12, <2>1, <2>2 DEF IngestInv, Unedited
<1>15. OneReading'
  BY <1>1 DEF IngestInv, OneReading, Whole
<1> QED BY <1>9, <1>10, <1>11, <1>13, <1>14, <1>15 DEF IngestInv

LEMMA PruneStep ==
  ASSUME IngestInv, Prune
  PROVE  IngestInv'
<1> DEFINE t    == job.read[Current]
           kept == Delete(Stale({Id(p) : p \in PointsOf(Current, t)}))
<1>1. /\ job.at = "upsert" /\ job.next > Len(Library[t]) /\ UNCHANGED <<disk, quant, edits>>
      /\ points' = IF job.prune THEN kept ELSE points
      /\ job' = [job EXCEPT !.at = "read", !.found = @ \ {Current}]
  BY DEF Prune
<1>2. /\ job \in JobType /\ Stored
      /\ Current \in job.found /\ Current \in Paths /\ t \in Texts /\ Len(Library[t]) \in Nat
      /\ \A q \in PointsOf(Current, t) : q.index < job.next => q \in points
  BY <1>1, UpsertingFacts
<1>3. PointsOf(Current, t) \subseteq points
  <2>1. \A q \in PointsOf(Current, t) : q.index \in 1..Len(Library[t])
    BY <1>2, PointFacts
  <2>2. job.next \in Nat
    BY <1>2 DEF JobType
  <2>3. \A q \in PointsOf(Current, t) : q.index < job.next
    BY <1>1, <1>2, <2>1, <2>2
  <2> QED BY <1>2, <2>3
<1> HIDE DEF t
<1>4. /\ kept \subseteq points
      /\ \A q \in points : q.path # Current => q \in kept
      /\ {q \in kept : q.path = Current} = PointsOf(Current, t)
  BY <1>2, <1>3, PruneFacts
<1> HIDE DEF kept
<1>5. /\ points' \subseteq points
      /\ \A q \in points : q.path # Current => q \in points'
      /\ PointsOf(Current, t) \subseteq points'
      /\ job.prune => {q \in points' : q.path = Current} = PointsOf(Current, t)
  BY <1>1, <1>3, <1>4
<1>6. /\ job' \in JobType /\ job'.at = "read" /\ job'.found = job.found \ {Current}
      /\ job'.prune = job.prune /\ job'.failed = job.failed /\ job'.read = job.read
  BY <1>1, <1>2 DEF JobType
<1>7. LibShape'
  BY <1>1, <1>6 DEF IngestInv, LibShape
<1>8. Stored'
  BY <1>2, <1>5 DEF Stored
<1>9. Upserting'
  BY <1>6 DEF Upserting
<1>10. \A p : Finished(p)' => p = Current \/ Finished(p)
  BY <1>1, <1>6 DEF Finished
<1>11. Exact'
  <2>1. \A p : p # Current => {q \in points' : q.path = p} = {q \in points : q.path = p}
    BY <1>5
  <2>2. job'.prune => {q \in points' : q.path = Current} = PointsOf(Current, job'.read[Current])
    BY <1>5, <1>6 DEF t
  <2> QED BY <1>6, <1>10, <2>1, <2>2 DEF IngestInv, Exact, Owned
<1>12. Unedited'
  <2>1. ASSUME NEW p \in Paths, p # Current, disk[p] \in Texts, PointsOf(p, disk[p]) \subseteq points
        PROVE  PointsOf(p, disk[p]) \subseteq points'
    BY <1>5, <2>1, PointFacts
  <2>2. \A p \in Paths : disk[p] # 0 => disk[p] \in Texts
    BY LibraryAssumption DEF IngestInv, LibShape, Texts
  <2>3. t # 0
    BY <1>2 DEF Texts
  <2>4. edits = 0 => disk[Current] = t
    BY <1>2, <2>3 DEF IngestInv, Unedited, t
  <2> QED BY <1>1, <1>5, <1>6, <1>10, <2>1, <2>2, <2>4 DEF IngestInv, Unedited
<1>13. OneReading'
  BY <1>1 DEF IngestInv, OneReading, Whole
<1> QED BY <1>7, <1>8, <1>9, <1>11, <1>12, <1>13 DEF IngestInv

LEMMA EndStep ==
  ASSUME IngestInv, EndIngest \/ Killed
  PROVE  IngestInv'
<1>1. UNCHANGED <<disk, points, quant, edits>>
  BY DEF EndIngest, Killed
<1>2. Stored' /\ OneReading'
  BY <1>1 DEF IngestInv, Stored, OneReading, Whole
<1>3. job \in JobType
  BY DEF IngestInv, LibShape
<1>4. CASE EndIngest
  <2>1. /\ job' \in JobType /\ job'.at = "ended" /\ job.at = "read" /\ job'.found = {} /\ job.found = {}
        /\ job'.prune = job.prune /\ job'.failed = job.failed /\ job'.read = job.read
    BY <1>3, <1>4 DEF EndIngest, JobType
  <2>2. LibShape' /\ Upserting'
    BY <1>1, <2>1 DEF IngestInv, LibShape, Upserting
  <2>3. \A p : Finished(p)' => Finished(p)
    BY <2>1 DEF Finished
  <2>4. Exact'
    BY <1>1, <2>1, <2>3 DEF IngestInv, Exact, Owned
  <2>5. Unedited'
    BY <1>1, <2>1, <2>3 DEF IngestInv, Unedited
  <2> QED BY <1>2, <2>2, <2>4, <2>5 DEF IngestInv
<1>5. CASE Killed
  <2>1. job' = [at |-> "idle", found |-> {}, prune |-> TRUE, next |-> 0, failed |-> {}, read |-> [p \in Paths |-> 0]]
    BY <1>5 DEF Killed, Idle
  <2>2. [p \in Paths |-> 0] \in [Paths -> 0..Len(Library)]
    BY LibraryAssumption
  <2>3. job' \in JobType
    BY <2>1, <2>2 DEF JobType
  <2>4. LibShape' /\ Upserting'
    BY <1>1, <2>1, <2>3 DEF IngestInv, LibShape, Upserting
  <2>5. Exact' /\ Unedited'
    BY <2>1 DEF Exact, Unedited, Finished
  <2> QED BY <1>2, <2>4, <2>5 DEF IngestInv
<1> QED BY <1>4, <1>5

LEMMA EditStep ==
  ASSUME IngestInv, NEW p \in Paths, NEW t \in 0..Len(Library), Edit(p, t)
  PROVE  IngestInv'
<1>1. /\ UNCHANGED <<points, job, quant>>
      /\ edits' = edits + 1 /\ disk' = [disk EXCEPT ![p] = t]
  BY DEF Edit
<1>2. LibShape'
  BY <1>1 DEF IngestInv, LibShape
<1>3. Stored' /\ OneReading'
  BY <1>1 DEF IngestInv, Stored, OneReading, Whole
<1>4. Current' = Current
  BY <1>1 DEF Current
<1>5. Upserting'
  BY <1>1, <1>4 DEF IngestInv, Upserting
<1>6. Exact'
  BY <1>1 DEF IngestInv, Exact, Finished, Owned
<1>7. Unedited'
  BY <1>1 DEF IngestInv, LibShape, Unedited
<1> QED BY <1>2, <1>3, <1>5, <1>6, <1>7 DEF IngestInv

-----------------------------------------------------------------------------
(* The executable knowledge.                                               *)

\* What does not touch the ingest, its documents or its collection keeps what is known of them.
LEMMA BesideStep ==
  ASSUME IngestInv, UNCHANGED <<disk, points, job, edits>>
  PROVE  (quant' \in QuantType => LibShape') /\ Stored' /\ Upserting' /\ Exact' /\ Unedited'
<1>1. Current' = Current
  BY DEF Current
<1>2. Upserting'
  BY <1>1 DEF IngestInv, Upserting
<1>3. Stored' /\ Unedited' /\ Exact'
  BY DEF IngestInv, Stored, Unedited, Exact, Finished, Owned
<1> QED BY <1>2, <1>3 DEF IngestInv, LibShape

LEMMA WholeType ==
  ASSUME NEW texts \in [Paths -> 0..Len(Library)]
  PROVE  Whole(texts) \subseteq UNION {PointsOf(p, t) : p \in Paths, t \in Texts}
BY LibraryAssumption DEF Whole, Texts

LEMMA QuantFields ==
  ASSUME quant \in QuantType
  PROVE  quant = [points |-> quant.points, reading |-> quant.reading, seen |-> quant.seen]
<1>1. ASSUME NEW P, NEW R, NEW S, NEW q \in [points : P, reading : R, seen : S]
      PROVE  q = [points |-> q.points, reading |-> q.reading, seen |-> q.seen]
  OBVIOUS
<1> QED BY <1>1 DEF QuantType

LEMMA QuantStep ==
  ASSUME IngestInv, (\E rebuild \in BOOLEAN : Open(rebuild)) \/ Store \/ Stopped
  PROVE  IngestInv'
<1>1. UNCHANGED <<disk, points, job, edits>>
  BY DEF Open, Store, Stopped
<1>2. disk \in [Paths -> 0..Len(Library)] /\ quant \in QuantType /\ OneReading
  BY DEF IngestInv, LibShape
<1>3. quant' \in QuantType /\ OneReading'
  <2>1. ASSUME NEW rebuild \in BOOLEAN, Open(rebuild)
        PROVE  quant' \in QuantType /\ OneReading'
    <3> DEFINE held == IF rebuild THEN {} ELSE quant.points
    <3>1. ~quant.reading
      BY <2>1 DEF Open
    <3>2. quant' = [points |-> held, reading |-> (held = {}), seen |-> IF held = {} THEN disk ELSE quant.seen]
      <4>1. quant' = [quant EXCEPT !.points = held, !.reading = (held = {}), !.seen = IF held = {} THEN disk ELSE @]
        BY <2>1 DEF Open
      <4> QED BY <1>2, <4>1, QuantFields
    <3>3. quant' \in QuantType
      BY <1>2, <3>2 DEF QuantType
    <3>4. held # {} => held = quant.points
      OBVIOUS
    <3> HIDE DEF held
    <3>5. OneReading'
      BY <1>2, <3>1, <3>2, <3>4 DEF OneReading, Whole
    <3> QED BY <3>3, <3>5
  <2>2. CASE Store
    <3>1. quant.reading /\ quant.points = {}
      BY <1>2, <2>2 DEF Store, OneReading
    <3>2. quant' = [points |-> Whole(quant.seen), reading |-> FALSE, seen |-> quant.seen]
      <4>1. quant' = [quant EXCEPT !.reading = FALSE,
                        !.points = {p \in @ : \A q \in Whole(quant.seen) : Id(q) # Id(p)} \cup Whole(quant.seen)]
        BY <2>2 DEF Store
      <4>2. {p \in quant.points : \A q \in Whole(quant.seen) : Id(q) # Id(p)} \cup Whole(quant.seen) = Whole(quant.seen)
        BY <3>1
      <4> QED BY <1>2, <4>1, <4>2, QuantFields
    <3>3. quant' \in QuantType
      BY <1>2, <3>2, WholeType DEF QuantType
    <3>4. OneReading'
      BY <3>2 DEF OneReading
    <3> QED BY <3>3, <3>4
  <2>3. CASE Stopped
    <3>1. quant.reading /\ quant.points = {}
      BY <1>2, <2>3 DEF Stopped, OneReading
    <3>2. quant' = [points |-> {}, reading |-> FALSE, seen |-> quant.seen]
      BY <1>2, <2>3, <3>1, QuantFields DEF Stopped
    <3> QED BY <1>2, <3>2 DEF QuantType, OneReading
  <2> QED BY <2>1, <2>2, <2>3
<1> QED BY <1>1, <1>3, BesideStep DEF IngestInv

-----------------------------------------------------------------------------
(* The theorem.                                                            *)

LEMMA IngestInductive == IngestInv /\ [LibNext]_libVars => IngestInv'
<1> SUFFICES ASSUME IngestInv, [LibNext]_libVars PROVE IngestInv'
  OBVIOUS
<1>1. ASSUME NEW rebuild \in BOOLEAN, NEW prune \in BOOLEAN, Begin(rebuild, prune) PROVE IngestInv'
  BY <1>1, BeginStep
<1>2. CASE Read
  BY <1>2, ReadStep
<1>3. CASE UpsertBatch
  BY <1>3, BatchStep
<1>4. CASE Prune
  BY <1>4, PruneStep
<1>5. CASE StoreFails
  BY <1>5, UpsertingFacts, FailStep DEF StoreFails
<1>6. CASE EndIngest \/ Killed
  BY <1>6, EndStep
<1>7. ASSUME NEW p \in Paths, NEW t \in 0..Len(Library), Edit(p, t) PROVE IngestInv'
  BY <1>7, EditStep
<1>8. CASE (\E rebuild \in BOOLEAN : Open(rebuild)) \/ Store \/ Stopped
  BY <1>8, QuantStep
<1>9. CASE UNCHANGED libVars
  <2>1. UNCHANGED <<disk, points, job, quant, edits>>
    BY <1>9 DEF libVars
  <2>2. quant' \in QuantType /\ OneReading'
    BY <2>1 DEF IngestInv, LibShape, OneReading, Whole
  <2> QED BY <2>1, <2>2, BesideStep DEF IngestInv
<1> QED BY <1>1, <1>2, <1>3, <1>4, <1>5, <1>6, <1>7, <1>8, <1>9 DEF LibNext

\* What is known of every state of an ingest is what is checked of it.
LEMMA IngestInvIsEnough ==
  ASSUME IngestInv
  PROVE  LibTypeOK /\ CleanIngestIsExact /\ FailureIsReported /\ NothingTruncated /\ QuantIsOneReading
<1>1. ASSUME NEW q \in points
      PROVE  q.path \in Paths /\ q.index \in 1..q.total /\ q.size <= ModelLimit
  <2>1. q.path \in Paths
    BY DEF IngestInv, Stored, Known
  <2>2. PICK t \in Texts : ~TooLarge(t) /\ q \in PointsOf(q.path, t)
    BY DEF IngestInv, Stored, Known
  <2>3. /\ q.index \in 1..Len(Library[t]) /\ q.total = Len(Library[t])
        /\ q.size = Titled(Library[t][q.index])
    BY <2>2, PointFacts
  <2>4. q.index \in DOMAIN Library[t] /\ q.size \in Nat
    BY <2>3, ChunkFacts
  <2>5. ~ (q.size > ModelLimit)
    BY <2>2, <2>3, <2>4 DEF TooLarge
  <2>6. q.size <= ModelLimit
    BY <2>4, <2>5, LibraryAssumption
  <2> QED BY <2>1, <2>3, <2>6
<1>2. LibTypeOK
  BY <1>1 DEF IngestInv, LibShape, Stored, LibTypeOK
<1>3. NothingTruncated
  BY <1>1 DEF NothingTruncated
<1>4. job.at = "ended" => \A p \in Paths \ job.failed : Finished(p)
  BY DEF IngestInv, LibShape, Finished
<1>5. CleanIngestIsExact
  BY <1>4 DEF IngestInv, Exact, CleanIngestIsExact
<1>6. FailureIsReported
  BY <1>4 DEF IngestInv, Unedited, FailureIsReported
<1>7. QuantIsOneReading
  BY DEF IngestInv, OneReading, QuantIsOneReading
<1> QED BY <1>2, <1>3, <1>5, <1>6, <1>7

\* What the step formula of SharedChunkStays says of one step.
SharedStays ==
  \A p \in points :
    (job.at \in {"read", "upsert"} /\ ~(\E q \in points' : Id(q) = Id(p))) =>
        \A t \in {job.read[p.path]} \ {0} : p \notin PointsOf(p.path, t)

LEMMA ChunksStay ==
  ASSUME IngestInv, [LibNext]_libVars
  PROVE  SharedStays
<1> SUFFICES ASSUME NEW p \in points, job.at \in {"read", "upsert"},
                    ~ (\E q \in points' : Id(q) = Id(p)), job.read[p.path] # 0
             PROVE  p \notin PointsOf(p.path, job.read[p.path])
  BY DEF SharedStays
<1>1. p \notin points'
  OBVIOUS
<1>2. UpsertBatch \/ Prune
  BY <1>1 DEF libVars, LibNext, Begin, Read, StoreFails, EndIngest, Killed, Edit, Open, Store, Stopped
<1>3. job.at = "upsert"
  BY <1>2 DEF UpsertBatch, Prune
<1>4. /\ Stored /\ Current \in Paths
      /\ job.read[Current] \in Texts /\ ~TooLarge(job.read[Current])
  BY <1>3, UpsertingFacts
<1>5. CASE UpsertBatch
  <2>1. Batch(Current, job.read[Current], job.next) \in SUBSET PointsOf(Current, job.read[Current])
    BY DEF Batch
  <2>2. \E r \in Upsert(Batch(Current, job.read[Current], job.next)) : Id(r) = Id(p)
    BY <1>4, <2>1, UpsertFacts
  <2> QED BY <1>5, <2>2 DEF UpsertBatch
<1>6. CASE Prune
  <2>1. p \notin Delete(Stale({Id(q) : q \in PointsOf(Current, job.read[Current])}))
    BY <1>1, <1>6 DEF Prune
  <2>2. Id(p) \in IdsWhere(Current) /\ Id(p) \notin {Id(q) : q \in PointsOf(Current, job.read[Current])}
    BY <2>1 DEF Delete, Stale
  <2>3. p.path = Current
    BY <2>2 DEF IdsWhere, Id
  <2> QED BY <2>2, <2>3
<1> QED BY <1>2, <1>5, <1>6

\* However ingests, edits, failures, stops and rebuilds alternate: the collection is what the
\* documents say, and a search beside an ingest finds every chunk that stays (market_risk_kb.py:380-500,
\* knowledge_base.py).
THEOREM IngestCorrect == LibSpec => LibraryHolds
<1>1. IngestInv => LibTypeOK /\ CleanIngestIsExact /\ FailureIsReported /\ NothingTruncated /\ QuantIsOneReading
  BY IngestInvIsEnough
<1>2. IngestInv /\ [LibNext]_libVars => [SharedStays]_libVars
  BY ChunksStay
<1> QED BY InitInv, IngestInductive, <1>1, <1>2, PTL DEF LibSpec, LibraryHolds, SharedChunkStays, SharedStays

-----------------------------------------------------------------------------
(* Retrieval: the inductive invariant.                                     *)

TaskFields == {"at", "req", "answer", "family", "asked", "left", "from", "to", "cursor", "got", "rows",
               "day", "id", "outcome", "blind", "whole", "calm", "steady"}
Row     == [day : Days, tenor : 1..2, vintage : 1..Vintages]
ReqOK(req) == req.tenors \in 1..2 /\ req.rows \in Nat /\ req.asof \in 0..LastDay /\ req.from \in Nat /\ req.to \in 0..LastDay
Steps   == {"idle", "family", "table", "date", "exact", "previous", "rows", "id", "tenor", "page", "next", "done"}

TaskShape ==
    /\ DOMAIN task = TaskFields
    /\ task.at \in Steps
    /\ ReqOK(task.req) /\ task.answer \in Kinds \cup {"none"} /\ task.family \in Kinds \cup {"none"}
    /\ task.left \in 0..2 /\ task.from \in Nat /\ task.to \in 0..LastDay /\ task.cursor \in 0..LastDay
    /\ task.got \in SUBSET Row /\ task.rows \in SUBSET Row /\ task.day \in 0..LastDay /\ task.id \in 0..Vintages
    /\ task.outcome \in {"none", "served", "refused", "raised"}
    /\ task.asked \in BOOLEAN /\ task.blind \in BOOLEAN /\ task.whole \in BOOLEAN /\ task.calm \in BOOLEAN /\ task.steady \in BOOLEAN

\* A curve is whole, of a vintage that was registered, or not there.
Empty   == [d \in Days |-> 0]
Tables  == /\ core \in [Kinds -> [Days -> 0..Vintages]] /\ registered \in 1..Vintages /\ loading \subseteq Kinds
           /\ catalogue \in [there : BOOLEAN, last : [Kinds -> 0..LastDay]]
           /\ \A f \in Kinds : core[f] = Empty \/ \E v \in 1..registered : core[f] = RowsOf(v)

\* The curve is chosen once, and as CurveIsTheUsers has it.
Chosen   == /\ task.family \in Kinds
            /\ \/ task.asked \/ task.blind \/ task.family = task.req.family
               \/ task.req.family = "ambiguous" /\ (task.family = task.answer \/ ~task.req.shared)
FamilyOK == task.at \in {"table", "date", "exact", "previous", "rows", "id", "tenor", "page", "next"} \/ Served => Chosen

\* What a day resolves to in a vintage.
RightDay(v, asof, day) == /\ asof \in Min(Published(v))..Max(Published(v))
                          /\ day = Max({d \in Published(v) : d <= asof})
DayIsFound(v, asof, day) == /\ day \in Published(v) /\ day <= asof
                            /\ task.steady => RightDay(v, asof, day)
DayOK == task.at \in {"rows", "id"} \/ Served => \A asof, day \in Days :
            task.req.asof = asof /\ task.day = day => \E v \in 1..registered : DayIsFound(v, asof, day)
DayIs == (task.at \in {"rows", "id"} \/ Served) /\ task.req.asof # 0 => task.day \in Days
\* What the queries so far have found, as long as no load has committed since the first of them.
LookOK == /\ task.at \in {"exact", "previous"} /\ task.steady /\ task.req.asof # 0 =>
                Has(task.family) = {} \/ Within(task.req.asof)
          /\ task.at = "previous" => task.req.asof # 0
          /\ task.at = "previous" /\ task.steady => task.req.asof \notin Has(task.family)

IdOK == /\ \A r \in task.rows \cup task.got : r.vintage <= registered
        /\ task.at # "done" => task.id = 0
        /\ task.id # 0 => \A r \in task.rows : r.vintage <= task.id

InHistory  == task.at \in {"tenor", "page", "next"}
AfterRows  == task.at \in {"date", "exact", "previous", "rows", "id"} \/ Served
RowAt(d, t) == [day |-> d, tenor |-> t, vintage |-> core[task.family][d]]
Small      == Cardinality(Period) <= RowCap
Good       == task.whole /\ task.calm /\ Small

\* A history's period is fixed by the catalogue, which does not change again.
Fixed   == /\ catalogue.there /\ task.to = EndOf(task.family) /\ task.from = StartOf(task.family)
           /\ task.from <= task.to /\ task.to # 0
Bounded == /\ task.at \in {"family", "table"} => task.rows = {}
           /\ task.at = "tenor" /\ task.left = task.req.tenors => task.rows = {}
           /\ InHistory => ~IsSnapshot /\ task.left \in 1..task.req.tenors
           /\ task.at = "page" => Fixed
           /\ task.whole /\ ~IsSnapshot /\ (task.at = "next" \/ AfterRows) => Fixed
           /\ task.at = "tenor" /\ task.whole /\ task.left < task.req.tenors => Fixed

\* Half-way through a history that nothing disturbed: what the pages and the tenors have brought.
PagesOK  == task.at = "page" /\ task.calm =>
                task.got = {RowAt(d, task.left) : d \in {e \in Period : e <= task.cursor}}
TenorOK  == task.at = "next" /\ Good => task.got = {RowAt(d, task.left) : d \in Period}
RowsOK   == InHistory /\ Good =>
                task.rows = {RowAt(d, t) : d \in Period, t \in (task.left + 1)..task.req.tenors}
Recent   == LastRows(Wanted, Period)
WindowOK == ~IsSnapshot /\ AfterRows /\ Good => task.rows = {RowAt(d, t) : d \in Recent, t \in 1..task.req.tenors}

RetInv == /\ TaskShape /\ Tables /\ FamilyOK /\ DayOK /\ DayIs /\ LookOK /\ IdOK /\ Bounded
          /\ PagesOK /\ TenorOK /\ RowsOK /\ WindowOK

-----------------------------------------------------------------------------
(* Days.                                                                   *)

LEMMA RetNumbers ==
  /\ LastDay \in Nat \ {0} /\ Vintages \in Nat \ {0} /\ Lookback \in Nat \ {0}
  /\ PageRows \in Nat \ {0} /\ RowCap \in Nat \ {0} /\ SampleRows \in Nat \ {0} /\ Holiday \in Nat
BY RetrievalAssumption

\* Some days have a first one and a last one.
LEMMA DayBounds ==
  ASSUME NEW S \in SUBSET Days, S # {}
  PROVE  /\ Min(S) \in S /\ \A d \in S : Min(S) <= d
         /\ Max(S) \in S /\ \A d \in S : d <= Max(S)
<1>1. S \subseteq Nat /\ LastDay \in Nat /\ \A d \in S : LastDay - d \in Nat
  BY RetNumbers DEF Days
<1>2. PICK m \in S : \A d \in S : ~ (<<d, m>> \in OpToRel(<, Nat))
  BY <1>1, NatLessThanWellFounded, WFMin
<1>3. \A d \in S : ~ (d < m)
  BY <1>1, <1>2 DEF OpToRel
<1>4. \A d \in S : m <= d
  BY <1>1, <1>3
<1>5. Min(S) \in S /\ \A d \in S : Min(S) <= d
  BY <1>4 DEF Min
<1> DEFINE Off == {LastDay - d : d \in S}
<1>6. Off \subseteq Nat /\ Off # {}
  BY <1>1
<1>7. PICK l \in Off : \A o \in Off : ~ (<<o, l>> \in OpToRel(<, Nat))
  BY <1>6, NatLessThanWellFounded, WFMin
<1>8. \A o \in Off : ~ (o < l)
  BY <1>6, <1>7 DEF OpToRel
<1>9. PICK x \in S : l = LastDay - x
  BY <1>7
<1>10. \A d \in S : ~ (LastDay - d < LastDay - x)
  BY <1>8, <1>9
<1>11. \A d \in S : x >= d
  BY <1>1, <1>10
<1>12. Max(S) \in S /\ \A d \in S : Max(S) >= d
  BY <1>11 DEF Max
<1>13. \A d \in S : d <= Max(S)
  BY <1>1, <1>12
<1> QED BY <1>5, <1>12, <1>13

LEMMA DaysFinite ==
  ASSUME NEW S \in SUBSET Days
  PROVE  IsFiniteSet(S) /\ Cardinality(S) \in Nat
<1>1. IsFiniteSet(Days)
  BY RetNumbers, FS_Interval DEF Days
<1>2. IsFiniteSet(S)
  BY <1>1, FS_Subset
<1> QED BY <1>2, FS_CardinalityType

\* The rows of a vintage are of the days that are published in it, and there is one.
LEMMA VintageFacts ==
  ASSUME NEW v \in 1..Vintages
  PROVE  /\ Published(v) \subseteq Days /\ Published(v) # {}
         /\ RowsOf(v) \in [Days -> 0..Vintages]
         /\ {d \in Days : RowsOf(v)[d] # 0} = Published(v)
         /\ \A d \in Published(v) : RowsOf(v)[d] = v
<1>1. PICK d \in 1..LastDay \ {Holiday} : d <= LastDay - Vintages + 1
  BY RetrievalAssumption
<1>2. d \in Published(v)
  BY <1>1, RetNumbers DEF Published, Days
<1>3. Published(v) \subseteq Days
  BY DEF Published
<1> QED BY <1>2, <1>3, RetNumbers DEF RowsOf

LEMMA HasFacts ==
  ASSUME Tables, NEW f \in Kinds, Has(f) # {}
  PROVE  \E v \in 1..registered : /\ v \in 1..Vintages /\ Has(f) = Published(v)
                                  /\ \A d \in Has(f) : core[f][d] = v
<1>1. core[f] # Empty
  BY DEF Has, Empty
<1>2. PICK v \in 1..registered : core[f] = RowsOf(v)
  BY <1>1 DEF Tables
<1>3. v \in 1..Vintages
  BY <1>2, RetNumbers DEF Tables
<1> QED BY <1>2, <1>3, VintageFacts DEF Has

\* The first rows of some days are some of them, and no day before one of them is left out.
LEMMA FirstRowsFacts ==
  ASSUME NEW S \in SUBSET Days, NEW n \in Nat \ {0}
  PROVE  /\ FirstRows(n, S) \subseteq S
         /\ S # {} => FirstRows(n, S) # {}
         /\ \A d \in S, m \in FirstRows(n, S) : d <= m => d \in FirstRows(n, S)
<1>1. S \subseteq Nat
  BY RetNumbers DEF Days
<1>2. ASSUME S # {}
      PROVE  Min(S) \in FirstRows(n, S)
  <2> DEFINE m == Min(S)
  <2>1. m \in S /\ \A d \in S : m <= d
    BY <1>2, DayBounds
  <2> HIDE DEF m
  <2>2. {e \in S : e <= m} = {m}
    <3>1. \A e \in S : e \in Nat /\ m \in Nat /\ m <= e
      BY <1>1, <2>1
    <3>2. \A e \in S : e <= m <=> e = m
      BY <3>1
    <3> QED BY <2>1, <3>2
  <2>3. Cardinality({e \in S : e <= m}) = 1
    BY <2>2, FS_Singleton
  <2>4. m \in FirstRows(n, S)
    BY <2>1, <2>3 DEF FirstRows
  <2> QED BY <2>4 DEF m
<1>3. ASSUME NEW d \in S, NEW m \in FirstRows(n, S), d <= m
      PROVE  d \in FirstRows(n, S)
  <2> DEFINE A == {e \in S : e <= d}
             B == {e \in S : e <= m}
  <2>1. A \subseteq B
    <3>1. m \in S
      BY DEF FirstRows
    <3>2. \A e \in S : e \in Nat /\ d \in Nat /\ m \in Nat
      BY <1>1, <3>1
    <3>3. \A e \in S : e <= d => e <= m
      BY <1>3, <3>2
    <3> QED BY <3>3
  <2>2. IsFiniteSet(B) /\ Cardinality(A) \in Nat /\ Cardinality(B) \in Nat
    BY DaysFinite
  <2>3. Cardinality(A) <= Cardinality(B)
    BY <2>1, <2>2, FS_Subset
  <2>4. Cardinality(B) <= n
    BY <1>3 DEF FirstRows
  <2>5. Cardinality(A) <= n
    BY <2>2, <2>3, <2>4
  <2> QED BY <2>5 DEF FirstRows
<1> QED BY <1>2, <1>3 DEF FirstRows

LEMMA LastRowsFacts ==
  ASSUME NEW S \in SUBSET Days, NEW n \in Nat \ {0}
  PROVE  /\ LastRows(n, S) \subseteq S
         /\ S # {} => Max(S) \in LastRows(n, S)
<1>1. S \subseteq Nat
  BY RetNumbers DEF Days
<1>2. ASSUME S # {}
      PROVE  Max(S) \in LastRows(n, S)
  <2> DEFINE m == Max(S)
  <2>1. m \in S /\ \A d \in S : d <= m
    BY <1>2, DayBounds
  <2> HIDE DEF m
  <2>2. {e \in S : e >= m} = {m}
    <3>1. \A e \in S : e \in Nat /\ m \in Nat /\ e <= m
      BY <1>1, <2>1
    <3>2. \A e \in S : e >= m <=> e = m
      BY <3>1
    <3> QED BY <2>1, <3>2
  <2>3. Cardinality({e \in S : e >= m}) = 1
    BY <2>2, FS_Singleton
  <2>4. m \in LastRows(n, S)
    BY <2>1, <2>3 DEF LastRows
  <2> QED BY <2>4 DEF m
<1> QED BY <1>2 DEF LastRows

\* What an undisturbed history is measured against depends on the tables, the curve and the period.
LEMMA SamePeriod ==
  ASSUME UNCHANGED core, task'.family = task.family, task'.from = task.from, task'.to = task.to,
         task'.req = task.req
  PROVE  /\ Period' = Period /\ (Small' <=> Small) /\ Recent' = Recent
         /\ (IsSnapshot' <=> IsSnapshot) /\ \A d, t : RowAt(d, t)' = RowAt(d, t)
<1>1. Period' = Period
  BY DEF Period, Has
<1>2. Wanted' = Wanted
  BY DEF Wanted
<1>3. Small' <=> Small
  BY <1>1 DEF Small
<1>4. Recent' = Recent
  BY <1>1, <1>2 DEF Recent, LastRows
<1>5. IsSnapshot' <=> IsSnapshot
  BY <1>2 DEF IsSnapshot
<1>6. \A d, t : RowAt(d, t)' = RowAt(d, t)
  BY DEF RowAt
<1> QED BY <1>1, <1>3, <1>4, <1>5, <1>6

LEMMA SameBounds ==
  ASSUME UNCHANGED catalogue, task'.family = task.family, task'.from = task.from, task'.to = task.to,
         task'.req = task.req
  PROVE  Fixed' <=> Fixed
BY DEF Fixed, EndOf, StartOf

-----------------------------------------------------------------------------
(* The loader beside a task, and a new task.                               *)

LEMMA LoadKeeps ==
  ASSUME RetInv, UNCHANGED catalogue,
         Do([calm |-> FALSE, steady |-> task.steady /\ task.at \notin {"exact", "previous"}]),
         Tables', registered <= registered'
  PROVE  RetInv'
<1>1. TaskShape /\ Tables
  BY DEF RetInv
<1>2. /\ DOMAIN task' = TaskFields /\ task'.calm = FALSE
      /\ task'.steady = (task.steady /\ task.at \notin {"exact", "previous"})
      /\ task'.at = task.at /\ task'.req = task.req /\ task'.answer = task.answer /\ task'.family = task.family
      /\ task'.asked = task.asked /\ task'.left = task.left /\ task'.from = task.from /\ task'.to = task.to
      /\ task'.cursor = task.cursor /\ task'.got = task.got /\ task'.rows = task.rows /\ task'.day = task.day
      /\ task'.id = task.id /\ task'.outcome = task.outcome /\ task'.blind = task.blind /\ task'.whole = task.whole
  BY <1>1 DEF Do, TaskShape, TaskFields
<1>3. TaskShape'
  BY <1>1, <1>2 DEF TaskShape, ReqOK
<1>4. Served' = Served /\ (IsSnapshot' <=> IsSnapshot) /\ (Fixed' <=> Fixed)
  BY <1>2, SameBounds DEF Served, IsSnapshot, Wanted
<1>5. FamilyOK'
  BY <1>2, <1>4 DEF RetInv, FamilyOK, Chosen
<1>6. registered \in Int /\ registered' \in Int
  BY <1>1, RetNumbers DEF RetInv, Tables
<1>7. DayOK' /\ DayIs' /\ LookOK'
  <2>1. \A v \in 1..registered : v \in 1..registered'
    BY <1>6
  <2>2. DayIs' /\ LookOK'
    BY <1>2, <1>4 DEF RetInv, DayIs, LookOK
  <2>3. DayOK'
    BY <1>2, <1>4, <2>1 DEF RetInv, DayOK, DayIsFound
  <2> QED BY <2>2, <2>3
<1>8. IdOK'
  <2>1. \A r \in Row : r.vintage <= registered => r.vintage <= registered'
    BY <1>6, RetNumbers DEF Row
  <2> QED BY <1>1, <1>2, <2>1 DEF RetInv, IdOK, TaskShape
<1>9. Bounded'
  BY <1>2, <1>4 DEF RetInv, Bounded, InHistory, AfterRows
<1>10. PagesOK' /\ TenorOK' /\ RowsOK' /\ WindowOK'
  BY <1>2 DEF PagesOK, TenorOK, RowsOK, WindowOK, Good
<1> QED BY <1>3, <1>5, <1>7, <1>8, <1>9, <1>10 DEF RetInv

LEMMA LoaderStep ==
  ASSUME RetInv, Register \/ Truncate_ \/ LoadFails \/ (\E f \in Kinds : Rewrite(f))
  PROVE  RetInv'
<1>1. Tables
  BY DEF RetInv
<1>2. /\ registered \in 1..Vintages /\ registered \in Int /\ Vintages \in Nat
  BY <1>1, RetNumbers DEF Tables
<1>3. /\ UNCHANGED catalogue
      /\ Do([calm |-> FALSE, steady |-> task.steady /\ task.at \notin {"exact", "previous"}])
  BY DEF Register, Truncate_, LoadFails, Rewrite, LoadStep
<1>4. Tables' /\ registered <= registered'
  <2>1. CASE Register
    <3>1. UNCHANGED <<core, catalogue>> /\ registered' = registered + 1 /\ registered < Vintages /\ loading' = Kinds
      BY <2>1 DEF Register, LoadStep
    <3>2. registered' \in 1..Vintages /\ \A v \in 1..registered : v \in 1..registered'
      BY <1>2, <3>1
    <3> QED BY <1>1, <1>2, <3>1, <3>2 DEF Tables
  <2>2. CASE Truncate_
    <3>1. core' = [f \in Kinds |-> Empty] /\ UNCHANGED <<registered, loading, catalogue>>
      BY <2>2 DEF Truncate_, LoadStep, Empty
    <3>2. Empty \in [Days -> 0..Vintages]
      BY <1>2 DEF Empty
    <3> QED BY <1>1, <1>2, <3>1, <3>2 DEF Tables
  <2>3. CASE LoadFails
    <3>1. UNCHANGED <<core, registered, catalogue>> /\ loading' = {}
      BY <2>3 DEF LoadFails, LoadStep
    <3> QED BY <1>1, <1>2, <3>1 DEF Tables
  <2>4. ASSUME NEW f \in Kinds, Rewrite(f)
        PROVE  Tables' /\ registered <= registered'
    <3>1. /\ core' = [core EXCEPT ![f] = RowsOf(registered)] /\ UNCHANGED <<registered, catalogue>>
          /\ loading' = loading \ {f}
      BY <2>4 DEF Rewrite, LoadStep
    <3>2. RowsOf(registered) \in [Days -> 0..Vintages]
      BY <1>2, VintageFacts
    <3>3. core' \in [Kinds -> [Days -> 0..Vintages]]
      BY <1>1, <3>1, <3>2 DEF Tables
    <3>4. registered \in 1..registered
      BY <1>2
    <3>5. \A g \in Kinds : core'[g] = Empty \/ \E v \in 1..registered : core'[g] = RowsOf(v)
      BY <1>1, <3>1, <3>4 DEF Tables
    <3> QED BY <1>1, <1>2, <3>1, <3>3, <3>5 DEF Tables
  <2> QED BY <2>1, <2>2, <2>3, <2>4
<1> QED BY <1>3, <1>4, LoadKeeps

LEMMA NoTaskFacts ==
  /\ DOMAIN NoTask = TaskFields
  /\ NoTask.at = "idle" /\ ReqOK(NoTask.req) /\ NoTask.answer = "none" /\ NoTask.family = "none"
  /\ NoTask.asked = FALSE /\ NoTask.left = 0 /\ NoTask.from = 0 /\ NoTask.to = 0 /\ NoTask.cursor = 0
  /\ NoTask.got = {} /\ NoTask.rows = {} /\ NoTask.day = 0 /\ NoTask.id = 0 /\ NoTask.outcome = "none"
  /\ NoTask.blind = FALSE /\ NoTask.whole = TRUE /\ NoTask.calm = TRUE /\ NoTask.steady = TRUE
<1>1. NoTask.req = [family |-> "nominal", shared |-> FALSE, tenors |-> 1, rows |-> 0, asof |-> 0, from |-> 0, to |-> 0]
  BY DEF NoTask
<1>2. ReqOK(NoTask.req)
  BY <1>1, RetNumbers DEF ReqOK
<1> QED BY <1>2 DEF NoTask, TaskFields

\* A task that has nothing yet.
LEMMA FreshTask ==
  ASSUME Tables', NEW at \in {"idle", "family"}, NEW req, ReqOK(req), NEW answer \in Kinds \cup {"none"},
         task' = [NoTask EXCEPT !.at = at, !.req = req, !.answer = answer]
  PROVE  RetInv'
<1>1. /\ DOMAIN task' = TaskFields
      /\ task'.at = at /\ task'.req = req /\ task'.answer = answer /\ task'.family = "none"
      /\ task'.asked = FALSE /\ task'.left = 0 /\ task'.from = 0 /\ task'.to = 0 /\ task'.cursor = 0
      /\ task'.got = {} /\ task'.rows = {} /\ task'.day = 0 /\ task'.id = 0 /\ task'.outcome = "none"
      /\ task'.blind = FALSE /\ task'.whole = TRUE /\ task'.calm = TRUE /\ task'.steady = TRUE
  BY NoTaskFacts DEF TaskFields
<1>2. TaskShape'
  <2>1. 0 \in 0..LastDay /\ 0 \in 0..Vintages /\ 0 \in 0..2 /\ 0 \in Nat /\ at \in Steps
    BY RetNumbers DEF Steps
  <2> QED BY <1>1, <2>1 DEF TaskShape, ReqOK
<1>3. FamilyOK' /\ DayOK' /\ DayIs' /\ LookOK' /\ IdOK' /\ Bounded'
  BY <1>1 DEF FamilyOK, DayOK, DayIsFound, DayIs, LookOK, IdOK, Bounded, Served, InHistory, AfterRows
<1>4. PagesOK' /\ TenorOK' /\ RowsOK' /\ WindowOK'
  BY <1>1 DEF PagesOK, TenorOK, RowsOK, WindowOK, Served, InHistory, AfterRows
<1> QED BY <1>2, <1>3, <1>4 DEF RetInv

LEMMA BeginTask ==
  ASSUME RetInv, NEW req \in Requirements, NEW answer \in Kinds \cup {"none"}, Begin_(req, answer),
         UNCHANGED <<core, registered, loading>>
  PROVE  RetInv'
<1>1. ReqOK(req)
  <2>1. /\ req.tenors \in 1..2 /\ req.rows \in {0, 1, 3} /\ req.asof \in {0} \cup Days /\ req.from \in {0, 2}
        /\ req.to \in {0, LastDay}
    <3>1. CASE req \in [family : {"ambiguous"}, shared : BOOLEAN, tenors : {1}, rows : {1, 3}, asof : {0},
                         from : {0}, to : {0}]
      BY <3>1
    <3>2. CASE req \in [family : Kinds, shared : {TRUE}, tenors : {1, 2}, rows : {0, 1, 3}, asof : {0},
                         from : {0, 2}, to : {0, LastDay}]
      BY <3>2
    <3>3. CASE req \in [family : Kinds, shared : {TRUE}, tenors : {1}, rows : {1, 3}, asof : Days,
                         from : {0}, to : {0}]
      BY <3>3
    <3> QED BY <3>1, <3>2, <3>3 DEF Requirements
  <2> QED BY <2>1, RetNumbers DEF ReqOK, Days
<1>2. Tables'
  BY DEF RetInv, Tables, Begin_
<1>3. task' = [NoTask EXCEPT !.at = "family", !.req = req, !.answer = answer]
  BY DEF Begin_
<1> QED BY <1>1, <1>2, <1>3, FreshTask

-----------------------------------------------------------------------------
(* The choice of a curve.                                                  *)

LEMMA SameTables ==
  ASSUME Tables, UNCHANGED <<core, registered, loading, catalogue>>
  PROVE  Tables'
BY DEF Tables

LEMMA ToTable ==
  ASSUME RetInv, UNCHANGED <<core, registered, loading, catalogue>>, task.at = "family",
         DOMAIN task' = TaskFields,
         task'.at = "table", task'.family \in Kinds, task'.asked \in BOOLEAN, task'.blind \in BOOLEAN, Chosen',
         task'.req = task.req, task'.answer = task.answer, task'.left = task.left, task'.from = task.from,
         task'.to = task.to, task'.cursor = task.cursor, task'.got = task.got, task'.rows = task.rows,
         task'.day = task.day, task'.id = task.id, task'.outcome = task.outcome, task'.whole = task.whole,
         task'.calm = task.calm, task'.steady = task.steady
  PROVE  RetInv'
<1>1. TaskShape' /\ Tables'
  BY SameTables DEF RetInv, TaskShape, ReqOK, Steps
<1>2. FamilyOK' /\ DayOK' /\ DayIs' /\ LookOK' /\ IdOK'
  BY DEF RetInv, FamilyOK, DayOK, DayIsFound, DayIs, LookOK, IdOK, Served
<1>3. Bounded'
  BY DEF RetInv, Bounded, InHistory, AfterRows, Served
<1>4. PagesOK' /\ TenorOK' /\ RowsOK' /\ WindowOK'
  BY DEF PagesOK, TenorOK, RowsOK, WindowOK, InHistory, AfterRows, Served
<1> QED BY <1>1, <1>2, <1>3, <1>4 DEF RetInv

LEMMA FamilySteps ==
  ASSUME RetInv, UNCHANGED <<core, registered, loading>>,
         \/ StatedFamily \/ NothingShared \/ SearchAnswered \/ SearchAsks \/ SearchFails
         \/ CatalogueFails /\ task.at = "family"
  PROVE  RetInv'
<1>1. DOMAIN task = TaskFields /\ task.asked \in BOOLEAN /\ task.blind \in BOOLEAN
      /\ task.answer \in Kinds \cup {"none"} /\ "nominal" \in Kinds
  BY DEF RetInv, TaskShape, Kinds
<1>2. task.at = "family" /\ UNCHANGED catalogue
  BY DEF StatedFamily, NothingShared, SearchAnswered, SearchAsks, SearchFails, CatalogueFails, Ambiguous
<1>3. ASSUME NEW k \in Kinds, Using(k),
             k = task.req.family \/ (task.req.family = "ambiguous" /\ (k = task.answer \/ ~task.req.shared))
      PROVE  RetInv'
  <2>1. /\ DOMAIN task' = TaskFields
        /\ task'.at = "table" /\ task'.family = k /\ task'.asked = task.asked /\ task'.blind = task.blind
        /\ task'.req = task.req /\ task'.answer = task.answer /\ task'.left = task.left /\ task'.from = task.from
        /\ task'.to = task.to /\ task'.cursor = task.cursor /\ task'.got = task.got /\ task'.rows = task.rows
        /\ task'.day = task.day /\ task'.id = task.id /\ task'.outcome = task.outcome /\ task'.whole = task.whole
        /\ task'.calm = task.calm /\ task'.steady = task.steady
    BY <1>1, <1>3 DEF Using, Do, TaskFields
  <2>2. Chosen'
    BY <1>3, <2>1 DEF Chosen
  <2> QED BY <1>1, <1>2, <2>1, <2>2, ToTable
<1>4. CASE StatedFamily
  BY <1>3, <1>4 DEF StatedFamily
<1>5. CASE NothingShared
  <2>1. Using("nominal") /\ task.req.family = "ambiguous" /\ ~task.req.shared
    BY <1>5 DEF NothingShared, Ambiguous
  <2> QED BY <1>1, <1>3, <2>1
<1>6. CASE SearchAnswered
  <2>1. Using(task.answer) /\ task.req.family = "ambiguous" /\ task.answer \in Kinds
    BY <1>1, <1>6 DEF SearchAnswered, Ambiguous
  <2> QED BY <1>3, <2>1
<1>7. CASE SearchAsks
  <2>1. /\ DOMAIN task' = TaskFields
        /\ task'.at = "table" /\ task'.family = "nominal" /\ task'.asked = TRUE /\ task'.blind = task.blind
        /\ task'.req = task.req /\ task'.answer = task.answer /\ task'.left = task.left /\ task'.from = task.from
        /\ task'.to = task.to /\ task'.cursor = task.cursor /\ task'.got = task.got /\ task'.rows = task.rows
        /\ task'.day = task.day /\ task'.id = task.id /\ task'.outcome = task.outcome /\ task'.whole = task.whole
        /\ task'.calm = task.calm /\ task'.steady = task.steady
    BY <1>1, <1>7 DEF SearchAsks, Do, TaskFields
  <2>2. Chosen' /\ task'.asked \in BOOLEAN
    BY <1>1, <2>1 DEF Chosen
  <2> QED BY <1>1, <1>2, <2>1, <2>2, ToTable
<1>8. CASE SearchFails \/ (CatalogueFails /\ task.at = "family")
  <2>1. Do([at |-> "table", family |-> "nominal", blind |-> TRUE])
    BY <1>8 DEF SearchFails, CatalogueFails
  <2>2. /\ DOMAIN task' = TaskFields
        /\ task'.at = "table" /\ task'.family = "nominal" /\ task'.asked = task.asked /\ task'.blind = TRUE
        /\ task'.req = task.req /\ task'.answer = task.answer /\ task'.left = task.left /\ task'.from = task.from
        /\ task'.to = task.to /\ task'.cursor = task.cursor /\ task'.got = task.got /\ task'.rows = task.rows
        /\ task'.day = task.day /\ task'.id = task.id /\ task'.outcome = task.outcome /\ task'.whole = task.whole
        /\ task'.calm = task.calm /\ task'.steady = task.steady
    BY <1>1, <2>1 DEF Do, TaskFields
  <2>3. Chosen' /\ task'.blind \in BOOLEAN
    BY <1>1, <2>2 DEF Chosen
  <2> QED BY <1>1, <1>2, <2>2, <2>3, ToTable
<1> QED BY <1>4, <1>5, <1>6, <1>7, <1>8

LEMMA ReadCatalogueStep ==
  ASSUME RetInv, ReadCatalogue, UNCHANGED <<core, registered, loading>>
  PROVE  RetInv'
<1>1. /\ UNCHANGED task /\ ~catalogue.there /\ task.at \in {"family", "tenor"}
      /\ catalogue' = [there |-> TRUE, last |-> [f \in Kinds |-> Latest(f)]]
  BY DEF ReadCatalogue, NeedsCatalogue
<1>2. ASSUME NEW f \in Kinds
      PROVE  Latest(f) \in 0..LastDay
  BY DayBounds, RetNumbers DEF Latest, Has, Days
<1>3. Tables'
  BY <1>1, <1>2 DEF RetInv, Tables
<1>4. /\ Period' = Period /\ (Small' <=> Small) /\ (IsSnapshot' <=> IsSnapshot)
      /\ \A d, t : RowAt(d, t)' = RowAt(d, t)
  BY <1>1, SamePeriod
<1>5. TaskShape' /\ FamilyOK' /\ DayOK' /\ DayIs' /\ LookOK' /\ IdOK'
  BY <1>1 DEF RetInv, TaskShape, FamilyOK, Chosen, DayOK, DayIsFound, DayIs, LookOK, IdOK, Served
<1>6. Bounded'
  BY <1>1, <1>4 DEF RetInv, Bounded, Fixed, InHistory, AfterRows, Served
<1>7. RowsOK' /\ PagesOK' /\ TenorOK' /\ WindowOK'
  BY <1>1, <1>4 DEF RetInv, RowsOK, PagesOK, TenorOK, WindowOK, Good, InHistory, AfterRows, Served
<1> QED BY <1>3, <1>5, <1>6, <1>7 DEF RetInv

\* A task that ends without a table.
LEMMA EndsUnserved ==
  ASSUME RetInv, UNCHANGED <<core, registered, loading, catalogue>>, task.at # "done",
         DOMAIN task' = TaskFields,
         task'.at = "done", task'.outcome \in {"raised", "refused"}, task'.rows \in SUBSET task.rows,
         task'.req = task.req, task'.answer = task.answer, task'.family = task.family, task'.asked = task.asked,
         task'.left = task.left, task'.from = task.from, task'.to = task.to, task'.cursor = task.cursor,
         task'.got = task.got, task'.day = task.day, task'.id = task.id, task'.blind = task.blind,
         task'.whole = task.whole, task'.calm = task.calm, task'.steady = task.steady
  PROVE  RetInv'
<1>1. TaskShape' /\ Tables'
  BY SameTables DEF RetInv, TaskShape, ReqOK, Steps
<1>2. ~Served'
  BY DEF Served
<1>3. FamilyOK' /\ DayOK' /\ DayIs' /\ LookOK' /\ IdOK'
  BY <1>2 DEF RetInv, FamilyOK, DayOK, DayIsFound, DayIs, LookOK, IdOK
<1>4. Bounded'
  BY <1>2 DEF Bounded, InHistory, AfterRows
<1>5. PagesOK' /\ TenorOK' /\ RowsOK' /\ WindowOK'
  BY <1>2 DEF PagesOK, TenorOK, RowsOK, WindowOK, InHistory, AfterRows
<1> QED BY <1>1, <1>3, <1>4, <1>5 DEF RetInv

LEMMA EndFields ==
  ASSUME DOMAIN task = TaskFields, NEW o, End(o)
  PROVE  /\ DOMAIN task' = TaskFields /\ task'.at = "done" /\ task'.outcome = o /\ task'.rows = task.rows
         /\ task'.req = task.req /\ task'.answer = task.answer /\ task'.family = task.family
         /\ task'.asked = task.asked /\ task'.left = task.left /\ task'.from = task.from /\ task'.to = task.to
         /\ task'.cursor = task.cursor /\ task'.got = task.got /\ task'.day = task.day /\ task'.id = task.id
         /\ task'.blind = task.blind /\ task'.whole = task.whole /\ task'.calm = task.calm /\ task'.steady = task.steady
BY DEF End, Do, TaskFields

LEMMA RaiseSteps ==
  ASSUME RetInv, SearchRaises \/ CurveRaises \/ (CurveFails /\ IsSnapshot), UNCHANGED <<core, registered, loading>>
  PROVE  RetInv'
<1>1. task.at # "done" /\ UNCHANGED catalogue /\ (End("raised") \/ End("refused"))
  BY DEF SearchRaises, CurveRaises, CurveFails, Ambiguous, Raise
<1>2. DOMAIN task = TaskFields /\ \A r \in SUBSET task.rows : r \in SUBSET task.rows
  BY DEF RetInv, TaskShape
<1> QED BY <1>1, <1>2, EndFields, EndsUnserved

-----------------------------------------------------------------------------
(* The curve of a day.                                                     *)

\* When the rows of a history are together, nothing more is done to them.
LEMMA AfterKeeps ==
  ASSUME RetInv, UNCHANGED <<core, registered, loading, catalogue>>, task.at \in {"date", "exact", "previous", "rows", "id"},
         task'.at \in {"exact", "previous", "rows", "id", "done"},
         task'.family = task.family, task'.from = task.from, task'.to = task.to, task'.req = task.req,
         task'.whole = task.whole, task'.calm = task.calm, IsSnapshot \/ task'.rows = task.rows
  PROVE  Bounded' /\ PagesOK' /\ TenorOK' /\ RowsOK' /\ WindowOK'
<1>1. /\ (Small' <=> Small) /\ Recent' = Recent /\ (IsSnapshot' <=> IsSnapshot) /\ \A d, t : RowAt(d, t)' = RowAt(d, t)
  BY SamePeriod
<1>2. Fixed' <=> Fixed
  BY SameBounds
<1>3. AfterRows
  BY DEF AfterRows
<1>4. Bounded'
  BY <1>1, <1>2, <1>3 DEF RetInv, Bounded, InHistory
<1>5. PagesOK' /\ TenorOK' /\ RowsOK'
  BY DEF PagesOK, TenorOK, RowsOK, InHistory
<1>6. WindowOK'
  BY <1>1, <1>3 DEF RetInv, WindowOK, Good
<1> QED BY <1>4, <1>5, <1>6

LEMMA BoundsStep ==
  ASSUME RetInv, CurveBounds, UNCHANGED <<core, registered, loading>>
  PROVE  RetInv'
<1>1. TaskShape /\ Tables
  BY DEF RetInv
<1>2. /\ task.at = "date" /\ UNCHANGED catalogue
      /\ task.req.asof # 0 => Has(task.family) = {} \/ Within(task.req.asof)
  BY DEF CurveBounds
<1>3. /\ DOMAIN task' = TaskFields /\ task'.at = "exact" /\ task'.steady = TRUE /\ task'.day = task.day
      /\ task'.req = task.req /\ task'.answer = task.answer /\ task'.family = task.family /\ task'.asked = task.asked
      /\ task'.left = task.left /\ task'.from = task.from /\ task'.to = task.to /\ task'.cursor = task.cursor
      /\ task'.got = task.got /\ task'.rows = task.rows /\ task'.id = task.id /\ task'.outcome = task.outcome
      /\ task'.blind = task.blind /\ task'.whole = task.whole /\ task'.calm = task.calm
  BY <1>1 DEF CurveBounds, TaskShape, Do, TaskFields
<1>4. TaskShape' /\ Tables'
  BY <1>1, <1>2, <1>3, SameTables DEF TaskShape, ReqOK, Steps
<1>5. FamilyOK' /\ IdOK'
  BY <1>2, <1>3 DEF RetInv, FamilyOK, Chosen, IdOK, Served
<1>6. DayOK' /\ DayIs'
  BY <1>3 DEF DayOK, DayIs, Served
<1>7. LookOK'
  BY <1>2, <1>3 DEF LookOK, Has, Within
<1>8. Bounded' /\ PagesOK' /\ TenorOK' /\ RowsOK' /\ WindowOK'
  BY <1>2, <1>3, AfterKeeps
<1> QED BY <1>4, <1>5, <1>6, <1>7, <1>8 DEF RetInv

\* A look-up has found its day.
LEMMA DayFound ==
  ASSUME RetInv, UNCHANGED <<core, registered, loading, catalogue>>, task.at \in {"exact", "previous"},
         NEW day \in Days, Do([at |-> "rows", day |-> day]), NEW v \in 1..registered,
         task.req.asof # 0 => DayIsFound(v, task.req.asof, day)
  PROVE  RetInv'
<1>1. TaskShape /\ Tables
  BY DEF RetInv
<1>2. /\ DOMAIN task' = TaskFields /\ task'.at = "rows" /\ task'.day = day
      /\ task'.req = task.req /\ task'.answer = task.answer /\ task'.family = task.family /\ task'.asked = task.asked
      /\ task'.left = task.left /\ task'.from = task.from /\ task'.to = task.to /\ task'.cursor = task.cursor
      /\ task'.got = task.got /\ task'.rows = task.rows /\ task'.id = task.id /\ task'.outcome = task.outcome
      /\ task'.blind = task.blind /\ task'.whole = task.whole /\ task'.calm = task.calm /\ task'.steady = task.steady
  BY <1>1 DEF TaskShape, Do, TaskFields
<1>3. TaskShape' /\ Tables'
  BY <1>1, <1>2, SameTables, RetNumbers DEF TaskShape, ReqOK, Steps, Days
<1>4. FamilyOK' /\ IdOK'
  BY <1>2 DEF RetInv, FamilyOK, Chosen, IdOK, Served
<1>5. DayOK'
  <2>1. ASSUME NEW asof \in Days, NEW d \in Days, task.req.asof = asof, day = d
        PROVE  DayIsFound(v, asof, d)
    BY <2>1, RetNumbers DEF Days
  <2>2. DayOK' <=> \A asof, d \in Days : task.req.asof = asof /\ day = d =>
                      \E u \in 1..registered : DayIsFound(u, asof, d)
    BY <1>2 DEF DayOK, DayIsFound
  <2> QED BY <2>1, <2>2
<1>6. DayIs' /\ LookOK'
  BY <1>2 DEF DayIs, LookOK
<1>7. Bounded' /\ PagesOK' /\ TenorOK' /\ RowsOK' /\ WindowOK'
  BY <1>2, AfterKeeps
<1> QED BY <1>3, <1>4, <1>5, <1>6, <1>7 DEF RetInv

LEMMA ExactStep ==
  ASSUME RetInv, CurveExact, UNCHANGED <<core, registered, loading>>
  PROVE  RetInv'
<1>1. TaskShape /\ Tables /\ task.family \in Kinds
  BY DEF RetInv, FamilyOK, Chosen, CurveExact
<1>2. task.at = "exact" /\ UNCHANGED catalogue /\ (task.req.asof = 0 => Has(task.family) # {})
  BY DEF CurveExact
<1>3. CASE task.req.asof = 0
  <2>1. PICK v \in 1..registered : v \in 1..Vintages /\ Has(task.family) = Published(v)
    BY <1>1, <1>2, <1>3, HasFacts
  <2>2. Latest(task.family) \in Days
    BY <1>2, <1>3, DayBounds DEF Latest, Has
  <2>3. Do([at |-> "rows", day |-> Latest(task.family)])
    BY <1>3 DEF CurveExact
  <2> QED BY <1>2, <1>3, <2>1, <2>2, <2>3, DayFound
<1>4. CASE task.req.asof # 0 /\ task.req.asof \in Has(task.family)
  <2> DEFINE asof == task.req.asof
  <2>1. PICK v \in 1..registered : v \in 1..Vintages /\ Has(task.family) = Published(v)
    BY <1>1, <1>4, HasFacts
  <2>2. asof \in Published(v) /\ asof \in Days /\ Published(v) \in SUBSET Days
    BY <1>4, <2>1 DEF Has
  <2>3. Do([at |-> "rows", day |-> asof])
    BY <1>4 DEF CurveExact
  <2> HIDE DEF asof
  <2>4. /\ Min(Published(v)) \in Published(v) /\ Min(Published(v)) <= asof
        /\ Max(Published(v)) \in Published(v) /\ asof <= Max(Published(v))
    BY <2>2, DayBounds
  <2>5. \A d \in Published(v) : d \in Nat
    BY <2>2, RetNumbers DEF Days
  <2>6. asof = Max({d \in Published(v) : d <= asof})
    <3> DEFINE S == {d \in Published(v) : d <= asof}
    <3>1. S \in SUBSET Days /\ asof \in S
      BY <2>2, <2>5
    <3>2. Max(S) \in S /\ asof <= Max(S)
      BY <3>1, DayBounds
    <3>3. Max(S) <= asof /\ Max(S) \in Nat
      BY <2>5, <3>2
    <3> HIDE DEF S
    <3>4. asof = Max(S)
      BY <2>2, <2>5, <3>2, <3>3
    <3> QED BY <3>4 DEF S
  <2>7. asof \in Min(Published(v))..Max(Published(v))
    <3>1. PICK lo, hi : lo = Min(Published(v)) /\ hi = Max(Published(v))
      OBVIOUS
    <3>2. lo \in Nat /\ hi \in Nat /\ asof \in Nat /\ lo <= asof /\ asof <= hi
      BY <2>2, <2>4, <2>5, <3>1
    <3>3. asof \in lo..hi
      BY ONLY <3>2
    <3> QED BY <3>1, <3>3
  <2>8. DayIsFound(v, asof, asof)
    <3>1. RightDay(v, asof, asof)
      BY ONLY <2>6, <2>7 DEF RightDay
    <3>2. asof <= asof
      BY ONLY <2>2, <2>5
    <3> QED BY ONLY <2>2, <3>1, <3>2 DEF DayIsFound
  <2> QED BY <1>2, <2>2, <2>3, <2>8, DayFound DEF asof
<1>5. CASE task.req.asof # 0 /\ task.req.asof \notin Has(task.family)
  <2>1. /\ DOMAIN task' = TaskFields /\ task'.at = "previous" /\ task'.day = task.day
        /\ task'.req = task.req /\ task'.answer = task.answer /\ task'.family = task.family
        /\ task'.asked = task.asked /\ task'.left = task.left /\ task'.from = task.from /\ task'.to = task.to
        /\ task'.cursor = task.cursor /\ task'.got = task.got /\ task'.rows = task.rows /\ task'.id = task.id
        /\ task'.outcome = task.outcome /\ task'.blind = task.blind /\ task'.whole = task.whole
        /\ task'.calm = task.calm /\ task'.steady = task.steady
    BY <1>1, <1>5 DEF CurveExact, TaskShape, Do, TaskFields
  <2>2. TaskShape' /\ Tables'
    BY <1>1, <1>2, <2>1, SameTables DEF TaskShape, ReqOK, Steps
  <2>3. FamilyOK' /\ IdOK' /\ DayOK' /\ DayIs'
    BY <1>2, <2>1 DEF RetInv, FamilyOK, Chosen, IdOK, Served, DayOK, DayIs
  <2>4. task.steady => Has(task.family) = {} \/ Within(task.req.asof)
    BY <1>2, <1>5 DEF RetInv, LookOK
  <2>5. LookOK'
    BY <1>2, <1>5, <2>1, <2>4 DEF LookOK, Has, Within
  <2>6. Bounded' /\ PagesOK' /\ TenorOK' /\ RowsOK' /\ WindowOK'
    BY <1>2, <2>1, AfterKeeps
  <2> QED BY <2>2, <2>3, <2>5, <2>6 DEF RetInv
<1> QED BY <1>3, <1>4, <1>5

LEMMA PreviousStep ==
  ASSUME RetInv, CurvePrevious, UNCHANGED <<core, registered, loading>>
  PROVE  RetInv'
<1> DEFINE asof == task.req.asof
           F == Has(task.family)
           S == BeforeDay(asof)
<1>1. TaskShape /\ Tables /\ task.family \in Kinds
  BY DEF RetInv, FamilyOK, Chosen, CurvePrevious
<1>2. /\ task.at = "previous" /\ S # {} /\ UNCHANGED catalogue /\ Do([at |-> "rows", day |-> Max(S)])
      /\ asof # 0 /\ S = {d \in F : d < asof} /\ F # {}
  BY DEF CurvePrevious, RetInv, LookOK, BeforeDay
<1>3. task.steady => Within(asof) /\ asof \notin F
  BY <1>2 DEF RetInv, LookOK
<1>4. PICK v \in 1..registered : v \in 1..Vintages /\ F = Published(v)
  BY <1>1, <1>2, HasFacts
<1>5. F \in SUBSET Days /\ S \in SUBSET Days /\ asof \in Nat /\ \A d \in F : d \in Nat
  BY <1>1, <1>2, RetNumbers DEF Has, Days, TaskShape, ReqOK
<1>6. Within(asof) <=> Min(F) <= asof /\ asof <= Max(F)
  BY DEF Within
<1> HIDE DEF asof, F, S
<1>7. Max(S) \in S /\ Max(S) \in Days /\ Max(S) \in Published(v) /\ Max(S) <= asof
  BY <1>2, <1>4, <1>5, DayBounds
<1>8. ASSUME task.steady
      PROVE  RightDay(v, asof, Max(S))
  <2>1. S = {d \in F : d <= asof}
    BY <1>2, <1>3, <1>5, <1>8
  <2>2. Min(F) \in F /\ Max(F) \in F
    BY <1>2, <1>5, DayBounds
  <2>3. asof \in Min(F)..Max(F)
    BY <1>3, <1>5, <1>6, <1>8, <2>2
  <2> QED BY <1>4, <2>1, <2>3 DEF RightDay
<1>9. DayIsFound(v, asof, Max(S))
  BY <1>7, <1>8 DEF DayIsFound
<1> QED BY <1>2, <1>7, <1>9, DayFound DEF asof

LEMMA CurveFailsStep ==
  ASSUME RetInv, CurveFails, ~IsSnapshot, UNCHANGED <<core, registered, loading>>
  PROVE  RetInv'
<1>1. task.at \in {"date", "exact", "previous"} /\ UNCHANGED catalogue /\ End("served") /\ DOMAIN task = TaskFields /\ task.req.asof = 0
  BY DEF RetInv, TaskShape, CurveFails, IsSnapshot
<1>2. /\ DOMAIN task' = TaskFields /\ task'.at = "done" /\ task'.outcome = "served" /\ task'.rows = task.rows
      /\ task'.req = task.req /\ task'.answer = task.answer /\ task'.family = task.family
      /\ task'.asked = task.asked /\ task'.left = task.left /\ task'.from = task.from /\ task'.to = task.to
      /\ task'.cursor = task.cursor /\ task'.got = task.got /\ task'.day = task.day /\ task'.id = task.id
      /\ task'.blind = task.blind /\ task'.whole = task.whole /\ task'.calm = task.calm /\ task'.steady = task.steady
  BY <1>1, EndFields
<1>3. TaskShape' /\ Tables'
  BY <1>1, <1>2, SameTables DEF RetInv, TaskShape, ReqOK, Steps
<1>4. FamilyOK' /\ IdOK'
  BY <1>1, <1>2 DEF RetInv, FamilyOK, Chosen, IdOK
<1>5. DayOK' /\ DayIs' /\ LookOK'
  BY <1>1, <1>2, RetNumbers DEF DayOK, DayIsFound, DayIs, LookOK, Days
<1>6. Bounded' /\ PagesOK' /\ TenorOK' /\ RowsOK' /\ WindowOK'
  BY <1>1, <1>2, AfterKeeps
<1> QED BY <1>3, <1>4, <1>5, <1>6 DEF RetInv

LEMMA CurveRowsStep ==
  ASSUME RetInv, CurveRows, UNCHANGED <<core, registered, loading>>
  PROVE  RetInv'
<1> DEFINE new == IF ~IsSnapshot THEN task.rows
                  ELSE {[day |-> d, tenor |-> 1, vintage |-> core[task.family][d]] :
                          d \in {task.day} \cap Has(task.family)}
<1>1. TaskShape /\ Tables /\ task.family \in Kinds
  BY DEF RetInv, FamilyOK, Chosen, CurveRows
<1>2. task.at = "rows" /\ UNCHANGED catalogue
  BY DEF CurveRows
<1>3. /\ new \in SUBSET Row /\ \A r \in new : r.vintage <= registered
      /\ ~IsSnapshot => new = task.rows
  <2>1. ASSUME NEW d \in Has(task.family)
        PROVE  /\ [day |-> d, tenor |-> 1, vintage |-> core[task.family][d]] \in Row
               /\ core[task.family][d] <= registered
    <3>1. PICK v \in 1..registered : v \in 1..Vintages /\ core[task.family][d] = v
      BY <1>1, HasFacts
    <3> QED BY <3>1, <1>1, RetNumbers DEF Row, Has, Tables
  <2>2. task.rows \in SUBSET Row /\ \A r \in task.rows : r.vintage <= registered
    BY <1>1 DEF RetInv, TaskShape, IdOK
  <2> QED BY <2>1, <2>2
<1> HIDE DEF new
<1>4. /\ DOMAIN task' = TaskFields /\ task'.at = "id" /\ task'.rows = new
      /\ task'.req = task.req /\ task'.answer = task.answer /\ task'.family = task.family /\ task'.asked = task.asked
      /\ task'.left = task.left /\ task'.from = task.from /\ task'.to = task.to /\ task'.cursor = task.cursor
      /\ task'.got = task.got /\ task'.day = task.day /\ task'.id = task.id /\ task'.outcome = task.outcome
      /\ task'.blind = task.blind /\ task'.whole = task.whole /\ task'.calm = task.calm /\ task'.steady = task.steady
  <2>1. Do([at |-> "id", rows |-> new])
    BY DEF CurveRows, new
  <2> QED BY <1>1, <2>1 DEF TaskShape, Do, TaskFields
<1>5. TaskShape' /\ Tables'
  BY <1>1, <1>2, <1>3, <1>4, SameTables DEF TaskShape, ReqOK, Steps
<1>6. FamilyOK' /\ IdOK'
  BY <1>2, <1>3, <1>4 DEF RetInv, FamilyOK, Chosen, IdOK, Served
<1>7. DayOK' /\ DayIs' /\ LookOK'
  BY <1>2, <1>4 DEF RetInv, DayOK, DayIsFound, DayIs, LookOK
<1>8. Bounded' /\ PagesOK' /\ TenorOK' /\ RowsOK' /\ WindowOK'
  BY <1>2, <1>3, <1>4, AfterKeeps
<1> QED BY <1>5, <1>6, <1>7, <1>8 DEF RetInv

LEMMA CurveIdStep ==
  ASSUME RetInv, CurveId, UNCHANGED <<core, registered, loading>>
  PROVE  RetInv'
<1>1. TaskShape /\ Tables
  BY DEF RetInv
<1>2. task.at = "id" /\ UNCHANGED catalogue
  BY DEF CurveId
<1>3. /\ DOMAIN task' = TaskFields /\ task'.at = "done" /\ task'.outcome = "served" /\ task'.id = registered
      /\ task'.req = task.req /\ task'.answer = task.answer /\ task'.family = task.family /\ task'.asked = task.asked
      /\ task'.left = task.left /\ task'.from = task.from /\ task'.to = task.to /\ task'.cursor = task.cursor
      /\ task'.got = task.got /\ task'.rows = task.rows /\ task'.day = task.day
      /\ task'.blind = task.blind /\ task'.whole = task.whole /\ task'.calm = task.calm /\ task'.steady = task.steady
  BY <1>1 DEF CurveId, TaskShape, Do, TaskFields
<1>4. TaskShape' /\ Tables'
  BY <1>1, <1>2, <1>3, SameTables, RetNumbers DEF TaskShape, ReqOK, Steps, Tables
<1>5. FamilyOK' /\ IdOK'
  BY <1>2, <1>3 DEF RetInv, FamilyOK, Chosen, IdOK
<1>6. DayOK' /\ DayIs' /\ LookOK'
  BY <1>2, <1>3 DEF RetInv, DayOK, DayIsFound, DayIs, LookOK
<1>7. Bounded' /\ PagesOK' /\ TenorOK' /\ RowsOK' /\ WindowOK'
  BY <1>2, <1>3, AfterKeeps
<1> QED BY <1>4, <1>5, <1>6, <1>7 DEF RetInv

LEMMA ChooseStep ==
  ASSUME RetInv, Choose, UNCHANGED <<core, registered, loading>>
  PROVE  RetInv'
<1>1. TaskShape /\ Tables /\ task.at = "table" /\ UNCHANGED catalogue /\ task.rows = {}
  BY DEF RetInv, Choose, Bounded
<1>2. /\ DOMAIN task' = TaskFields
      /\ \/ IsSnapshot /\ task'.at = "date" /\ task'.left = task.left
         \/ ~IsSnapshot /\ task'.at = "tenor" /\ task'.left = task.req.tenors
      /\ task'.req = task.req /\ task'.answer = task.answer /\ task'.family = task.family /\ task'.asked = task.asked
      /\ task'.from = task.from /\ task'.to = task.to /\ task'.cursor = task.cursor
      /\ task'.got = task.got /\ task'.rows = task.rows /\ task'.day = task.day /\ task'.id = task.id
      /\ task'.outcome = task.outcome
      /\ task'.blind = task.blind /\ task'.whole = task.whole /\ task'.calm = task.calm /\ task'.steady = task.steady
  <2>1. CASE IsSnapshot
    <3>1. Do([at |-> "date"])
      BY <2>1 DEF Choose
    <3> QED BY <1>1, <2>1, <3>1 DEF TaskShape, Do, TaskFields
  <2>2. CASE ~IsSnapshot
    <3>1. Do([at |-> "tenor", left |-> task.req.tenors])
      BY <2>2 DEF Choose
    <3> QED BY <1>1, <2>2, <3>1 DEF TaskShape, Do, TaskFields
  <2> QED BY <2>1, <2>2
<1>3. task.req.tenors \in 1..2
  BY <1>1 DEF TaskShape, ReqOK
<1>4. TaskShape' /\ Tables'
  BY <1>1, <1>2, <1>3, SameTables DEF TaskShape, ReqOK, Steps
<1>5. IsSnapshot' <=> IsSnapshot
  BY <1>2 DEF IsSnapshot, Wanted
<1>6. FamilyOK' /\ IdOK' /\ DayOK' /\ DayIs' /\ LookOK'
  BY <1>1, <1>2 DEF RetInv, FamilyOK, Chosen, IdOK, DayOK, DayIsFound, DayIs, LookOK, Served
<1>7. Bounded'
  BY <1>1, <1>2, <1>3, <1>5 DEF Bounded, InHistory, AfterRows, Served
<1>8. PagesOK' /\ TenorOK' /\ WindowOK'
  BY <1>2, <1>5 DEF PagesOK, TenorOK, WindowOK, AfterRows, Served
<1>9. RowsOK'
  <2>1. ASSUME task'.at = "tenor"
        PROVE  (task'.left + 1)..task'.req.tenors = {}
    BY <1>2, <1>3, <2>1
  <2> QED BY <1>1, <1>2, <2>1 DEF RowsOK, InHistory
<1> QED BY <1>4, <1>6, <1>7, <1>8, <1>9 DEF RetInv

-----------------------------------------------------------------------------
(* A history.                                                              *)

\* A tenor that fails brings nothing, and the history is not whole any more.
LEMMA TenorFails ==
  ASSUME RetInv, task.at \in {"tenor", "page"}, Do([at |-> "next", whole |-> FALSE, got |-> {}]),
         UNCHANGED <<core, registered, loading, catalogue>>
  PROVE  RetInv'
<1>1. TaskShape /\ Tables
  BY DEF RetInv
<1>2. /\ DOMAIN task' = TaskFields /\ task'.at = "next" /\ task'.whole = FALSE /\ task'.got = {}
      /\ task'.req = task.req /\ task'.answer = task.answer /\ task'.family = task.family /\ task'.asked = task.asked
      /\ task'.left = task.left /\ task'.from = task.from /\ task'.to = task.to /\ task'.cursor = task.cursor
      /\ task'.rows = task.rows /\ task'.day = task.day /\ task'.id = task.id /\ task'.outcome = task.outcome
      /\ task'.blind = task.blind /\ task'.calm = task.calm /\ task'.steady = task.steady
  BY <1>1 DEF TaskShape, Do, TaskFields
<1>3. TaskShape' /\ Tables'
  BY <1>1, <1>2, SameTables DEF TaskShape, ReqOK, Steps
<1>4. FamilyOK' /\ IdOK' /\ DayOK' /\ DayIs' /\ LookOK'
  BY <1>2 DEF RetInv, FamilyOK, Chosen, IdOK, DayOK, DayIsFound, DayIs, LookOK, Served
<1>5. IsSnapshot' <=> IsSnapshot
  BY <1>2 DEF IsSnapshot, Wanted
<1>6. Bounded'
  BY <1>2, <1>5 DEF RetInv, Bounded, InHistory
<1>7. PagesOK' /\ TenorOK' /\ RowsOK' /\ WindowOK'
  BY <1>2 DEF PagesOK, TenorOK, RowsOK, WindowOK, Good
<1> QED BY <1>3, <1>4, <1>6, <1>7 DEF RetInv

LEMMA TenorStep ==
  ASSUME RetInv, Tenor, UNCHANGED <<core, registered, loading>>
  PROVE  RetInv'
<1> DEFINE from == StartOf(task.family)
           to   == EndOf(task.family)
<1>1. TaskShape /\ Tables /\ task.family \in Kinds /\ task.at = "tenor" /\ catalogue.there /\ UNCHANGED catalogue
  BY DEF RetInv, FamilyOK, Chosen, Tenor
<1>2. CASE ~ (to # 0 /\ from <= to)
  BY <1>1, <1>2, TenorFails DEF Tenor
<1>3. CASE to # 0 /\ from <= to
  <2>1. to \in 0..LastDay /\ from \in Nat
    <3>1. catalogue.last[task.family] \in 0..LastDay
      BY <1>1 DEF Tables
    <3>2. to \in 0..LastDay
      BY <1>1, <3>1 DEF EndOf, TaskShape, ReqOK
    <3>3. to > Lookback => to - Lookback \in Nat
      BY <3>2, RetNumbers
    <3> QED BY <1>1, <3>2, <3>3 DEF StartOf, TaskShape, ReqOK
  <2>2. Do([at |-> "page", from |-> from, to |-> to, cursor |-> 0, got |-> {}])
    BY <1>3 DEF Tenor
  <2> HIDE DEF from, to
  <2>3. /\ DOMAIN task' = TaskFields /\ task'.at = "page" /\ task'.from = from /\ task'.to = to
        /\ task'.cursor = 0 /\ task'.got = {}
        /\ task'.req = task.req /\ task'.answer = task.answer /\ task'.family = task.family
        /\ task'.asked = task.asked /\ task'.left = task.left
        /\ task'.rows = task.rows /\ task'.day = task.day /\ task'.id = task.id /\ task'.outcome = task.outcome
        /\ task'.blind = task.blind /\ task'.whole = task.whole /\ task'.calm = task.calm /\ task'.steady = task.steady
    BY <1>1, <2>2 DEF TaskShape, Do, TaskFields
  <2>4. TaskShape' /\ Tables'
    <3>1. 0 \in 0..LastDay
      BY RetNumbers
    <3> QED BY <1>1, <2>1, <2>3, <3>1, SameTables DEF TaskShape, ReqOK, Steps
  <2>5. FamilyOK' /\ IdOK' /\ DayOK' /\ DayIs' /\ LookOK'
    BY <1>1, <2>3 DEF RetInv, FamilyOK, Chosen, IdOK, DayOK, DayIsFound, DayIs, LookOK, Served
  <2>6. IsSnapshot' <=> IsSnapshot
    BY <2>3 DEF IsSnapshot, Wanted
  <2>7. Fixed'
    BY <1>1, <1>3, <2>3 DEF Fixed, EndOf, StartOf, from, to
  <2>8. Bounded'
    BY <1>1, <2>3, <2>6, <2>7 DEF RetInv, Bounded, InHistory
  <2>9. PagesOK'
    <3>1. {e \in Period' : e <= task'.cursor} = {}
      BY <2>3, RetNumbers DEF Period, Has, Days
    <3> QED BY <2>3, <3>1 DEF PagesOK
  <2>10. TenorOK' /\ WindowOK'
    BY <2>3 DEF TenorOK, WindowOK, AfterRows, Served
  <2>11. RowsOK'
    <3>1. ASSUME task.left = task.req.tenors
          PROVE  RowsOK'
      <4>1. (task'.left + 1)..task'.req.tenors = {}
        BY <1>1, <2>3, <3>1 DEF TaskShape, ReqOK
      <4>2. task'.rows = {}
        BY <1>1, <2>3, <3>1 DEF RetInv, Bounded
      <4> QED BY <4>1, <4>2 DEF RowsOK
    <3>2. ASSUME task.left # task.req.tenors, task.whole
          PROVE  RowsOK'
      <4>1. task.left < task.req.tenors
        BY <1>1, <3>2 DEF RetInv, Bounded, InHistory, TaskShape, ReqOK
      <4>2. task.from = from /\ task.to = to
        BY <1>1, <3>2, <4>1 DEF RetInv, Bounded, Fixed, from, to
      <4>3. /\ Period' = Period /\ (Small' <=> Small) /\ \A d, t : RowAt(d, t)' = RowAt(d, t)
        BY <2>3, <4>2, SamePeriod
      <4> QED BY <1>1, <2>3, <4>3 DEF RetInv, RowsOK, Good, InHistory
    <3>3. ASSUME ~task.whole
          PROVE  RowsOK'
      BY <2>3, <3>3 DEF RowsOK, Good
    <3> QED BY <3>1, <3>2, <3>3
  <2> QED BY <2>4, <2>5, <2>8, <2>9, <2>10, <2>11 DEF RetInv
<1> QED BY <1>2, <1>3

\* The rows of some days and one tenor are as many as the days.
LEMMA RowsOfDays ==
  ASSUME NEW S \in SUBSET Days, NEW t
  PROVE  Cardinality({RowAt(d, t) : d \in S}) = Cardinality(S)
<1> DEFINE f == [d \in S |-> RowAt(d, t)]
           R == {RowAt(d, t) : d \in S}
<1>1. \A d, e \in S : RowAt(d, t) = RowAt(e, t) => d = e
  BY DEF RowAt
<1>2. f \in [S -> R] /\ \A d, e \in S : f[d] = f[e] => d = e
  BY <1>1
<1>3. \A r \in R : \E d \in S : f[d] = r
  OBVIOUS
<1>4. f \in Bijection(S, R)
  BY <1>2, <1>3 DEF Bijection, Injection, Surjection, IsInjective
<1>5. ExistsBijection(S, R)
  BY <1>4 DEF ExistsBijection
<1>6. IsFiniteSet(S)
  BY DaysFinite
<1> QED BY <1>5, <1>6, FS_Bijection

LEMMA PageStep ==
  ASSUME RetInv, Page, UNCHANGED <<core, registered, loading>>
  PROVE  RetInv'
<1> DEFINE left == AfterCursor({d \in Has(task.family) : task.from <= d /\ d <= task.to})
           page == FirstRows(PageRows, left)
           got  == task.got \cup {[day |-> d, tenor |-> task.left, vintage |-> core[task.family][d]] : d \in page}
           more == page # left /\ Cardinality(got) < RowCap
<1>1. TaskShape /\ Tables /\ task.family \in Kinds /\ task.at = "page" /\ UNCHANGED catalogue /\ Fixed /\ ~IsSnapshot
  BY DEF RetInv, FamilyOK, Chosen, Page, Bounded, InHistory
<1>2. left = {d \in Period : task.cursor < d} /\ Period \in SUBSET Days /\ left \in SUBSET Days
  BY <1>1, RetNumbers DEF AfterCursor, Period, Has, TaskShape, Days
<1>3. /\ page \subseteq left /\ (left # {} => page # {})
      /\ \A d \in left, m \in page : d <= m => d \in page
  BY <1>2, FirstRowsFacts, RetNumbers
<1>4. got = task.got \cup {RowAt(d, task.left) : d \in page}
  BY DEF RowAt
<1>5. IF more THEN Do([got |-> got, cursor |-> Max(page)]) ELSE Do([at |-> "next", got |-> got])
  BY DEF Page
<1> HIDE DEF left, page, got
<1>6. got \in SUBSET Row /\ \A r \in got : r.vintage <= registered
  <2>1. ASSUME NEW d \in page
        PROVE  RowAt(d, task.left) \in Row /\ RowAt(d, task.left).vintage <= registered
    <3>1. d \in Has(task.family) /\ d \in Days
      BY <1>2, <1>3 DEF Period
    <3>2. PICK v \in 1..registered : v \in 1..Vintages /\ core[task.family][d] = v
      BY <1>1, <3>1, HasFacts
    <3>3. task.left \in 1..2
      BY <1>1 DEF RetInv, Bounded, InHistory, TaskShape, ReqOK
    <3> QED BY <1>1, <3>1, <3>2, <3>3, RetNumbers DEF Row, RowAt, Tables
  <2>2. task.got \in SUBSET Row /\ \A r \in task.got : r.vintage <= registered
    BY <1>1 DEF RetInv, TaskShape, IdOK
  <2> QED BY <1>4, <2>1, <2>2
<1>7. ASSUME task.calm
      PROVE  got = {RowAt(d, task.left) : d \in {e \in Period : e <= task.cursor} \cup page}
  BY <1>1, <1>4, <1>7 DEF RetInv, PagesOK
<1>8. CASE more
  <2> DEFINE last == Max(page)
  <2>1. last \in page /\ \A d \in page : d <= last
    <3>1. page # {} /\ page \in SUBSET Days
      BY <1>2, <1>3, <1>8
    <3> QED BY <3>1, DayBounds
  <2> HIDE DEF last
  <2>2. /\ DOMAIN task' = TaskFields /\ task'.at = "page" /\ task'.got = got /\ task'.cursor = last
        /\ task'.req = task.req /\ task'.answer = task.answer /\ task'.family = task.family
        /\ task'.asked = task.asked /\ task'.left = task.left /\ task'.from = task.from /\ task'.to = task.to
        /\ task'.rows = task.rows /\ task'.day = task.day /\ task'.id = task.id /\ task'.outcome = task.outcome
        /\ task'.blind = task.blind /\ task'.whole = task.whole /\ task'.calm = task.calm /\ task'.steady = task.steady
    <3>1. Do([got |-> got, cursor |-> last])
      BY <1>5, <1>8 DEF last
    <3> QED BY <1>1, <3>1 DEF TaskShape, Do, TaskFields
  <2>3. last \in Days /\ last \in 0..LastDay /\ task.cursor < last
    BY <1>2, <1>3, <2>1, RetNumbers DEF Days
  <2>4. TaskShape' /\ Tables'
    BY <1>1, <1>6, <2>2, <2>3, SameTables DEF TaskShape, ReqOK, Steps
  <2>5. FamilyOK' /\ IdOK' /\ DayOK' /\ DayIs' /\ LookOK'
    BY <1>1, <1>6, <2>2 DEF RetInv, FamilyOK, Chosen, IdOK, DayOK, DayIsFound, DayIs, LookOK, Served
  <2>6. /\ Period' = Period /\ (Small' <=> Small) /\ (IsSnapshot' <=> IsSnapshot)
        /\ \A d, t : RowAt(d, t)' = RowAt(d, t)
    BY <2>2, SamePeriod
  <2>7. Fixed'
    BY <1>1, <2>2, SameBounds
  <2>8. Bounded'
    BY <1>1, <2>2, <2>6, <2>7 DEF RetInv, Bounded, InHistory
  <2>9. PagesOK'
    <3>1. {e \in Period : e <= task.cursor} \cup page = {e \in Period : e <= last}
      <4>1. \A e \in Period : e \in Nat
        BY <1>2, RetNumbers DEF Days
      <4>2. task.cursor \in Nat /\ last \in Nat
        BY <1>1, <2>3, RetNumbers DEF TaskShape, Days
      <4>3. \A e \in Period : e <= task.cursor => e <= last
        BY <2>3, <4>1, <4>2
      <4>4. \A e \in Period : e <= last => e <= task.cursor \/ e \in left
        BY <1>2, <4>1, <4>2
      <4>5. \A e \in left : e <= last => e \in page
        BY <1>3, <2>1
      <4> QED BY <1>2, <1>3, <2>1, <4>3, <4>4, <4>5
    <3> QED BY <1>7, <2>2, <2>6, <3>1 DEF PagesOK
  <2>10. TenorOK' /\ WindowOK'
    BY <2>2 DEF TenorOK, WindowOK, AfterRows, Served
  <2>11. RowsOK'
    BY <1>1, <2>2, <2>6 DEF RetInv, RowsOK, Good, InHistory
  <2> QED BY <2>4, <2>5, <2>8, <2>9, <2>10, <2>11 DEF RetInv
<1>9. CASE ~more
  <2>1. /\ DOMAIN task' = TaskFields /\ task'.at = "next" /\ task'.got = got
        /\ task'.req = task.req /\ task'.answer = task.answer /\ task'.family = task.family
        /\ task'.asked = task.asked /\ task'.left = task.left /\ task'.from = task.from /\ task'.to = task.to
        /\ task'.cursor = task.cursor
        /\ task'.rows = task.rows /\ task'.day = task.day /\ task'.id = task.id /\ task'.outcome = task.outcome
        /\ task'.blind = task.blind /\ task'.whole = task.whole /\ task'.calm = task.calm /\ task'.steady = task.steady
    <3>1. Do([at |-> "next", got |-> got])
      BY <1>5, <1>9
    <3> QED BY <1>1, <3>1 DEF TaskShape, Do, TaskFields
  <2>2. TaskShape' /\ Tables'
    BY <1>1, <1>6, <2>1, SameTables DEF TaskShape, ReqOK, Steps
  <2>3. FamilyOK' /\ IdOK' /\ DayOK' /\ DayIs' /\ LookOK'
    BY <1>1, <1>6, <2>1 DEF RetInv, FamilyOK, Chosen, IdOK, DayOK, DayIsFound, DayIs, LookOK, Served
  <2>4. /\ Period' = Period /\ (Small' <=> Small) /\ (IsSnapshot' <=> IsSnapshot)
        /\ \A d, t : RowAt(d, t)' = RowAt(d, t)
    BY <2>1, SamePeriod
  <2>5. Fixed'
    BY <1>1, <2>1, SameBounds
  <2>6. Bounded'
    BY <1>1, <2>1, <2>4, <2>5 DEF RetInv, Bounded, InHistory
  <2>7. PagesOK' /\ WindowOK'
    BY <2>1 DEF PagesOK, WindowOK, AfterRows, Served
  <2>8. RowsOK'
    BY <1>1, <2>1, <2>4 DEF RetInv, RowsOK, Good, InHistory
  <2>9. ASSUME task.calm, Small
        PROVE  got = {RowAt(d, task.left) : d \in Period}
    <3> DEFINE G == {e \in Period : e <= task.cursor} \cup page
    <3>1. G \subseteq Period /\ G \in SUBSET Days
      BY <1>2, <1>3
    <3>2. \A e \in Period : e <= task.cursor \/ task.cursor < e
      <4>1. task.cursor \in Nat /\ \A e \in Period : e \in Nat
        BY <1>1, <1>2, RetNumbers DEF Days, TaskShape
      <4> QED BY <4>1
    <3>3. page = left => G = Period
      BY <1>2, <3>1, <3>2
    <3>4. ASSUME ~ (Cardinality(got) < RowCap)
          PROVE  G = Period
      <4>1. Cardinality(got) = Cardinality(G)
        BY <1>7, <2>9, <3>1, RowsOfDays
      <4>2. IsFiniteSet(Period) /\ Cardinality(Period) \in Nat /\ Cardinality(G) \in Nat
        BY <1>2, <3>1, DaysFinite
      <4>3. Cardinality(Period) <= Cardinality(G)
        BY <2>9, <3>4, <4>1, <4>2, RetNumbers DEF Small
      <4>4. G # Period => Cardinality(G) < Cardinality(Period)
        BY <3>1, <4>2, FS_Subset
      <4> QED BY <4>2, <4>3, <4>4
    <3>5. G = Period
      BY <1>9, <3>3, <3>4
    <3> QED BY <1>7, <2>9, <3>5
  <2>10. TenorOK'
    BY <2>1, <2>4, <2>9 DEF TenorOK, Good
  <2> QED BY <2>2, <2>3, <2>6, <2>7, <2>8, <2>10 DEF RetInv
<1> QED BY <1>8, <1>9

LEMMA NextTenorStep ==
  ASSUME RetInv, NextTenor, UNCHANGED <<core, registered, loading>>
  PROVE  RetInv'
<1> DEFINE rows == task.rows \cup task.got
<1>1. /\ TaskShape /\ Tables /\ task.family \in Kinds /\ task.at = "next" /\ UNCHANGED catalogue /\ ~IsSnapshot
      /\ task.left \in 1..task.req.tenors /\ task.req.tenors \in 1..2
  BY DEF RetInv, FamilyOK, Chosen, NextTenor, Bounded, InHistory, TaskShape, ReqOK
<1>2. rows \in SUBSET Row /\ (\A r \in rows : r.vintage <= registered) /\ task.id = 0
  BY <1>1 DEF RetInv, TaskShape, IdOK
<1>3. ASSUME Good
      PROVE  rows = {RowAt(d, t) : d \in Period, t \in task.left..task.req.tenors}
  <2>1. /\ task.got = {RowAt(d, task.left) : d \in Period}
        /\ task.rows = {RowAt(d, t) : d \in Period, t \in (task.left + 1)..task.req.tenors}
    BY <1>1, <1>3 DEF RetInv, TenorOK, RowsOK, InHistory
  <2>2. task.left..task.req.tenors = {task.left} \cup (task.left + 1)..task.req.tenors
    BY <1>1
  <2> HIDE DEF RowAt
  <2> QED BY <2>1, <2>2
<1>4. CASE task.left > 1
  <2>1. Do([at |-> "tenor", left |-> task.left - 1, rows |-> rows])
    BY <1>4 DEF NextTenor
  <2> HIDE DEF rows
  <2>2. /\ DOMAIN task' = TaskFields /\ task'.at = "tenor" /\ task'.left = task.left - 1 /\ task'.rows = rows
        /\ task'.req = task.req /\ task'.answer = task.answer /\ task'.family = task.family /\ task'.asked = task.asked
        /\ task'.from = task.from /\ task'.to = task.to /\ task'.cursor = task.cursor
        /\ task'.got = task.got /\ task'.day = task.day /\ task'.id = task.id /\ task'.outcome = task.outcome
        /\ task'.blind = task.blind /\ task'.whole = task.whole /\ task'.calm = task.calm /\ task'.steady = task.steady
    BY <1>1, <2>1 DEF TaskShape, Do, TaskFields
  <2>3. task'.left \in 1..task.req.tenors /\ task'.left \in 0..2 /\ task'.left + 1 = task.left /\ task'.left # task.req.tenors
    BY <1>1, <1>4, <2>2
  <2>4. TaskShape' /\ Tables'
    BY <1>1, <1>2, <2>2, <2>3, SameTables DEF TaskShape, ReqOK, Steps
  <2>5. FamilyOK' /\ DayOK' /\ DayIs' /\ LookOK'
    BY <1>1, <2>2 DEF RetInv, FamilyOK, Chosen, DayOK, DayIsFound, DayIs, LookOK, Served
  <2>6. IdOK'
    BY <1>1, <1>2, <2>2 DEF RetInv, IdOK
  <2>7. /\ Period' = Period /\ (Small' <=> Small) /\ (IsSnapshot' <=> IsSnapshot)
        /\ \A d, t : RowAt(d, t)' = RowAt(d, t)
    BY <2>2, SamePeriod
  <2>8. task.whole => Fixed'
    BY <1>1, <2>2, SameBounds DEF RetInv, Bounded
  <2>9. Bounded'
    BY <1>1, <2>2, <2>3, <2>7, <2>8 DEF Bounded, InHistory, AfterRows, Served
  <2>10. PagesOK' /\ TenorOK' /\ WindowOK'
    BY <2>2 DEF PagesOK, TenorOK, WindowOK, AfterRows, Served
  <2>11. RowsOK'
    BY <1>3, <2>2, <2>3, <2>7 DEF RowsOK, Good
  <2> QED BY <2>4, <2>5, <2>6, <2>9, <2>10, <2>11 DEF RetInv
<1>5. CASE ~ (task.left > 1) /\ rows = {} /\ (task.req.from # 0 \/ task.req.to # 0)
  <2>1. Do([at |-> "done", outcome |-> "refused", rows |-> {}])
    BY <1>5 DEF NextTenor
  <2>2. /\ DOMAIN task' = TaskFields /\ task'.at = "done" /\ task'.outcome = "refused" /\ task'.rows = {}
        /\ task'.req = task.req /\ task'.answer = task.answer /\ task'.family = task.family /\ task'.asked = task.asked
        /\ task'.left = task.left /\ task'.from = task.from /\ task'.to = task.to /\ task'.cursor = task.cursor
        /\ task'.got = task.got /\ task'.day = task.day /\ task'.id = task.id
        /\ task'.blind = task.blind /\ task'.whole = task.whole /\ task'.calm = task.calm /\ task'.steady = task.steady
    BY <1>1, <2>1 DEF TaskShape, Do, TaskFields
  <2> QED BY <1>1, <2>2, EndsUnserved
<1>6. CASE ~ (task.left > 1) /\ ~ (rows = {} /\ (task.req.from # 0 \/ task.req.to # 0))
  <2> DEFINE kept == Window(rows)
  <2>1. Do([at |-> "date", left |-> 0, rows |-> kept])
    BY <1>6 DEF NextTenor
  <2>2. kept \in SUBSET rows
    BY DEF Window
  <2>3. task.left = 1
    BY <1>1, <1>6
  <2>4. ASSUME Good
        PROVE  kept = {RowAt(d, t) : d \in Recent, t \in 1..task.req.tenors}
    <3>1. rows = {RowAt(d, t) : d \in Period, t \in 1..task.req.tenors} /\ 1 \in 1..task.req.tenors
      BY <1>1, <1>3, <2>3, <2>4
    <3> HIDE DEF rows
    <3>2. \A d, t : RowAt(d, t).day = d
      BY DEF RowAt
    <3>3. {s.day : s \in rows} = Period
      BY <3>1, <3>2
    <3>4. kept = {r \in rows : r.day \in Recent}
      BY <3>3 DEF Window, Recent
    <3>5. Recent \subseteq Period
      BY DEF Recent, LastRows
    <3> HIDE DEF kept
    <3> QED BY <3>1, <3>2, <3>4, <3>5
  <2> HIDE DEF kept, rows
  <2>5. /\ DOMAIN task' = TaskFields /\ task'.at = "date" /\ task'.left = 0 /\ task'.rows = kept
        /\ task'.req = task.req /\ task'.answer = task.answer /\ task'.family = task.family /\ task'.asked = task.asked
        /\ task'.from = task.from /\ task'.to = task.to /\ task'.cursor = task.cursor
        /\ task'.got = task.got /\ task'.day = task.day /\ task'.id = task.id /\ task'.outcome = task.outcome
        /\ task'.blind = task.blind /\ task'.whole = task.whole /\ task'.calm = task.calm /\ task'.steady = task.steady
    BY <1>1, <2>1 DEF TaskShape, Do, TaskFields
  <2>6. TaskShape' /\ Tables'
    BY <1>1, <1>2, <2>2, <2>5, SameTables DEF TaskShape, ReqOK, Steps
  <2>7. FamilyOK' /\ DayOK' /\ DayIs' /\ LookOK'
    BY <1>1, <2>5 DEF RetInv, FamilyOK, Chosen, DayOK, DayIsFound, DayIs, LookOK, Served
  <2>8. IdOK'
    BY <1>1, <1>2, <2>2, <2>5 DEF RetInv, IdOK
  <2>9. /\ (Small' <=> Small) /\ Recent' = Recent /\ (IsSnapshot' <=> IsSnapshot)
        /\ \A d, t : RowAt(d, t)' = RowAt(d, t)
    BY <2>5, SamePeriod
  <2>10. task.whole => Fixed'
    BY <1>1, <2>5, SameBounds DEF RetInv, Bounded
  <2>11. Bounded'
    BY <1>1, <2>5, <2>10 DEF Bounded, InHistory
  <2>12. PagesOK' /\ TenorOK' /\ RowsOK'
    BY <2>5 DEF PagesOK, TenorOK, RowsOK, InHistory
  <2>13. WindowOK'
    BY <2>4, <2>5, <2>9 DEF WindowOK, Good
  <2> QED BY <2>6, <2>7, <2>8, <2>11, <2>12, <2>13 DEF RetInv
<1> QED BY <1>4, <1>5, <1>6

-----------------------------------------------------------------------------
(* The theorem.                                                            *)

LEMMA RetInitInv == RetInit => RetInv
<1> SUFFICES ASSUME RetInit PROVE RetInv
  OBVIOUS
<1>1. task = NoTask
  BY DEF RetInit
<1>2. TaskShape
  <2>1. 0 \in 0..LastDay /\ 0 \in 0..Vintages /\ 0 \in 0..2 /\ 0 \in Nat
    BY RetNumbers
  <2> QED BY <1>1, <2>1, NoTaskFacts DEF TaskShape, Steps
<1>3. Tables
  <2>1. 1 \in 1..Vintages
    BY RetNumbers
  <2>2. RowsOf(1) \in [Days -> 0..Vintages] /\ Published(1) \in SUBSET Days /\ Published(1) # {}
    BY <2>1, VintageFacts
  <2>3. Empty \in [Days -> 0..Vintages]
    BY RetNumbers DEF Empty
  <2>4. core \in [Kinds -> {RowsOf(1), Empty}]
    BY DEF RetInit, Empty
  <2>5. Max(Published(1)) \in Days
    BY <2>2, DayBounds
  <2>6. Max(Published(1)) \in 0..LastDay /\ 0 \in 0..LastDay
    BY <2>5, RetNumbers DEF Days
  <2>7. PICK last \in {0} \cup {Max(Published(1))} :
           catalogue \in [there : BOOLEAN, last : {[f \in Kinds |-> last]}]
    BY DEF RetInit
  <2>8. [f \in Kinds |-> last] \in [Kinds -> 0..LastDay]
    BY <2>6, <2>7
  <2>9. catalogue \in [there : BOOLEAN, last : [Kinds -> 0..LastDay]]
    BY <2>7, <2>8
  <2>10. registered = 1 /\ loading = {}
    BY DEF RetInit
  <2>11. core \in [Kinds -> [Days -> 0..Vintages]] /\ \A f \in Kinds : core[f] = Empty \/ \E v \in 1..registered : core[f] = RowsOf(v)
    BY <2>2, <2>3, <2>4, <2>10
  <2> QED BY <2>1, <2>9, <2>10, <2>11 DEF Tables
<1>4. FamilyOK /\ DayOK /\ DayIs /\ LookOK /\ IdOK /\ Bounded
  BY <1>1, NoTaskFacts DEF FamilyOK, DayOK, DayIsFound, DayIs, LookOK, IdOK, Bounded, Served, InHistory, AfterRows
<1>5. PagesOK /\ TenorOK /\ RowsOK /\ WindowOK
  BY <1>1, NoTaskFacts DEF PagesOK, TenorOK, RowsOK, WindowOK, Served, InHistory, AfterRows
<1> QED BY <1>2, <1>3, <1>4, <1>5 DEF RetInv

LEMMA RetInductive == RetInv /\ [RetNext]_retVars => RetInv'
<1> SUFFICES ASSUME RetInv, [RetNext]_retVars PROVE RetInv'
  OBVIOUS
<1>1. CASE UNCHANGED retVars
  <2>1. UNCHANGED <<core, registered, loading, catalogue, task>>
    BY <1>1 DEF retVars
  <2>2. /\ Period' = Period /\ (Small' <=> Small) /\ Recent' = Recent /\ (IsSnapshot' <=> IsSnapshot)
        /\ \A d, t : RowAt(d, t)' = RowAt(d, t)
    BY <2>1, SamePeriod
  <2>3. (Fixed' <=> Fixed) /\ (Served' <=> Served)
    BY <2>1, SameBounds DEF Served
  <2>4. TaskShape' /\ Tables' /\ FamilyOK' /\ DayOK' /\ DayIs' /\ LookOK' /\ IdOK'
    BY <2>1, <2>3 DEF RetInv, TaskShape, Tables, FamilyOK, Chosen, DayOK, DayIsFound, DayIs, LookOK, IdOK,
                           Has, Within
  <2>5. Bounded' /\ PagesOK' /\ TenorOK' /\ RowsOK' /\ WindowOK'
    BY <2>1, <2>2, <2>3 DEF RetInv, Bounded, PagesOK, TenorOK, RowsOK, WindowOK, Good, InHistory, AfterRows
  <2> QED BY <2>4, <2>5 DEF RetInv
<1>2. ASSUME NEW req \in Requirements, NEW answer \in Kinds \cup {"none"}, Begin_(req, answer),
             UNCHANGED <<core, registered, loading>>
      PROVE  RetInv'
  BY <1>2, BeginTask
<1>3. CASE Register \/ Truncate_ \/ LoadFails \/ \E f \in Kinds : Rewrite(f)
  BY <1>3, LoaderStep
<1>4. ASSUME TaskStep, UNCHANGED <<core, registered, loading>>
      PROVE  RetInv'
  <2>1. CASE StatedFamily \/ NothingShared \/ SearchAnswered \/ SearchAsks \/ SearchFails
    BY <1>4, <2>1, FamilySteps
  <2>2. CASE CatalogueFails
    <3>1. CASE task.at = "family"
      BY <1>4, <2>2, <3>1, FamilySteps
    <3>2. CASE task.at # "family"
      BY <1>4, <2>2, <3>2, TenorFails DEF CatalogueFails, NeedsCatalogue
    <3> QED BY <3>1, <3>2
  <2>3. CASE ReadCatalogue
    BY <1>4, <2>3, ReadCatalogueStep
  <2>4. CASE SearchRaises \/ CurveRaises
    BY <1>4, <2>4, RaiseSteps
  <2>5. CASE CurveFails
    BY <1>4, <2>5, RaiseSteps, CurveFailsStep
  <2>6. CASE Choose
    BY <1>4, <2>6, ChooseStep
  <2>7. CASE CurveBounds \/ CurveExact \/ CurvePrevious
    BY <1>4, <2>7, BoundsStep, ExactStep, PreviousStep
  <2>8. CASE CurveRows
    BY <1>4, <2>8, CurveRowsStep
  <2>9. CASE CurveId
    BY <1>4, <2>9, CurveIdStep
  <2>10. CASE Tenor
    BY <1>4, <2>10, TenorStep
  <2>11. CASE Page
    BY <1>4, <2>11, PageStep
  <2>12. CASE PageFails
    BY <1>4, <2>12, TenorFails DEF PageFails
  <2>13. CASE NextTenor
    BY <1>4, <2>13, NextTenorStep
  <2> QED BY <1>4, <2>1, <2>2, <2>3, <2>4, <2>5, <2>6, <2>7, <2>8, <2>9, <2>10, <2>11, <2>12, <2>13 DEF TaskStep
<1> QED BY <1>1, <1>2, <1>3, <1>4 DEF RetNext

LEMMA RetInvIsEnough == RetInv => TableIsTheUsers
<1> SUFFICES ASSUME RetInv PROVE TableIsTheUsers
  OBVIOUS
<1>1. TaskShape /\ Tables
  BY DEF RetInv
<1>2. RetTypeOK
  <2>1. catalogue.last \in [Kinds -> 0..LastDay]
    BY <1>1 DEF Tables
  <2>2. task.rows \cup task.got \subseteq [day : Days, tenor : 1..2, vintage : 1..Vintages]
    BY <1>1 DEF TaskShape, Row
  <2> QED BY <1>1, <2>1, <2>2 DEF RetTypeOK, TaskShape, Tables
<1>3. CurveIsTheUsers
  BY DEF RetInv, FamilyOK, Chosen, CurveIsTheUsers
<1>4. DayIsRight
  <2> SUFFICES ASSUME Served, task.req.asof # 0
               PROVE  \E v \in 1..registered : DayIsFound(v, task.req.asof, task.day)
    BY DEF DayIsRight, DayIsFound, RightDay
  <2>1. task.day \in Days /\ task.req.asof \in Days
    BY <1>1, RetNumbers DEF RetInv, DayIs, TaskShape, ReqOK, Days
  <2> QED BY <2>1 DEF RetInv, DayOK
<1>5. NeverNewerThanItsId
  BY DEF RetInv, IdOK, NeverNewerThanItsId
<1>6. HistoryIsRecent
  <2> SUFFICES ASSUME Served, ~IsSnapshot, Good
               PROVE  /\ DaysOf(task.rows) = Recent
                      /\ \A d \in DaysOf(task.rows), t \in 1..task.req.tenors :
                            \E r \in task.rows : r.day = d /\ r.tenor = t
                      /\ task.req.to = 0 /\ catalogue.last[task.family] = Latest(task.family) =>
                            Latest(task.family) \in DaysOf(task.rows)
    BY DEF HistoryIsRecent, Good, Small, Recent
  <2>1. task.rows = {RowAt(d, t) : d \in Recent, t \in 1..task.req.tenors} /\ 1 \in 1..task.req.tenors
    BY <1>1 DEF RetInv, WindowOK, AfterRows, TaskShape, ReqOK
  <2>2. \A d, t : RowAt(d, t).day = d /\ RowAt(d, t).tenor = t
    BY DEF RowAt
  <2>3. DaysOf(task.rows) = Recent
    BY <2>1, <2>2 DEF DaysOf
  <2>4. \A d \in DaysOf(task.rows), t \in 1..task.req.tenors : \E r \in task.rows : r.day = d /\ r.tenor = t
    BY <2>1, <2>2, <2>3
  <2>5. ASSUME task.req.to = 0, catalogue.last[task.family] = Latest(task.family)
        PROVE  Latest(task.family) \in Recent
    <3> DEFINE last == Latest(task.family)
    <3>1. task.from <= last /\ last # 0 /\ task.to = last
      BY <2>5 DEF RetInv, Bounded, Fixed, AfterRows, EndOf, Good
    <3>2. Has(task.family) # {} /\ last = Max(Has(task.family)) /\ Has(task.family) \in SUBSET Days
      BY <3>1 DEF Latest, Has
    <3>3. last \in Has(task.family) /\ \A d \in Has(task.family) : d <= last
      BY <3>2, DayBounds
    <3> HIDE DEF last
    <3>4. \A d \in Days : d \in Nat
      BY RetNumbers DEF Days
    <3>5. Period \in SUBSET Days /\ last \in Period
      BY <3>1, <3>2, <3>3, <3>4 DEF Period
    <3>6. Max(Period) \in Period /\ last <= Max(Period)
      BY <3>5, DayBounds
    <3>7. Max(Period) <= last
      BY <3>3, <3>6 DEF Period
    <3>8. Max(Period) = last
      BY <3>4, <3>5, <3>6, <3>7
    <3>9. Wanted \in Nat \ {0}
      BY <1>1, RetNumbers DEF Wanted, TaskShape, ReqOK
    <3>10. last \in Recent
      BY <3>5, <3>8, <3>9, LastRowsFacts DEF Recent
    <3> QED BY <3>10 DEF last
  <2> QED BY <2>3, <2>4, <2>5
<1> QED BY <1>2, <1>3, <1>4, <1>5, <1>6 DEF TableIsTheUsers

\* Whatever is asked, answered, loaded or failing meanwhile, a load between any two queries included,
\* for any days, vintages and limits: the table is of the user's curve, of a day that was published
\* and is no later than the one asked for, and of a load no newer than the one its id names.  It is
\* that very day, or the last one before it, where no load committed inside the look-up of the day;
\* and a history is the most recent one where none committed at all (server.py:300-470,
\* repository.py:120-200).
THEOREM TableCorrect == RetInit /\ [][RetNext]_retVars => []TableIsTheUsers
BY RetInitInv, RetInductive, RetInvIsEnough, PTL

-----------------------------------------------------------------------------
(* McpBridge: the inductive invariant.                                     *)

ThreadFields == {"at", "bridge", "calls", "scope", "opened", "declined", "missed"}
CallFields   == {"by", "bridge", "call", "scope", "round", "declined", "from"}
Hosts        == {"none", "starting", "up", "failed", "down"}
Relay        == [answers : SUBSET Fields, pending : [by : Threads \cup {"none"}, call : Nat]]

ThreadOK(r) ==
    /\ DOMAIN r = ThreadFields
    /\ r.at \in {"new", "starting", "ready", "raised", "calling", "done"}
    /\ r.bridge \in {0} \cup Bridges /\ r.calls \in Nat
    /\ r.opened \in 0..MaxScopes /\ r.scope \in 0..r.opened
    /\ r.declined \in SUBSET Scopes /\ r.missed = FALSE

\* A question that was declined is in the relay of its block of work.
Questions == /\ relays \in [Threads -> [Scopes -> Relay]]
             /\ \A t \in Threads, n \in Scopes : relays[t][n].pending.by \in {t, "none"}
             /\ \A t \in Threads : \A n \in thread[t].declined : relays[t][n].pending # NoQuestion

BridgeShape == /\ host \in [Bridges -> Hosts] /\ instance \in {0} \cup Bridges /\ holder \in Threads \cup {"none"}
               /\ DOMAIN thread = Threads /\ \A t \in Threads : ThreadOK(thread[t])
               /\ Questions

\* A call is of a thread, on the bridge in use; what it was told it was told by its own relay.
InFlight(k) ==
    /\ DOMAIN k = CallFields /\ k.by \in Threads /\ k.bridge \in Bridges /\ k.scope \in 0..MaxScopes
    /\ k.round \in 0..MaxRounds /\ k.call \in Nat \ {0}
    /\ \A a \in k.from : a = <<<<k.by, k.scope>>, Fields>>
Accounted(k) ==
    /\ k.bridge = instance /\ k.call <= thread[k.by].calls
    /\ k.declined /\ k.scope # 0 => relays[k.by][k.scope].pending # NoQuestion
CallsOK == /\ \A k \in inflight : InFlight(k) /\ Accounted(k)
           /\ \A j, k \in inflight : j.by = k.by /\ j.call = k.call => j = k

\* The lock is held by the thread that starts a bridge, and only while there is none in use.
Uses(t) ==
    /\ \/ thread[t].at \in {"ready", "calling", "done"}
       \/ thread[t].at = "raised" /\ thread[t].calls > 0
       => instance # 0 /\ thread[t].bridge = instance
    /\ thread[t].at = "starting" => thread[t].bridge \in Bridges
    /\ thread[t].at = "starting" <=> holder = t
    /\ thread[t].at = "calling" => thread[t].calls > 0
    /\ thread[t].at \in {"new", "starting"} => thread[t].calls = 0
OneInUse == /\ \A t \in Threads : Uses(t)
            /\ holder # "none" => instance = 0
            /\ instance # 0 => host[instance] \in {"up", "down"}

BridgeInv == BridgeShape /\ CallsOK /\ OneInUse

\* The safety half of BridgeHolds.
BridgeSafe == BridgeTypeOK /\ OneBridgeInUse /\ DeclineIsReported /\ QuestionsStayApart

-----------------------------------------------------------------------------
(* Records of threads and calls.                                           *)

LEMMA BridgeNumbers ==
  /\ MaxBridges \in Nat \ {0} /\ MaxWork \in Nat \ {0} /\ MaxScopes \in Nat \ {0} /\ MaxRounds \in Nat \ {0}
  /\ "none" \notin Threads
BY McpBridgeAssumption

LEMMA SetFacts ==
  ASSUME DOMAIN thread = Threads, NEW t \in Threads, NEW c, Set(t, c)
  PROVE  /\ DOMAIN thread' = Threads
         /\ thread'[t] = Updated(thread[t], c)
         /\ \A u \in Threads : u # t => thread'[u] = thread[u]
BY DEF Set

\* A thread moves on while its calls and its blocks of work stay as they are.
LEMMA MovesOn ==
  ASSUME BridgeInv, NEW t \in Threads, UNCHANGED <<relays, inflight>>,
         DOMAIN thread' = Threads, \A u \in Threads : u # t => thread'[u] = thread[u],
         ThreadOK(thread'[t]), thread'[t].calls = thread[t].calls, thread'[t].declined = thread[t].declined,
         host' \in [Bridges -> Hosts], holder' \in Threads \cup {"none"},
         instance' \in {0} \cup Bridges, instance' = instance \/ instance = 0
  PROVE  BridgeShape' /\ CallsOK'
<1>1. \A u \in Threads : /\ ThreadOK(thread'[u]) /\ thread'[u].calls = thread[u].calls
                         /\ thread'[u].declined = thread[u].declined
  BY DEF BridgeInv, BridgeShape
<1>2. Questions'
  BY <1>1 DEF BridgeInv, BridgeShape, Questions
<1>3. BridgeShape'
  BY <1>1, <1>2 DEF BridgeShape
<1>4. ASSUME NEW k \in inflight
      PROVE  InFlight(k) /\ Accounted(k)'
  <2>1. InFlight(k) /\ Accounted(k)
    BY DEF BridgeInv, CallsOK
  <2>2. instance # 0
    BY <2>1, BridgeNumbers DEF InFlight, Accounted, Bridges
  <2> QED BY <1>1, <2>1, <2>2 DEF InFlight, Accounted
<1>5. CallsOK'
  BY <1>4 DEF BridgeInv, CallsOK
<1> QED BY <1>3, <1>5

\* ... and if the bridge in use stays, the others use it as before.
LEMMA OthersUse ==
  ASSUME BridgeInv, NEW t \in Threads, \A u \in Threads : u # t => thread'[u] = thread[u],
         instance' = instance, holder' = holder \/ (holder' = t /\ holder = "none") \/ (holder' = "none" /\ holder = t)
  PROVE  \A u \in Threads : u # t => Uses(u)'
BY BridgeNumbers DEF BridgeInv, OneInUse, Uses

-----------------------------------------------------------------------------
(* The bridge and its start.                                               *)

LEMMA InstanceStep ==
  ASSUME BridgeInv, NEW t \in Threads, Instance(t)
  PROVE  BridgeInv'
<1>1. BridgeShape /\ OneInUse /\ ThreadOK(thread[t]) /\ Uses(t)
  BY DEF BridgeInv, BridgeShape, OneInUse
<1>2. /\ thread[t].at = "new" /\ holder = "none" /\ UNCHANGED <<instance, relays, inflight>> /\ thread[t].calls = 0
  BY <1>1 DEF Instance, Uses
<1>3. CASE instance # 0
  <2>1. Set(t, [at |-> "ready", bridge |-> instance]) /\ UNCHANGED <<host, holder>>
    BY <1>3 DEF Instance
  <2>2. /\ DOMAIN thread' = Threads /\ (\A u \in Threads : u # t => thread'[u] = thread[u])
        /\ thread'[t] = Updated(thread[t], [at |-> "ready", bridge |-> instance])
    BY <1>1, <2>1, SetFacts DEF BridgeShape
  <2>3. /\ DOMAIN thread'[t] = ThreadFields /\ thread'[t].at = "ready" /\ thread'[t].bridge = instance
        /\ thread'[t].calls = thread[t].calls /\ thread'[t].scope = thread[t].scope
        /\ thread'[t].opened = thread[t].opened /\ thread'[t].declined = thread[t].declined
        /\ thread'[t].missed = thread[t].missed
    BY <1>1, <2>2 DEF ThreadOK, Updated, ThreadFields
  <2>4. ThreadOK(thread'[t])
    BY <1>1, <2>3 DEF ThreadOK, BridgeShape
  <2>5. BridgeShape' /\ CallsOK'
    BY <1>1, <1>2, <2>1, <2>2, <2>3, <2>4, MovesOn DEF BridgeShape
  <2>6. Uses(t)'
    BY <1>1, <1>2, <1>3, <2>1, <2>3 DEF Uses
  <2>7. OneInUse'
    BY <1>1, <1>2, <2>1, <2>2, <2>6, OthersUse DEF OneInUse
  <2> QED BY <2>5, <2>7 DEF BridgeInv
<1>4. CASE instance = 0
  <2>1. PICK b \in Bridges : /\ host' = [host EXCEPT ![b] = "starting"] /\ holder' = t
                             /\ Set(t, [at |-> "starting", bridge |-> b])
    BY <1>4 DEF Instance
  <2>2. /\ DOMAIN thread' = Threads /\ (\A u \in Threads : u # t => thread'[u] = thread[u])
        /\ thread'[t] = Updated(thread[t], [at |-> "starting", bridge |-> b])
    BY <1>1, <2>1, SetFacts DEF BridgeShape
  <2>3. /\ DOMAIN thread'[t] = ThreadFields /\ thread'[t].at = "starting" /\ thread'[t].bridge = b
        /\ thread'[t].calls = thread[t].calls /\ thread'[t].scope = thread[t].scope
        /\ thread'[t].opened = thread[t].opened /\ thread'[t].declined = thread[t].declined
        /\ thread'[t].missed = thread[t].missed
    BY <1>1, <2>2 DEF ThreadOK, Updated, ThreadFields
  <2>4. ThreadOK(thread'[t])
    BY <1>1, <2>3 DEF ThreadOK
  <2>5. host' \in [Bridges -> Hosts]
    BY <1>1, <2>1 DEF BridgeShape, Hosts
  <2>6. BridgeShape' /\ CallsOK'
    BY <1>1, <1>2, <2>1, <2>2, <2>3, <2>4, <2>5, MovesOn DEF BridgeShape
  <2>7. Uses(t)'
    BY <1>2, <2>1, <2>3 DEF Uses
  <2>8. OneInUse'
    BY <1>1, <1>2, <1>4, <2>1, <2>2, <2>7, OthersUse DEF OneInUse
  <2> QED BY <2>6, <2>8 DEF BridgeInv
<1> QED BY <1>3, <1>4

\* A host comes up, fails or dies.
LEMMA HostStep ==
  ASSUME BridgeInv, NEW b \in Bridges, ComesUp(b) \/ StartFails(b) \/ Dies(b)
  PROVE  BridgeInv'
<1>1. BridgeShape /\ OneInUse /\ CallsOK
  BY DEF BridgeInv
<1>2. UNCHANGED <<instance, holder, thread, relays>> /\ inflight' \subseteq inflight
  BY DEF ComesUp, StartFails, Dies
<1>3. PICK h \in {"up", "failed", "down"} :
        /\ host' = [host EXCEPT ![b] = h]
        /\ host[b] = "starting" \/ h = "down"
  BY DEF ComesUp, StartFails, Dies
<1>4. host' \in [Bridges -> Hosts]
  BY <1>1, <1>3 DEF BridgeShape, Hosts
<1>5. BridgeShape'
  BY <1>1, <1>2, <1>4 DEF BridgeShape, Questions
<1>6. CallsOK'
  BY <1>1, <1>2 DEF CallsOK, Accounted
<1>7. instance # 0 => host'[instance] \in {"up", "down"}
  BY <1>1, <1>3 DEF OneInUse, BridgeShape
<1>8. OneInUse'
  BY <1>1, <1>2, <1>7 DEF OneInUse, Uses
<1> QED BY <1>5, <1>6, <1>8 DEF BridgeInv

LEMMA StartedStep ==
  ASSUME BridgeInv, NEW t \in Threads, Started(t)
  PROVE  BridgeInv'
<1>1. BridgeShape /\ OneInUse /\ ThreadOK(thread[t]) /\ Uses(t)
  BY DEF BridgeInv, BridgeShape, OneInUse
<1>2. /\ thread[t].at = "starting" /\ host[thread[t].bridge] = "up" /\ instance' = thread[t].bridge
      /\ holder' = "none" /\ Set(t, [at |-> "ready"]) /\ UNCHANGED <<host, relays, inflight>>
  BY DEF Started
<1>3. holder = t /\ instance = 0 /\ thread[t].bridge \in Bridges /\ thread[t].calls = 0
  BY <1>1, <1>2, BridgeNumbers DEF Uses, OneInUse
<1>4. /\ DOMAIN thread' = Threads /\ (\A u \in Threads : u # t => thread'[u] = thread[u])
      /\ thread'[t] = Updated(thread[t], [at |-> "ready"])
  BY <1>1, <1>2, SetFacts DEF BridgeShape
<1>5. /\ DOMAIN thread'[t] = ThreadFields /\ thread'[t].at = "ready" /\ thread'[t].bridge = thread[t].bridge
      /\ thread'[t].calls = thread[t].calls /\ thread'[t].scope = thread[t].scope
      /\ thread'[t].opened = thread[t].opened /\ thread'[t].declined = thread[t].declined
      /\ thread'[t].missed = thread[t].missed
  BY <1>1, <1>4 DEF ThreadOK, Updated, ThreadFields
<1>6. ThreadOK(thread'[t])
  BY <1>1, <1>5 DEF ThreadOK
<1>7. BridgeShape' /\ CallsOK'
  BY <1>1, <1>2, <1>3, <1>4, <1>5, <1>6, MovesOn DEF BridgeShape
<1>8. instance' # 0
  BY <1>2, <1>3, BridgeNumbers DEF Bridges
<1>9. \A u \in Threads : u # t => Uses(u) /\ holder # u
  BY <1>1, <1>3 DEF OneInUse
<1>10. \A u \in Threads : u # t => Uses(u)'
  BY <1>2, <1>3, <1>4, <1>9, BridgeNumbers DEF Uses
<1>11. Uses(t)'
  BY <1>2, <1>3, <1>5, <1>8, BridgeNumbers DEF Uses
<1>12. OneInUse'
  BY <1>2, <1>10, <1>11 DEF OneInUse
<1> QED BY <1>7, <1>12 DEF BridgeInv

\* A thread gives up: on the start, on a call, or on its work.
LEMMA GivesUp ==
  ASSUME BridgeInv, NEW t \in Threads, NEW at \in {"raised", "done", "ready"}, NEW scope \in {0, thread[t].scope},
         Set(t, [at |-> at, scope |-> scope]) \/ (scope = thread[t].scope /\ Set(t, [at |-> at])),
         UNCHANGED <<host, instance, relays, inflight>>,
         holder' = IF thread[t].at = "starting" THEN "none" ELSE holder,
         \/ at = "raised" /\ thread[t].at \in {"starting", "ready", "calling"}
         \/ at = "done" /\ thread[t].at = "ready"
         \/ at = "ready" /\ thread[t].at = "raised" /\ thread[t].calls > 0
  PROVE  BridgeInv'
<1>1. BridgeShape /\ OneInUse /\ ThreadOK(thread[t]) /\ Uses(t)
  BY DEF BridgeInv, BridgeShape, OneInUse
<1>2. /\ DOMAIN thread' = Threads /\ (\A u \in Threads : u # t => thread'[u] = thread[u])
      /\ \/ thread'[t] = Updated(thread[t], [at |-> at, scope |-> scope])
         \/ scope = thread[t].scope /\ thread'[t] = Updated(thread[t], [at |-> at])
  BY <1>1, SetFacts DEF BridgeShape
<1>3. /\ DOMAIN thread'[t] = ThreadFields /\ thread'[t].at = at /\ thread'[t].bridge = thread[t].bridge
      /\ thread'[t].calls = thread[t].calls /\ thread'[t].scope = scope
      /\ thread'[t].opened = thread[t].opened /\ thread'[t].declined = thread[t].declined
      /\ thread'[t].missed = thread[t].missed
  BY <1>1, <1>2 DEF ThreadOK, Updated, ThreadFields
<1>4. scope \in 0..thread[t].opened
  BY <1>1 DEF ThreadOK
<1>5. ThreadOK(thread'[t])
  BY <1>1, <1>3, <1>4 DEF ThreadOK
<1>6. BridgeShape' /\ CallsOK'
  BY <1>1, <1>2, <1>3, <1>5, MovesOn DEF BridgeShape
<1>7. holder' = holder \/ (holder' = "none" /\ holder = t)
  BY <1>1 DEF Uses
<1>8. \A u \in Threads : u # t => Uses(u)'
  BY <1>2, <1>7, OthersUse
<1>9. Uses(t)'
  BY <1>1, <1>3, BridgeNumbers DEF Uses
<1>10. OneInUse'
  BY <1>1, <1>7, <1>8, <1>9 DEF OneInUse
<1> QED BY <1>6, <1>10 DEF BridgeInv
LEMMA NotStartedStep ==
  ASSUME BridgeInv, NEW t \in Threads,
         NotStarted(t) \/ CallRefused(t) \/ Leave(t) \/ CallTimesOut(t) \/ Again(t)
  PROVE  BridgeInv'
<1>1. Uses(t) /\ ThreadOK(thread[t])
  BY DEF BridgeInv, BridgeShape, OneInUse
<1>2. CASE NotStarted(t)
  BY <1>2, GivesUp DEF NotStarted
<1>3. CASE CallRefused(t)
  BY <1>3, GivesUp DEF CallRefused
<1>4. CASE Leave(t)
  BY <1>4, GivesUp DEF Leave
<1>5. CASE CallTimesOut(t)
  BY <1>5, GivesUp DEF CallTimesOut
<1>6. CASE Again(t)
  BY <1>6, GivesUp DEF Again
<1> QED BY <1>2, <1>3, <1>4, <1>5, <1>6

-----------------------------------------------------------------------------
(* Blocks of work.                                                         *)

\* A thread that has a bridge goes on with it, and a call or a block of work is counted.
LEMMA GoesOn ==
  ASSUME BridgeInv, NEW t \in Threads, UNCHANGED <<host, instance, holder>>,
         \A u \in Threads : u # t => thread'[u] = thread[u],
         thread[t].at \in {"ready", "calling"}, thread'[t].at \in {"ready", "calling"},
         thread'[t].bridge = thread[t].bridge, thread'[t].calls \in Nat, thread[t].calls <= thread'[t].calls,
         thread'[t].at = "calling" => thread'[t].calls > 0
  PROVE  OneInUse'
<1>1. OneInUse /\ Uses(t)
  BY DEF BridgeInv, OneInUse
<1>2. \A u \in Threads : u # t => Uses(u)'
  BY OthersUse
<1>3. Uses(t)'
  BY <1>1 DEF Uses
<1> QED BY <1>1, <1>2, <1>3 DEF OneInUse

LEMMA OpenScopeStep ==
  ASSUME BridgeInv, NEW t \in Threads, OpenScope(t)
  PROVE  BridgeInv'
<1>1. BridgeShape /\ CallsOK /\ ThreadOK(thread[t])
  BY DEF BridgeInv, BridgeShape
<1>2. /\ thread[t].at = "ready" /\ thread[t].opened < MaxScopes
      /\ Set(t, [scope |-> thread[t].opened + 1, opened |-> thread[t].opened + 1])
      /\ UNCHANGED <<host, instance, holder, inflight>>
  BY DEF OpenScope
<1>3. thread[t].opened \in Nat /\ thread[t].opened + 1 \in Scopes
  BY <1>1, <1>2, BridgeNumbers DEF ThreadOK, Scopes
<1>4. PICK answers \in SUBSET Fields :
        relays' = [relays EXCEPT ![t][thread[t].opened + 1].answers = answers]
  BY DEF OpenScope
<1>5. /\ DOMAIN thread' = Threads /\ (\A u \in Threads : u # t => thread'[u] = thread[u])
      /\ thread'[t] = Updated(thread[t], [scope |-> thread[t].opened + 1, opened |-> thread[t].opened + 1])
  BY <1>1, <1>2, SetFacts DEF BridgeShape
<1>6. /\ DOMAIN thread'[t] = ThreadFields /\ thread'[t].at = "ready" /\ thread'[t].bridge = thread[t].bridge
      /\ thread'[t].calls = thread[t].calls /\ thread'[t].scope = thread[t].opened + 1
      /\ thread'[t].opened = thread[t].opened + 1 /\ thread'[t].declined = thread[t].declined
      /\ thread'[t].missed = thread[t].missed
  BY <1>1, <1>2, <1>5 DEF ThreadOK, Updated, ThreadFields
<1>7. ThreadOK(thread'[t])
  BY <1>1, <1>2, <1>3, <1>6, BridgeNumbers DEF ThreadOK
<1>8. relays \in [Threads -> [Scopes -> Relay]]
  BY <1>1 DEF BridgeShape, Questions
<1>9. /\ relays' \in [Threads -> [Scopes -> Relay]]
      /\ \A u \in Threads, n \in Scopes : relays'[u][n].pending = relays[u][n].pending
  <2> DEFINE old == relays[t][thread[t].opened + 1]
             new == [old EXCEPT !.answers = answers]
  <2>1. relays[t] \in [Scopes -> Relay] /\ old \in Relay
    BY <1>3, <1>8
  <2>2. new \in Relay /\ new.pending = old.pending
    BY <2>1 DEF Relay
  <2>3. relays' = [relays EXCEPT ![t] = [relays[t] EXCEPT ![thread[t].opened + 1] = new]]
    BY <1>4
  <2> HIDE DEF new
  <2>4. [relays[t] EXCEPT ![thread[t].opened + 1] = new] \in [Scopes -> Relay]
    BY <2>1, <2>2
  <2> QED BY <1>8, <2>1, <2>2, <2>3, <2>4
<1>10. \A u \in Threads : thread'[u].declined = thread[u].declined /\ thread'[u].calls = thread[u].calls
  BY <1>5, <1>6
<1>11. Questions'
  <2>1. \A u \in Threads, n \in Scopes : relays'[u][n].pending.by \in {u, "none"}
    BY <1>1, <1>9 DEF BridgeShape, Questions
  <2>2. \A u \in Threads : thread[u].declined \subseteq Scopes
    BY <1>1 DEF BridgeShape, ThreadOK
  <2>3. ASSUME NEW u \in Threads, NEW n \in thread'[u].declined
        PROVE  relays'[u][n].pending # NoQuestion
    <3>1. n \in thread[u].declined /\ n \in Scopes
      BY <1>10, <2>2
    <3>2. relays[u][n].pending # NoQuestion
      BY <1>1, <3>1 DEF BridgeShape, Questions
    <3> QED BY <1>9, <3>1, <3>2
  <2> QED BY <1>9, <2>1, <2>3 DEF Questions
<1>12. BridgeShape'
  BY <1>1, <1>2, <1>5, <1>7, <1>11 DEF BridgeShape
<1>13. ASSUME NEW k \in inflight
       PROVE  InFlight(k) /\ Accounted(k)'
  <2>1. InFlight(k) /\ Accounted(k)
    BY <1>1 DEF CallsOK
  <2>2. k.scope # 0 => k.scope \in Scopes
    BY <2>1, BridgeNumbers DEF InFlight, Scopes
  <2> QED BY <1>2, <1>9, <1>10, <2>1, <2>2 DEF InFlight, Accounted
<1>14. CallsOK'
  BY <1>1, <1>2, <1>13 DEF CallsOK
<1>15. OneInUse'
  BY <1>1, <1>2, <1>5, <1>6, GoesOn DEF ThreadOK
<1> QED BY <1>12, <1>14, <1>15 DEF BridgeInv

LEMMA CloseScopeStep ==
  ASSUME BridgeInv, NEW t \in Threads, CloseScope(t)
  PROVE  BridgeInv'
<1>1. BridgeShape /\ OneInUse /\ ThreadOK(thread[t]) /\ Uses(t)
  BY DEF BridgeInv, BridgeShape, OneInUse
<1> DEFINE n == thread[t].scope
           missed == thread[t].missed \/ (n \in thread[t].declined /\ relays[t][n].pending = NoQuestion)
<1>2. /\ thread[t].at = "ready" /\ Set(t, [scope |-> 0, missed |-> missed])
      /\ UNCHANGED <<host, instance, holder, relays, inflight>>
  BY DEF CloseScope
<1>3. missed = FALSE
  BY <1>1 DEF BridgeShape, Questions, ThreadOK
<1> HIDE DEF missed
<1>4. /\ DOMAIN thread' = Threads /\ (\A u \in Threads : u # t => thread'[u] = thread[u])
      /\ thread'[t] = Updated(thread[t], [scope |-> 0, missed |-> missed])
  BY <1>1, <1>2, SetFacts DEF BridgeShape
<1>5. /\ DOMAIN thread'[t] = ThreadFields /\ thread'[t].at = "ready" /\ thread'[t].bridge = thread[t].bridge
      /\ thread'[t].calls = thread[t].calls /\ thread'[t].scope = 0
      /\ thread'[t].opened = thread[t].opened /\ thread'[t].declined = thread[t].declined
      /\ thread'[t].missed = missed
  BY <1>1, <1>2, <1>4 DEF ThreadOK, Updated, ThreadFields
<1>6. 0 \in 0..thread[t].opened
  BY <1>1, BridgeNumbers DEF ThreadOK
<1>7. ThreadOK(thread'[t])
  BY <1>1, <1>3, <1>5, <1>6 DEF ThreadOK
<1>8. BridgeShape' /\ CallsOK'
  BY <1>1, <1>2, <1>4, <1>5, <1>7, MovesOn DEF BridgeShape
<1>9. OneInUse'
  BY <1>1, <1>2, <1>4, <1>5, GoesOn DEF ThreadOK
<1> QED BY <1>8, <1>9 DEF BridgeInv

-----------------------------------------------------------------------------
(* Calls.                                                                  *)

LEMMA CallRawStep ==
  ASSUME BridgeInv, NEW t \in Threads, CallRaw(t)
  PROVE  BridgeInv'
<1>1. BridgeShape /\ CallsOK /\ OneInUse /\ ThreadOK(thread[t]) /\ Uses(t) /\ Questions
  BY DEF BridgeInv, BridgeShape, OneInUse
<1>2. /\ thread[t].at = "ready" /\ inflight' = inflight \cup {NewCall(t)}
      /\ Set(t, [at |-> "calling", calls |-> thread[t].calls + 1])
      /\ UNCHANGED <<host, instance, holder, relays>>
  BY DEF CallRaw
<1>3. /\ DOMAIN thread' = Threads /\ (\A u \in Threads : u # t => thread'[u] = thread[u])
      /\ thread'[t] = Updated(thread[t], [at |-> "calling", calls |-> thread[t].calls + 1])
  BY <1>1, <1>2, SetFacts DEF BridgeShape
<1>4. /\ DOMAIN thread'[t] = ThreadFields /\ thread'[t].at = "calling" /\ thread'[t].bridge = thread[t].bridge
      /\ thread'[t].calls = thread[t].calls + 1 /\ thread'[t].scope = thread[t].scope
      /\ thread'[t].opened = thread[t].opened /\ thread'[t].declined = thread[t].declined
      /\ thread'[t].missed = thread[t].missed
  BY <1>1, <1>2, <1>3 DEF ThreadOK, Updated, ThreadFields
<1>5. thread[t].calls \in Nat /\ thread[t].calls + 1 \in Nat /\ thread[t].calls < thread[t].calls + 1
  BY <1>1 DEF ThreadOK
<1>6. ThreadOK(thread'[t])
  BY <1>1, <1>4, <1>5 DEF ThreadOK
<1>7. Questions'
  BY <1>1, <1>2, <1>3, <1>4 DEF Questions
<1>8. BridgeShape'
  BY <1>1, <1>2, <1>3, <1>6, <1>7 DEF BridgeShape
<1>9. PICK new : new = NewCall(t)
  OBVIOUS
<1>10. /\ DOMAIN new = CallFields /\ new.by = t /\ new.bridge = thread[t].bridge /\ new.call = thread[t].calls + 1
      /\ new.scope = thread[t].scope /\ new.round = 0 /\ new.declined = FALSE /\ new.from = {}
  BY <1>9 DEF NewCall, CallFields
<1>11. thread[t].bridge = instance /\ thread[t].bridge \in Bridges
  BY <1>1, <1>2, BridgeNumbers DEF Uses, ThreadOK, Bridges
<1>12. thread[t].scope \in 0..MaxScopes
  BY <1>1, BridgeNumbers DEF ThreadOK
<1>13. InFlight(new)
  BY <1>5, <1>10, <1>11, <1>12, BridgeNumbers DEF InFlight
<1>14. Accounted(new)'
  BY <1>2, <1>4, <1>5, <1>10, <1>11 DEF Accounted
<1>15. ASSUME NEW k \in inflight
       PROVE  InFlight(k) /\ Accounted(k)' /\ ~(k.by = t /\ k.call = thread[t].calls + 1)
  <2>1. InFlight(k) /\ Accounted(k)
    BY <1>1 DEF CallsOK
  <2>2. k.call <= thread'[k.by].calls
    <3>1. thread[k.by].calls \in Nat /\ k.call \in Nat /\ k.call <= thread[k.by].calls
      BY <1>1, <2>1 DEF InFlight, Accounted, BridgeShape, ThreadOK
    <3>2. thread'[k.by].calls = thread[k.by].calls \/ (k.by = t /\ thread'[k.by].calls = thread[t].calls + 1)
      BY <1>3, <1>4, <2>1 DEF InFlight
    <3> QED BY <1>5, <3>1, <3>2
  <2>3. Accounted(k)'
    BY <1>2, <2>1, <2>2 DEF Accounted
  <2>4. ~(k.by = t /\ k.call = thread[t].calls + 1)
    BY <1>5, <2>1 DEF InFlight, Accounted
  <2> QED BY <2>1, <2>3, <2>4
<1>16. inflight' = inflight \cup {new}
  BY <1>2, <1>9
<1>17. CallsOK'
  <2>1. \A k \in inflight' : InFlight(k) /\ Accounted(k)'
    BY <1>13, <1>14, <1>15, <1>16
  <2>2. ASSUME NEW j \in inflight', NEW k \in inflight', j.by = k.by, j.call = k.call
        PROVE  j = k
    BY <1>1, <1>10, <1>15, <1>16, <2>2 DEF CallsOK
  <2> QED BY <2>1, <2>2 DEF CallsOK
<1>18. OneInUse'
  BY <1>1, <1>2, <1>3, <1>4, <1>5, GoesOn
<1> QED BY <1>8, <1>17, <1>18 DEF BridgeInv

\* A question is answered from the relay of the call, or is there afterwards.
LEMMA RecordedFacts ==
  ASSUME Questions, NEW k \in inflight, InFlight(k), k.scope # 0,
         relays' = [relays EXCEPT ![k.by][k.scope] = Recorded(@, k)]
  PROVE  /\ relays' \in [Threads -> [Scopes -> Relay]]
         /\ \A u \in Threads, n \in Scopes : /\ relays'[u][n].pending.by \in {u, "none"}
                                             /\ relays[u][n].pending # NoQuestion => relays'[u][n].pending # NoQuestion
         /\ relays'[k.by][k.scope].pending # NoQuestion
<1>1. k.by \in Threads /\ k.scope \in Scopes /\ k.call \in Nat
  BY BridgeNumbers DEF InFlight, Scopes
<1>2. PICK t, n : t = k.by /\ n = k.scope
  OBVIOUS
<1>3. relays \in [Threads -> [Scopes -> Relay]] /\ relays[t] \in [Scopes -> Relay] /\ relays[t][n] \in Relay
  BY <1>1, <1>2 DEF Questions
<1>4. PICK q : q = [by |-> k.by, call |-> k.call]
  OBVIOUS
<1>5. q \in [by : Threads \cup {"none"}, call : Nat] /\ q.by = t /\ q # NoQuestion
  BY <1>1, <1>2, <1>4, BridgeNumbers DEF NoQuestion
<1>6. PICK new : new = Recorded(relays[t][n], k)
  OBVIOUS
<1>7. new = relays[t][n] \/ new = [relays[t][n] EXCEPT !.pending = q]
  BY <1>4, <1>6 DEF Recorded
<1>8. new \in Relay
  BY <1>3, <1>5, <1>7 DEF Relay
<1>9. new.pending.by \in {t, "none"}
  <2>1. relays[t][n].pending.by \in {t, "none"}
    BY <1>1, <1>2 DEF Questions
  <2> QED BY <1>3, <1>5, <1>7, <2>1 DEF Relay
<1>10. new.pending # NoQuestion
  BY <1>3, <1>4, <1>5, <1>6 DEF Recorded, Relay
<1>11. relays' = [relays EXCEPT ![t] = [relays[t] EXCEPT ![n] = new]]
  BY <1>2, <1>6
<1>12. [relays[t] EXCEPT ![n] = new] \in [Scopes -> Relay]
  BY <1>3, <1>8
<1>13. relays'[t][n] = new /\ \A u \in Threads, m \in Scopes : relays'[u][m] = relays[u][m] \/ (u = t /\ m = n)
  BY <1>1, <1>2, <1>3, <1>11
<1>14. \A u \in Threads, m \in Scopes : relays[u][m].pending.by \in {u, "none"}
  BY DEF Questions
<1>15. relays' \in [Threads -> [Scopes -> Relay]]
  BY <1>3, <1>11, <1>12
<1>16. \A u \in Threads, m \in Scopes : relays'[u][m].pending.by \in {u, "none"}
  BY <1>9, <1>13, <1>14
<1>17. \A u \in Threads, m \in Scopes : relays[u][m].pending # NoQuestion => relays'[u][m].pending # NoQuestion
  BY <1>10, <1>13
<1>18. relays'[k.by][k.scope].pending # NoQuestion
  BY <1>2, <1>10, <1>13
<1> QED BY <1>15, <1>16, <1>17, <1>18

LEMMA ContinueFacts ==
  ASSUME NEW k \in inflight, InFlight(k), k.round < MaxRounds, NEW c,
         DOMAIN c = {"declined"} \/ DOMAIN c = {"from"}, Continue(k, c)
  PROVE  \E new : /\ inflight' = (inflight \ {k}) \cup {new}
                  /\ DOMAIN new = CallFields /\ new.by = k.by /\ new.bridge = k.bridge /\ new.call = k.call
                  /\ new.scope = k.scope /\ new.round \in 0..MaxRounds
                  /\ DOMAIN c = {"declined"} => new.declined = c.declined /\ new.from = k.from
                  /\ DOMAIN c = {"from"} => new.declined = k.declined /\ new.from = c.from
<1>1. DOMAIN k = CallFields /\ k.round \in 0..MaxRounds /\ k.round + 1 \in 0..MaxRounds
  BY BridgeNumbers DEF InFlight
<1>2. PICK next : next = [k EXCEPT !.round = k.round + 1]
  OBVIOUS
<1>3. /\ DOMAIN next = CallFields /\ next.by = k.by /\ next.bridge = k.bridge /\ next.call = k.call
      /\ next.scope = k.scope /\ next.round = k.round + 1 /\ next.declined = k.declined /\ next.from = k.from
  BY <1>1, <1>2 DEF CallFields
<1>4. PICK new : new = Updated(next, c)
  OBVIOUS
<1>5. inflight' = (inflight \ {k}) \cup {new}
  BY <1>2, <1>4 DEF Continue
<1>6. /\ DOMAIN new = CallFields /\ new.by = next.by /\ new.bridge = next.bridge /\ new.call = next.call
      /\ new.scope = next.scope /\ new.round = next.round
      /\ DOMAIN c = {"declined"} => new.declined = c.declined /\ new.from = next.from
      /\ DOMAIN c = {"from"} => new.declined = next.declined /\ new.from = c.from
  BY <1>3, <1>4 DEF Updated, CallFields
<1> QED BY <1>1, <1>3, <1>5, <1>6

LEMMA ElicitStep ==
  ASSUME BridgeInv, NEW k \in inflight, Elicit(k)
  PROVE  BridgeInv'
<1>1. BridgeShape /\ CallsOK /\ OneInUse /\ Questions /\ InFlight(k) /\ Accounted(k)
  BY DEF BridgeInv, BridgeShape, CallsOK
<1>2. k.round < MaxRounds /\ UNCHANGED <<host, instance, holder, thread>>
  BY DEF Elicit
<1>3. k.by \in Threads /\ (k.scope # 0 => k.scope \in Scopes)
  BY <1>1, BridgeNumbers DEF InFlight, Scopes
<1>4. relays \in [Threads -> [Scopes -> Relay]]
  BY <1>1 DEF Questions
<1> DEFINE Asked == \/ k.scope = 0 /\ UNCHANGED relays
                    \/ k.scope # 0 /\ relays' = [relays EXCEPT ![k.by][k.scope] = Recorded(@, k)]
           told == k.from \cup {<<<<k.by, k.scope>>, relays[k.by][k.scope].answers>>}
<1>5. \/ Asked /\ Continue(k, [declined |-> TRUE])
      \/ /\ k.scope # 0 /\ relays[k.by][k.scope].answers = Fields /\ UNCHANGED relays
         /\ Continue(k, [from |-> told])
  <2>1. RelayOf(k)[1] = k.by /\ RelayOf(k)[2] = k.scope /\ RelayOf(k) = <<k.by, k.scope>>
    BY DEF RelayOf
  <2> QED BY <2>1 DEF Elicit, AnswersAll
<1>6. PICK new :
        /\ inflight' = (inflight \ {k}) \cup {new}
        /\ DOMAIN new = CallFields /\ new.by = k.by /\ new.bridge = k.bridge /\ new.call = k.call
        /\ new.scope = k.scope /\ new.round \in 0..MaxRounds
        /\ \/ Asked /\ new.from = k.from
           \/ /\ k.scope # 0 /\ relays[k.by][k.scope].answers = Fields /\ UNCHANGED relays
              /\ new.declined = k.declined /\ new.from = told
  <2>1. CASE Asked /\ Continue(k, [declined |-> TRUE])
    <3>1. PICK c : c = [declined |-> TRUE]
      OBVIOUS
    <3>2. DOMAIN c = {"declined"} /\ Continue(k, c)
      BY <2>1, <3>1
    <3> QED BY <1>1, <1>2, <2>1, <3>2, ContinueFacts
  <2>2. CASE /\ k.scope # 0 /\ relays[k.by][k.scope].answers = Fields /\ UNCHANGED relays
             /\ Continue(k, [from |-> told])
    <3> HIDE DEF told
    <3>1. PICK c : c = [from |-> told]
      OBVIOUS
    <3>2. DOMAIN c = {"from"} /\ c.from = told /\ Continue(k, c)
      BY <2>2, <3>1
    <3> QED BY <1>1, <1>2, <2>2, <3>2, ContinueFacts
  <2> QED BY <1>5, <2>1, <2>2
<1>7. InFlight(new)
  <2>1. \A a \in new.from : a = <<<<k.by, k.scope>>, Fields>>
    BY <1>1, <1>6 DEF InFlight
  <2> QED BY <1>1, <1>6, <2>1 DEF InFlight
<1>8. /\ relays' \in [Threads -> [Scopes -> Relay]]
      /\ \A u \in Threads, n \in Scopes : /\ relays'[u][n].pending.by \in {u, "none"}
                                          /\ relays[u][n].pending # NoQuestion => relays'[u][n].pending # NoQuestion
      /\ new.declined /\ new.scope # 0 => relays'[new.by][new.scope].pending # NoQuestion
  <2>1. CASE k.scope # 0 /\ relays' = [relays EXCEPT ![k.by][k.scope] = Recorded(@, k)]
    BY <1>1, <1>6, <2>1, RecordedFacts
  <2>2. CASE UNCHANGED relays /\ (k.scope = 0 \/ new.declined = k.declined)
    BY <1>1, <1>6, <2>2 DEF Questions, Accounted
  <2> QED BY <1>6, <2>1, <2>2
<1>9. Questions'
  <2>1. \A u \in Threads : thread[u].declined \subseteq Scopes
    BY <1>1 DEF BridgeShape, ThreadOK
  <2>2. ASSUME NEW u \in Threads, NEW n \in thread[u].declined
        PROVE  relays'[u][n].pending # NoQuestion
    BY <1>1, <1>8, <2>1 DEF Questions
  <2> QED BY <1>2, <1>8, <2>2 DEF Questions
<1>10. BridgeShape'
  BY <1>1, <1>2, <1>9 DEF BridgeShape
<1>11. Accounted(new)'
  BY <1>1, <1>2, <1>6, <1>8 DEF Accounted
<1>12. ASSUME NEW j \in inflight
       PROVE  InFlight(j) /\ Accounted(j)'
  <2>1. InFlight(j) /\ Accounted(j)
    BY <1>1 DEF CallsOK
  <2>2. j.by \in Threads /\ (j.scope # 0 => j.scope \in Scopes)
    BY <2>1, BridgeNumbers DEF InFlight, Scopes
  <2> QED BY <1>2, <1>8, <2>1, <2>2 DEF Accounted
<1>13. CallsOK'
  <2>1. \A j \in inflight' : InFlight(j) /\ Accounted(j)'
    BY <1>6, <1>7, <1>11, <1>12
  <2>2. ASSUME NEW i \in inflight', NEW j \in inflight', i.by = j.by, i.call = j.call
        PROVE  i = j
    BY <1>1, <1>6, <2>2 DEF CallsOK
  <2> QED BY <2>1, <2>2 DEF CallsOK
<1>14. OneInUse'
  BY <1>1, <1>2 DEF OneInUse, Uses
<1> QED BY <1>10, <1>13, <1>14 DEF BridgeInv

LEMMA ReturnStep ==
  ASSUME BridgeInv, NEW k \in inflight, Return(k)
  PROVE  BridgeInv'
<1>1. BridgeShape /\ CallsOK /\ OneInUse /\ Questions /\ InFlight(k) /\ Accounted(k)
  BY DEF BridgeInv, BridgeShape, CallsOK
<1>2. inflight' = inflight \ {k} /\ UNCHANGED <<host, instance, holder, relays>>
  BY DEF Return
<1>3. PICK t : t = k.by
  OBVIOUS
<1>4. t \in Threads /\ ThreadOK(thread[t]) /\ (k.scope # 0 => k.scope \in Scopes)
  BY <1>1, <1>3, BridgeNumbers DEF InFlight, Scopes, BridgeShape
<1>5. CASE ~Awaited(k)
  <2>1. UNCHANGED thread
    BY <1>5 DEF Return
  <2>2. BridgeShape' /\ OneInUse'
    BY <1>1, <1>2, <2>1 DEF BridgeShape, Questions, OneInUse, Uses
  <2>3. CallsOK'
    BY <1>1, <1>2, <2>1 DEF CallsOK, Accounted
  <2> QED BY <2>2, <2>3 DEF BridgeInv
<1>6. CASE Awaited(k)
  <2>1. PICK declined : declined = IF k.declined /\ k.scope # 0
                                   THEN thread[t].declined \cup {k.scope} ELSE thread[t].declined
    OBVIOUS
  <2>2. Set(t, [at |-> "ready", declined |-> declined]) /\ thread[t].at = "calling"
    BY <1>3, <1>6, <2>1 DEF Return, Awaited
  <2>3. /\ DOMAIN thread' = Threads /\ (\A u \in Threads : u # t => thread'[u] = thread[u])
        /\ thread'[t] = Updated(thread[t], [at |-> "ready", declined |-> declined])
    BY <1>1, <1>4, <2>2, SetFacts DEF BridgeShape
  <2>4. /\ DOMAIN thread'[t] = ThreadFields /\ thread'[t].at = "ready" /\ thread'[t].bridge = thread[t].bridge
        /\ thread'[t].calls = thread[t].calls /\ thread'[t].scope = thread[t].scope
        /\ thread'[t].opened = thread[t].opened /\ thread'[t].declined = declined
        /\ thread'[t].missed = thread[t].missed
    BY <1>4, <2>3 DEF ThreadOK, Updated, ThreadFields
  <2>5. declined \in SUBSET Scopes
    BY <1>4, <2>1 DEF ThreadOK
  <2>6. ThreadOK(thread'[t])
    BY <1>4, <2>4, <2>5 DEF ThreadOK
  <2>7. \A n \in declined : relays[t][n].pending # NoQuestion
    <3>1. \A n \in thread[t].declined : relays[t][n].pending # NoQuestion
      BY <1>1, <1>4 DEF Questions
    <3> QED BY <1>1, <1>3, <2>1, <3>1 DEF Accounted
  <2>8. Questions'
    BY <1>1, <1>2, <2>3, <2>4, <2>7 DEF Questions
  <2>9. BridgeShape'
    BY <1>1, <1>2, <2>3, <2>6, <2>8 DEF BridgeShape
  <2>10. \A u \in Threads : thread'[u].calls = thread[u].calls
    BY <2>3, <2>4
  <2>11. CallsOK'
    BY <1>1, <1>2, <2>10 DEF CallsOK, Accounted, InFlight
  <2>12. OneInUse'
    BY <1>1, <1>2, <1>4, <2>2, <2>3, <2>4, GoesOn DEF ThreadOK
  <2> QED BY <2>9, <2>11, <2>12 DEF BridgeInv
<1> QED BY <1>5, <1>6

-----------------------------------------------------------------------------
(* The invariant of the bridge.                                            *)

LEMMA BridgeStarts == BridgeInit => BridgeInv
<1> SUFFICES ASSUME BridgeInit PROVE BridgeInv
  OBVIOUS
<1>1. \A t \in Threads : /\ DOMAIN thread[t] = ThreadFields /\ thread[t].at = "new" /\ thread[t].bridge = 0
                         /\ thread[t].calls = 0 /\ thread[t].scope = 0 /\ thread[t].opened = 0
                         /\ thread[t].declined = {} /\ thread[t].missed = FALSE
  BY DEF BridgeInit, ThreadFields
<1>2. \A t \in Threads : ThreadOK(thread[t])
  BY <1>1, BridgeNumbers DEF ThreadOK
<1>3. NoQuestion \in [by : Threads \cup {"none"}, call : Nat] /\ NoQuestion.by = "none"
  BY DEF NoQuestion
<1>4. Blank \in Relay /\ Blank.pending = NoQuestion
  BY <1>3 DEF Blank, Relay
<1>5. Questions
  BY <1>1, <1>3, <1>4 DEF BridgeInit, Questions
<1>6. BridgeShape
  BY <1>2, <1>5 DEF BridgeInit, BridgeShape, Hosts
<1>7. CallsOK
  BY DEF BridgeInit, CallsOK
<1>8. OneInUse
  BY <1>1, BridgeNumbers DEF BridgeInit, OneInUse, Uses
<1> QED BY <1>6, <1>7, <1>8 DEF BridgeInv

LEMMA BridgeKeeps == BridgeInv /\ [BridgeNext]_bridgeVars => BridgeInv'
<1> SUFFICES ASSUME BridgeInv, [BridgeNext]_bridgeVars PROVE BridgeInv'
  OBVIOUS
<1>1. ASSUME NEW t \in Threads, BridgeStep(t) PROVE BridgeInv'
  BY <1>1, InstanceStep, StartedStep, NotStartedStep, CloseScopeStep DEF BridgeStep
<1>2. ASSUME NEW t \in Threads, OpenScope(t) \/ CallRaw(t) \/ Again(t) PROVE BridgeInv'
  BY <1>2, OpenScopeStep, CallRawStep, NotStartedStep
<1>3. ASSUME NEW b \in Bridges, ComesUp(b) \/ StartFails(b) \/ Dies(b) PROVE BridgeInv'
  BY <1>3, HostStep
<1>4. ASSUME NEW k \in inflight, Return(k) \/ Elicit(k) PROVE BridgeInv'
  BY <1>4, ReturnStep, ElicitStep
<1>5. CASE UNCHANGED bridgeVars
  BY <1>5 DEF bridgeVars, BridgeInv, BridgeShape, Questions, CallsOK, Accounted, OneInUse, Uses
<1> QED BY <1>1, <1>2, <1>3, <1>4, <1>5 DEF BridgeNext

LEMMA BridgeIsSafe == BridgeInv => BridgeSafe
<1> SUFFICES ASSUME BridgeInv PROVE BridgeSafe
  OBVIOUS
<1>1. BridgeShape /\ CallsOK /\ OneInUse /\ Questions
  BY DEF BridgeInv, BridgeShape
<1>2. BridgeTypeOK
  <2>1. ASSUME NEW k \in inflight
        PROVE  k.round <= MaxRounds /\ k.scope \in 0..MaxScopes /\ k.call \in 1..thread[k.by].calls
    <3>1. InFlight(k) /\ Accounted(k)
      BY <1>1 DEF CallsOK
    <3>2. thread[k.by].calls \in Nat
      BY <1>1, <3>1 DEF InFlight, BridgeShape, ThreadOK
    <3> QED BY <3>1, <3>2, BridgeNumbers DEF InFlight, Accounted
  <2> QED BY <1>1, <2>1 DEF BridgeTypeOK, BridgeShape, CallsOK, Hosts
<1>3. OneBridgeInUse
  <2>1. \A t \in Threads : thread[t].at \in {"ready", "calling", "done"} =>
          thread[t].bridge = instance /\ host[instance] \in {"up", "down"}
    BY <1>1 DEF OneInUse, Uses
  <2>2. \A k \in inflight : k.bridge = instance
    BY <1>1 DEF CallsOK, Accounted
  <2>3. holder # "none" <=> \E t \in Threads : thread[t].at = "starting"
    BY <1>1, BridgeNumbers DEF OneInUse, Uses, BridgeShape
  <2> QED BY <2>1, <2>2, <2>3 DEF OneBridgeInUse
<1>4. DeclineIsReported
  BY <1>1 DEF BridgeShape, ThreadOK, DeclineIsReported
<1>5. QuestionsStayApart
  BY <1>1 DEF Questions, CallsOK, InFlight, QuestionsStayApart
<1> QED BY <1>2, <1>3, <1>4, <1>5 DEF BridgeSafe

\* However many threads share the bridge and however long a call outlives its caller, there is one
\* bridge, a question stays in the block of work that raised it, and a declined one is told.
THEOREM BridgeStaysSafe == BridgeInit /\ [][BridgeNext]_bridgeVars => []BridgeSafe
<1>1. BridgeInit /\ [][BridgeNext]_bridgeVars => []BridgeInv
  BY BridgeStarts, BridgeKeeps, PTL
<1> QED BY <1>1, BridgeIsSafe, PTL

-----------------------------------------------------------------------------
(* RiskWorkflows: what every plan is made of.                              *)

EngineTools ==
    {"list_portfolios", "list_scenarios", "get_portfolio", "get_scenario", "price_portfolio", "dv01",
     "key_rate_dv01", "historical_risk", "stress", "bond_analytics", "curve_analytics",
     "rate_volatility", "carry_roll", "rate_sensitivities", "risk_contributions", "concentration",
     "rate_stress", "key_rate_stress", "shock_ladder", "stress_matrix", "stress_contributions",
     "replay_forward", "worst_stresses", "reverse_stress", "stress_thresholds", "limit_breach",
     "parametric_risk", "monte_carlo_risk", "compare_methods", "backtest", "pnl_attribution",
     "evaluate_limits", "compare_portfolio_risk", "hypothetical_trade", "frtb_girr"}
PlainTools == EngineTools \cup Refusals
DatingTools == {"valuation_curve", "stated_end"}
CallSet == [tool : PlainTools \cup Markets \cup DatingTools \cup {"history"},
            ref : {"none", "stated", "valuation", "lookback"}, day : 0..FinalDay,
            policy : {"none", "previous", "next"}, lenient : BOOLEAN]
\* The workflows that cannot go on without one of their calls
StrictNames == Dated \cup {"evaluate_risk_limits"}
\* A calculation as of a requested day that looks for no curve
AsAsked(n, a) == n = "compute_rate_volatility" /\ a.curve_date # 0

\* A call reads what it may: a curve is looked up for some day, that of the valuation for the
\* requested one or the one before it, and a history ends with the valuation.
Fitting(n, a, c) ==
    /\ c.tool = "get_curve" => c.ref # "none"
    /\ c.tool = "valuation_curve" =>
          c.ref = "stated" /\ c.day = a.curve_date /\ c.policy = "previous" /\ ~AsAsked(n, a)
    /\ c.tool = "stated_end" => c.day = a.end /\ c.day # 0 /\ n = "compute_pnl_attribution"
    /\ c.tool = "history" =>
          \/ c.ref = "valuation"
          \/ c.ref = "stated" /\ c.day = a.curve_date /\ AsAsked(n, a)
    /\ n \in StrictNames => ~c.lenient
FitCalls(n, a)  == {c \in CallSet : Fitting(n, a, c)}
EarlyCalls(n, a) == {c \in FitCalls(n, a) : c.tool # "history"}
LateCalls(n, a)  == {c \in FitCalls(n, a) : c.tool \notin DatingTools}

\* The valuation is dated before any history is read.
TwoPhased(n, a, s) == \E e \in Seq(EarlyCalls(n, a)), l \in Seq(LateCalls(n, a)) : s = e \o l

LEMMA WfNumbers ==
  /\ FinalDay \in Nat \ {0} /\ TradingDays \in Nat \ {0} /\ BacktestRows \in Nat \ {0}
  /\ LookbackDays \in Nat \ {0} /\ Holidays \subseteq 1..FinalDay
BY RiskWorkflowsAssumption

LEMMA ArgumentFacts ==
  ASSUME NEW n, NEW a \in Arguments(n)
  PROVE  /\ a.curve_date \in 0..FinalDay /\ a.start \in 0..FinalDay /\ a.end \in 0..FinalDay
         /\ n = "compute_pnl_attribution" => a.curve_date = 0
         /\ n \notin Dated => a.start = 0 /\ a.end = 0
         /\ n = "run_stress" => (a.start = 0 /\ a.end = 0) \/ (0 < a.start /\ a.start < a.end)
         /\ n = "evaluate_risk_limits" => a.given \subseteq DOMAIN Measures
<1>1. 0 \in 0..FinalDay /\ Calendar \subseteq 0..FinalDay
  BY WfNumbers DEF Calendar
<1>2. a \in [given : SUBSET (IF n \in DOMAIN Reads THEN Reads[n] ELSE {}),
            curve_date : IF n = "compute_pnl_attribution" THEN {0} ELSE {0} \cup Calendar,
            start : IF n \in Dated THEN {0} \cup Calendar ELSE {0},
            end   : IF n \in Dated THEN {0} \cup Calendar ELSE {0}]
  BY DEF Arguments
<1>3. n = "evaluate_risk_limits" => a.given \subseteq DOMAIN Measures
  <2>1. "evaluate_risk_limits" \in DOMAIN Reads /\ Reads["evaluate_risk_limits"] = DOMAIN Measures
    BY DEF Reads
  <2>2. a.given \subseteq (IF n \in DOMAIN Reads THEN Reads[n] ELSE {})
    BY <1>2
  <2> QED BY <2>1, <2>2
<1>4. n = "run_stress" => (a.start = 0 /\ a.end = 0) \/ (0 < a.start /\ a.start < a.end)
  BY DEF Arguments
<1>5. a.curve_date \in (IF n = "compute_pnl_attribution" THEN {0} ELSE {0} \cup Calendar)
  BY <1>2
<1>6. a.start \in (IF n \in Dated THEN {0} \cup Calendar ELSE {0})
  BY <1>2
<1>7. a.end \in (IF n \in Dated THEN {0} \cup Calendar ELSE {0})
  BY <1>2
<1> QED BY <1>1, <1>3, <1>4, <1>5, <1>6, <1>7

\* A call without a date may come at any time.
LEMMA PlainCall ==
  ASSUME NEW n, NEW a, NEW t \in PlainTools
  PROVE  Call(t) \in EarlyCalls(n, a) /\ Call(t) \in LateCalls(n, a)
<1>1. t \notin {"get_curve", "valuation_curve", "stated_end", "history"}
  BY DEF PlainTools, EngineTools, Refusals
<1>2. Call(t) \in CallSet
  BY WfNumbers DEF Call, CallOn, CallSet
<1> QED BY <1>1, <1>2 DEF Call, CallOn, Fitting, FitCalls, EarlyCalls, LateCalls, DatingTools

LEMMA LenientCall ==
  ASSUME NEW n, NEW a, NEW t \in PlainTools, n \notin StrictNames
  PROVE  Try(t) \in EarlyCalls(n, a) /\ Try(t) \in LateCalls(n, a)
<1>1. t \notin {"get_curve", "valuation_curve", "stated_end", "history"}
  BY DEF PlainTools, EngineTools, Refusals
<1>2. Try(t) = [tool |-> t, ref |-> "none", day |-> 0, policy |-> "none", lenient |-> TRUE]
  <2> DEFINE c == Call(t)
  <2>1. c = [tool |-> t, ref |-> "none", day |-> 0, policy |-> "none", lenient |-> FALSE]
    BY DEF Call, CallOn
  <2>2. Try(t) = [c EXCEPT !.lenient = TRUE]
    BY DEF Try
  <2> HIDE DEF c
  <2> QED BY <2>1, <2>2
<1>3. Try(t) \in CallSet
  BY <1>2, WfNumbers DEF CallSet
<1> QED BY <1>1, <1>2, <1>3 DEF Fitting, FitCalls, EarlyCalls, LateCalls, DatingTools

LEMMA CurveCall ==
  ASSUME NEW n, NEW a, NEW r \in {"stated", "valuation", "lookback"}, NEW d \in 0..FinalDay,
         NEW p \in {"previous", "next"}
  PROVE  CurveOf(r, d, p) \in EarlyCalls(n, a) /\ CurveOf(r, d, p) \in LateCalls(n, a)
<1>1. CurveOf(r, d, p) = [tool |-> "get_curve", ref |-> r, day |-> d, policy |-> p, lenient |-> FALSE]
  BY DEF CurveOf, CallOn
<1>2. CurveOf(r, d, p) \in CallSet
  BY <1>1 DEF CallSet, Markets
<1> QED BY <1>1, <1>2 DEF Fitting, FitCalls, EarlyCalls, LateCalls, DatingTools

LEMMA LatestCall ==
  ASSUME NEW n, NEW a, a.curve_date \in 0..FinalDay, ~AsAsked(n, a)
  PROVE  LatestCurve(a.curve_date) \in EarlyCalls(n, a)
<1> DEFINE c == LatestCurve(a.curve_date)
<1>1. c = [tool |-> "valuation_curve", ref |-> "stated", day |-> a.curve_date, policy |-> "previous",
           lenient |-> FALSE]
  BY DEF LatestCurve, CallOn
<1>2. c \in CallSet
  BY <1>1 DEF CallSet, DatingTools
<1> QED BY <1>1, <1>2 DEF Fitting, FitCalls, EarlyCalls

LEMMA HistoryCall ==
  ASSUME NEW n, NEW a
  PROVE  History \in LateCalls(n, a)
<1>1. History = [tool |-> "history", ref |-> "valuation", day |-> 0, policy |-> "previous", lenient |-> FALSE]
  BY DEF History, CallOn
<1>2. History \in CallSet
  BY <1>1, WfNumbers DEF CallSet
<1> QED BY <1>1, <1>2 DEF Fitting, FitCalls, LateCalls, DatingTools

LEMMA TypedCall ==
  ASSUME NEW t \in PlainTools \cup Markets \cup DatingTools \cup {"history"},
         NEW r \in {"none", "stated", "valuation", "lookback"}, NEW d \in 0..FinalDay,
         NEW p \in {"none", "previous", "next"}
  PROVE  CallOn(t, r, d, p) \in CallSet
BY DEF CallOn, CallSet

LEMMA TypedPlain ==
  ASSUME NEW t \in PlainTools
  PROVE  Call(t) \in CallSet /\ Call(t).tool = t /\ t \notin Markets \cup DatingTools \cup {"history"}
<1>1. Call(t) \in CallSet
  <2>1. 0 \in 0..FinalDay
    BY WfNumbers
  <2>2. CallOn(t, "none", 0, "none") \in CallSet
    BY <2>1, TypedCall
  <2> QED BY <2>2 DEF Call
<1>2. Call(t).tool = t
  BY DEF Call, CallOn
<1>3. t \notin Markets \cup DatingTools \cup {"history"}
  BY DEF PlainTools, EngineTools, Refusals, Markets, DatingTools
<1> QED BY <1>1, <1>2, <1>3

LEMMA AskedHistoryCall ==
  ASSUME NEW n, NEW a, a.curve_date \in 0..FinalDay, AsAsked(n, a)
  PROVE  CallOn("history", "stated", a.curve_date, "previous") \in LateCalls(n, a)
<1> DEFINE c == CallOn("history", "stated", a.curve_date, "previous")
<1>1. c = [tool |-> "history", ref |-> "stated", day |-> a.curve_date, policy |-> "previous",
           lenient |-> FALSE]
  BY DEF CallOn
<1>2. c \in CallSet
  BY TypedCall
<1>3. n \in StrictNames => ~c.lenient
  BY <1>1
<1> QED BY <1>1, <1>2, <1>3 DEF Fitting, FitCalls, LateCalls, DatingTools

LEMMA StatedEndCall ==
  ASSUME NEW n, NEW a, a.end \in 0..FinalDay, a.end # 0, n = "compute_pnl_attribution"
  PROVE  CallOn("stated_end", "none", a.end, "none") \in EarlyCalls(n, a)
<1> DEFINE c == CallOn("stated_end", "none", a.end, "none")
<1>1. c = [tool |-> "stated_end", ref |-> "none", day |-> a.end, policy |-> "none", lenient |-> FALSE]
  BY DEF CallOn
<1>2. c \in CallSet
  BY TypedCall DEF DatingTools
<1> QED BY <1>1, <1>2 DEF Fitting, FitCalls, EarlyCalls, DatingTools

-----------------------------------------------------------------------------
(* RiskWorkflows: every plan dates the valuation before it reads a history. *)

LEMMA AllFit ==
  ASSUME NEW n, NEW a
  PROVE  EarlyCalls(n, a) \subseteq FitCalls(n, a) /\ LateCalls(n, a) \subseteq FitCalls(n, a)
BY DEF EarlyCalls, LateCalls

LEMMA LateOnly ==
  ASSUME NEW n, NEW a, NEW l \in Seq(LateCalls(n, a))
  PROVE  TwoPhased(n, a, l)
<1>1. <<>> \in Seq(EarlyCalls(n, a)) /\ l = <<>> \o l
  BY EmptySeq, ConcatEmptySeq
<1> QED BY <1>1 DEF TwoPhased

LEMMA ThenLate ==
  ASSUME NEW n, NEW a, NEW s, TwoPhased(n, a, s), NEW m \in Seq(LateCalls(n, a))
  PROVE  TwoPhased(n, a, s \o m)
<1>1. PICK e \in Seq(EarlyCalls(n, a)), l \in Seq(LateCalls(n, a)) : s = e \o l
  BY DEF TwoPhased
<1>2. l \o m \in Seq(LateCalls(n, a))
  BY ConcatProperties
<1>3. e \in Seq(FitCalls(n, a)) /\ l \in Seq(FitCalls(n, a)) /\ m \in Seq(FitCalls(n, a))
  BY AllFit, SeqMonotonic
<1>4. s \o m = e \o (l \o m)
  BY <1>1, <1>3
<1> QED BY <1>2, <1>4 DEF TwoPhased

LEMMA EarlyFirst ==
  ASSUME NEW n, NEW a, NEW s, TwoPhased(n, a, s), NEW f \in Seq(EarlyCalls(n, a))
  PROVE  TwoPhased(n, a, f \o s)
<1>1. PICK e \in Seq(EarlyCalls(n, a)), l \in Seq(LateCalls(n, a)) : s = e \o l
  BY DEF TwoPhased
<1>2. f \o e \in Seq(EarlyCalls(n, a))
  BY ConcatProperties
<1>3. e \in Seq(FitCalls(n, a)) /\ l \in Seq(FitCalls(n, a)) /\ f \in Seq(FitCalls(n, a))
  BY AllFit, SeqMonotonic
<1>4. f \o s = (f \o e) \o l
  BY <1>1, <1>3
<1> QED BY <1>2, <1>4 DEF TwoPhased

LEMMA RefusesPhased ==
  ASSUME NEW n, NEW a, NEW w \in Refusals
  PROVE  Refuse(w) \in Seq(LateCalls(n, a)) /\ TwoPhased(n, a, Refuse(w))
<1>1. Call(w) \in LateCalls(n, a)
  BY PlainCall DEF PlainTools
<1>2. Refuse(w) \in Seq(LateCalls(n, a))
  BY <1>1 DEF Refuse
<1> QED BY <1>2, LateOnly

LEMMA OneCall ==
  ASSUME NEW n, NEW a, NEW t \in EngineTools
  PROVE  <<Call(t)>> \in Seq(LateCalls(n, a)) /\ <<Call(t)>> \in Seq(EarlyCalls(n, a))
<1>1. Call(t) \in LateCalls(n, a) /\ Call(t) \in EarlyCalls(n, a)
  BY PlainCall DEF PlainTools
<1> QED BY <1>1

LEMMA HistoryThen ==
  ASSUME NEW n, NEW a, NEW t \in EngineTools
  PROVE  <<History, Call(t)>> \in Seq(LateCalls(n, a))
<1>1. Call(t) \in LateCalls(n, a) /\ History \in LateCalls(n, a)
  BY PlainCall, HistoryCall DEF PlainTools
<1> QED BY <1>1

LEMMA BookThen ==
  ASSUME NEW n, NEW a, a.curve_date \in 0..FinalDay, n # "compute_rate_volatility",
         NEW l \in Seq(LateCalls(n, a))
  PROVE  TwoPhased(n, a, BookAndCurve(a) \o l)
<1>1. Call("get_portfolio") \in EarlyCalls(n, a)
  BY PlainCall DEF PlainTools, EngineTools
<1>2. LatestCurve(a.curve_date) \in EarlyCalls(n, a)
  BY LatestCall DEF AsAsked
<1>3. BookAndCurve(a) \in Seq(EarlyCalls(n, a))
  BY <1>1, <1>2 DEF BookAndCurve
<1> QED BY <1>3 DEF TwoPhased

\* What is needed and missing is asked for at once.
LEMMA NeedsPhased ==
  ASSUME NEW n, NEW a, NEW required, NEW s, TwoPhased(n, a, s)
  PROVE  TwoPhased(n, a, Needs(required, a, s))
BY RefusesPhased DEF Needs, Refusals

LEMMA IfPhased ==
  ASSUME NEW n, NEW a, NEW b, NEW s, b => s \in Seq(LateCalls(n, a))
  PROVE  If(b, s) \in Seq(LateCalls(n, a))
BY EmptySeq DEF If

\* The book, the curve and one calculation
LEMMA BookPlans ==
  ASSUME NEW n, NEW a, a.curve_date \in 0..FinalDay, n # "compute_rate_volatility"
  PROVE  /\ TwoPhased(n, a, PricePortfolio(a))
         /\ TwoPhased(n, a, BondAnalytics(a))
         /\ TwoPhased(n, a, CarryRoll(a))
         /\ TwoPhased(n, a, RateSensitivities(a))
         /\ TwoPhased(n, a, Concentration(a))
         /\ TwoPhased(n, a, ShockLadder(a))
         /\ TwoPhased(n, a, StressMatrix(a))
         /\ TwoPhased(n, a, StressThresholds(a))
         /\ TwoPhased(n, a, FrtbGirr(a))
<1>1. TwoPhased(n, a, PricePortfolio(a))
  <2>1. "price_portfolio" \in EngineTools
    BY DEF EngineTools
  <2> QED BY <2>1, BookThen, OneCall DEF PricePortfolio
<1>2. TwoPhased(n, a, BondAnalytics(a))
  <2>1. "bond_analytics" \in EngineTools
    BY DEF EngineTools
  <2> QED BY <2>1, BookThen, OneCall DEF BondAnalytics
<1>3. TwoPhased(n, a, CarryRoll(a))
  <2>1. "carry_roll" \in EngineTools
    BY DEF EngineTools
  <2> QED BY <2>1, BookThen, OneCall DEF CarryRoll
<1>4. TwoPhased(n, a, RateSensitivities(a))
  <2>1. "rate_sensitivities" \in EngineTools
    BY DEF EngineTools
  <2> QED BY <2>1, BookThen, OneCall DEF RateSensitivities
<1>5. TwoPhased(n, a, Concentration(a))
  <2>1. "concentration" \in EngineTools
    BY DEF EngineTools
  <2> QED BY <2>1, BookThen, OneCall DEF Concentration
<1>6. TwoPhased(n, a, ShockLadder(a))
  <2>1. "shock_ladder" \in EngineTools
    BY DEF EngineTools
  <2> QED BY <2>1, BookThen, OneCall DEF ShockLadder
<1>7. TwoPhased(n, a, StressMatrix(a))
  <2>1. "stress_matrix" \in EngineTools
    BY DEF EngineTools
  <2> QED BY <2>1, BookThen, OneCall DEF StressMatrix
<1>8. TwoPhased(n, a, StressThresholds(a))
  <2>1. "stress_thresholds" \in EngineTools
    BY DEF EngineTools
  <2> QED BY <2>1, BookThen, OneCall DEF StressThresholds
<1>9. TwoPhased(n, a, FrtbGirr(a))
  <2>1. "frtb_girr" \in EngineTools
    BY DEF EngineTools
  <2> QED BY <2>1, BookThen, OneCall DEF FrtbGirr
<1> QED BY <1>1, <1>2, <1>3, <1>4, <1>5, <1>6, <1>7, <1>8, <1>9

\* With a history
LEMMA HistoryPlans ==
  ASSUME NEW n, NEW a, a.curve_date \in 0..FinalDay, n # "compute_rate_volatility"
  PROVE  /\ TwoPhased(n, a, ComputeVar(a))
         /\ TwoPhased(n, a, RiskContributions(a))
         /\ TwoPhased(n, a, WorstStresses(a))
         /\ TwoPhased(n, a, ParametricRisk(a))
         /\ TwoPhased(n, a, MonteCarloRisk(a))
         /\ TwoPhased(n, a, CompareMethods(a))
<1>1. TwoPhased(n, a, ComputeVar(a))
  <2>1. "historical_risk" \in EngineTools
    BY DEF EngineTools
  <2> QED BY <2>1, BookThen, HistoryThen DEF ComputeVar
<1>2. TwoPhased(n, a, RiskContributions(a))
  <2>1. "risk_contributions" \in EngineTools
    BY DEF EngineTools
  <2> QED BY <2>1, BookThen, HistoryThen DEF RiskContributions
<1>3. TwoPhased(n, a, WorstStresses(a))
  <2>1. "worst_stresses" \in EngineTools
    BY DEF EngineTools
  <2> QED BY <2>1, BookThen, HistoryThen DEF WorstStresses
<1>4. TwoPhased(n, a, ParametricRisk(a))
  <2>1. "parametric_risk" \in EngineTools
    BY DEF EngineTools
  <2> QED BY <2>1, BookThen, HistoryThen DEF ParametricRisk
<1>5. TwoPhased(n, a, MonteCarloRisk(a))
  <2>1. "monte_carlo_risk" \in EngineTools
    BY DEF EngineTools
  <2> QED BY <2>1, BookThen, HistoryThen DEF MonteCarloRisk
<1>6. TwoPhased(n, a, CompareMethods(a))
  <2>1. "compare_methods" \in EngineTools
    BY DEF EngineTools
  <2> QED BY <2>1, BookThen, HistoryThen DEF CompareMethods
<1> QED BY <1>1, <1>2, <1>3, <1>4, <1>5, <1>6

\* With an input that must be there
LEMMA NeedsPlans ==
  ASSUME NEW n, NEW a, a.curve_date \in 0..FinalDay, n # "compute_rate_volatility"
  PROVE  /\ TwoPhased(n, a, RunKeyRateStress(a))
         /\ TwoPhased(n, a, ReverseStress(a))
         /\ TwoPhased(n, a, LimitBreach(a))
<1>1. TwoPhased(n, a, RunKeyRateStress(a))
  <2>1. "key_rate_stress" \in EngineTools
    BY DEF EngineTools
  <2>2. TwoPhased(n, a, BookAndCurve(a) \o <<Call("key_rate_stress")>>)
    BY <2>1, BookThen, OneCall
  <2> QED BY <2>2, NeedsPhased DEF RunKeyRateStress
<1>2. TwoPhased(n, a, ReverseStress(a))
  <2>1. "reverse_stress" \in EngineTools
    BY DEF EngineTools
  <2>2. TwoPhased(n, a, BookAndCurve(a) \o <<Call("reverse_stress")>>)
    BY <2>1, BookThen, OneCall
  <2> QED BY <2>2, NeedsPhased DEF ReverseStress
<1>3. TwoPhased(n, a, LimitBreach(a))
  <2>1. "limit_breach" \in EngineTools
    BY DEF EngineTools
  <2>2. TwoPhased(n, a, BookAndCurve(a) \o <<Call("limit_breach")>>)
    BY <2>1, BookThen, OneCall
  <2> QED BY <2>2, NeedsPhased DEF LimitBreach
<1> QED BY <1>1, <1>2, <1>3

\* With an input that must name something
LEMMA ChoicePlans ==
  ASSUME NEW n, NEW a, a.curve_date \in 0..FinalDay, n # "compute_rate_volatility"
  PROVE  /\ TwoPhased(n, a, RunRateStress(a))
         /\ TwoPhased(n, a, StressContributions(a))
         /\ TwoPhased(n, a, HypotheticalTrade(a))
<1>1. TwoPhased(n, a, RunRateStress(a))
  <2> DEFINE l == IF "known" \in a.given THEN <<Call("rate_stress")>> ELSE Refuse("unknown")
  <2>1. "rate_stress" \in EngineTools /\ "unknown" \in Refusals
    BY DEF EngineTools, Refusals
  <2>2. l \in Seq(LateCalls(n, a))
    BY <2>1, OneCall, RefusesPhased
  <2>3. TwoPhased(n, a, BookAndCurve(a) \o l)
    BY <2>2, BookThen
  <2> QED BY <2>3, NeedsPhased DEF RunRateStress
<1>2. TwoPhased(n, a, StressContributions(a))
  <2> DEFINE l == IF "known" \in a.given THEN <<Call("stress_contributions")>> ELSE Refuse("unknown")
  <2>1. "stress_contributions" \in EngineTools /\ "unknown" \in Refusals
    BY DEF EngineTools, Refusals
  <2>2. l \in Seq(LateCalls(n, a))
    BY <2>1, OneCall, RefusesPhased
  <2>3. TwoPhased(n, a, BookAndCurve(a) \o l)
    BY <2>2, BookThen
  <2> QED BY <2>3, NeedsPhased DEF StressContributions
<1>3. TwoPhased(n, a, HypotheticalTrade(a))
  <2> DEFINE l == IF "node" \in a.given THEN <<Call("hypothetical_trade")>> ELSE Refuse("no_node")
  <2>1. "hypothetical_trade" \in EngineTools /\ "no_node" \in Refusals
    BY DEF EngineTools, Refusals
  <2>2. l \in Seq(LateCalls(n, a))
    BY <2>1, OneCall, RefusesPhased
  <2>3. TwoPhased(n, a, BookAndCurve(a) \o l)
    BY <2>2, BookThen
  <2> QED BY <2>3, NeedsPhased DEF HypotheticalTrade
<1> QED BY <1>1, <1>2, <1>3

LEMMA OneThenTwo ==
  ASSUME NEW x, NEW y, NEW z
  PROVE  <<x, y, z>> = <<x>> \o <<y, z>>
<1> DEFINE S == {x, y, z}
<1>1. <<x>> \in Seq(S) /\ <<y, z>> \in Seq(S) /\ <<x, y, z>> \in Seq(S)
  OBVIOUS
<1>2. Len(<<x>> \o <<y, z>>) = 3 /\ \A i \in 1..3 : (<<x>> \o <<y, z>>)[i] = <<x, y, z>>[i]
  BY <1>1, ConcatProperties
<1>3. <<x>> \o <<y, z>> \in Seq(S)
  BY <1>1, ConcatProperties
<1> QED BY <1>1, <1>2, <1>3, SeqEqual

LEMMA TwoThenOne ==
  ASSUME NEW x, NEW y, NEW z
  PROVE  <<x, y>> \o <<z>> = <<x, y, z>>
<1> DEFINE S == {x, y, z}
<1>1. <<x, y>> \in Seq(S) /\ <<z>> \in Seq(S) /\ <<x, y, z>> \in Seq(S)
  OBVIOUS
<1>2. Len(<<x, y>> \o <<z>>) = 3 /\ \A i \in 1..3 : (<<x, y>> \o <<z>>)[i] = <<x, y, z>>[i]
  BY <1>1, ConcatProperties
<1>3. <<x, y>> \o <<z>> \in Seq(S)
  BY <1>1, ConcatProperties
<1> QED BY <1>1, <1>2, <1>3, SeqEqual

LEMMA BarePlans ==
  ASSUME NEW n, NEW a \in Arguments(n)
  PROVE  /\ n = "compute_curve_analytics" => TwoPhased(n, a, CurveAnalytics(a))
         /\ n = "compute_rate_volatility" => TwoPhased(n, a, RateVolatility(a))
<1>1. a.curve_date \in 0..FinalDay
  BY ArgumentFacts
<1>2. ASSUME n = "compute_curve_analytics"
      PROVE  TwoPhased(n, a, CurveAnalytics(a))
  <2>1. LatestCurve(a.curve_date) \in EarlyCalls(n, a)
    BY <1>1, <1>2, LatestCall DEF AsAsked
  <2>2. Call("curve_analytics") \in EarlyCalls(n, a)
    BY PlainCall DEF PlainTools, EngineTools
  <2>3. CurveAnalytics(a) \in Seq(EarlyCalls(n, a))
    BY <2>1, <2>2 DEF CurveAnalytics
  <2>4. <<>> \in Seq(LateCalls(n, a)) /\ CurveAnalytics(a) = CurveAnalytics(a) \o <<>>
    BY <2>3, EmptySeq, ConcatEmptySeq
  <2> QED BY <2>3, <2>4 DEF TwoPhased
<1>3. ASSUME n = "compute_rate_volatility"
      PROVE  TwoPhased(n, a, RateVolatility(a))
  <2>1. Call("rate_volatility") \in LateCalls(n, a)
    BY PlainCall DEF PlainTools, EngineTools
  <2>2. CASE a.curve_date = 0
    <3>1. LatestCurve(0) \in EarlyCalls(n, a)
      BY <1>1, <2>2, LatestCall DEF AsAsked
    <3>2. History \in LateCalls(n, a)
      BY HistoryCall
    <3>3. <<LatestCurve(0)>> \in Seq(EarlyCalls(n, a)) /\ <<History, Call("rate_volatility")>> \in Seq(LateCalls(n, a))
      BY <2>1, <3>1, <3>2
    <3>4. RateVolatility(a) = <<LatestCurve(0)>> \o <<History, Call("rate_volatility")>>
      BY <2>2, OneThenTwo DEF RateVolatility
    <3> QED BY <3>3, <3>4 DEF TwoPhased
  <2>3. CASE a.curve_date # 0
    <3>1. CallOn("history", "stated", a.curve_date, "previous") \in LateCalls(n, a)
      BY <1>1, <1>3, <2>3, AskedHistoryCall DEF AsAsked
    <3>2. RateVolatility(a) \in Seq(LateCalls(n, a))
      BY <2>1, <2>3, <3>1 DEF RateVolatility
    <3> QED BY <3>2, LateOnly
  <2> QED BY <2>2, <2>3
<1> QED BY <1>2, <1>3

LEMMA MixedPlans ==
  ASSUME NEW n, NEW a \in Arguments(n)
  PROVE  /\ n = "compute_dv01" => TwoPhased(n, a, ComputeDv01(a))
         /\ n = "backtest_var" => TwoPhased(n, a, BacktestVar(a))
         /\ n = "evaluate_risk_limits" => TwoPhased(n, a, RiskLimits(a))
         /\ n = "compare_portfolio_risk" => TwoPhased(n, a, ComparePortfolio(a))
<1> DEFINE L == Seq(LateCalls(n, a))
<1> USE ArgumentFacts
<1>1. a.curve_date \in 0..FinalDay
  OBVIOUS
<1>2. ASSUME n = "compute_dv01"
      PROVE  TwoPhased(n, a, ComputeDv01(a))
  <2>1. "dv01" \in EngineTools /\ "key_rate_dv01" \in PlainTools /\ n \notin StrictNames
    BY <1>2 DEF PlainTools, EngineTools, StrictNames, Dated
  <2>2. <<Try("key_rate_dv01")>> \in L
    BY <2>1, LenientCall
  <2>3. If("key_rates" \in a.given, <<Try("key_rate_dv01")>>) \in L
    BY <2>2, IfPhased
  <2>4. TwoPhased(n, a, BookAndCurve(a) \o <<Call("dv01")>>)
    BY <1>1, <1>2, <2>1, BookThen, OneCall
  <2> QED BY <2>3, <2>4, ThenLate DEF ComputeDv01
<1>3. ASSUME n = "backtest_var"
      PROVE  TwoPhased(n, a, BacktestVar(a))
  <2>1. {"historical_risk", "worst_stresses", "backtest"} \subseteq PlainTools
    BY DEF PlainTools, EngineTools
  <2>2. /\ Call("historical_risk") \in LateCalls(n, a) /\ Call("worst_stresses") \in LateCalls(n, a)
        /\ Call("backtest") \in LateCalls(n, a) /\ History \in LateCalls(n, a)
    BY <2>1, PlainCall, HistoryCall
  <2>3. <<History, Call("historical_risk"), Call("worst_stresses"), Call("backtest")>> \in L
    BY <2>2
  <2> QED BY <1>1, <1>3, <2>3, BookThen DEF BacktestVar
<1>4. ASSUME n = "evaluate_risk_limits"
      PROVE  TwoPhased(n, a, RiskLimits(a))
  <2> DEFINE d == If("dv01_limit" \in a.given, <<Call("dv01")>>)
             v == If("var_limit" \in a.given, <<History, Call("historical_risk")>>)
             s == If("stress_limit" \in a.given, <<Call("rate_stress")>>)
  <2>1. {"dv01", "historical_risk", "rate_stress", "evaluate_limits"} \subseteq EngineTools
    BY DEF EngineTools
  <2>2. d \in L /\ v \in L /\ s \in L /\ <<Call("evaluate_limits")>> \in L
    BY <2>1, IfPhased, OneCall, HistoryThen
  <2>3. TwoPhased(n, a, BookAndCurve(a) \o d)
    BY <1>1, <1>4, <2>2, BookThen
  <2> HIDE DEF d, v, s
  <2>4. TwoPhased(n, a, BookAndCurve(a) \o d \o v \o s \o <<Call("evaluate_limits")>>)
    BY <2>2, <2>3, ThenLate
  <2>5. TwoPhased(n, a, Refuse("needs"))
    BY RefusesPhased DEF Refusals
  <2> QED BY <2>4, <2>5 DEF RiskLimits, d, v, s
<1>5. ASSUME n = "compare_portfolio_risk"
      PROVE  TwoPhased(n, a, ComparePortfolio(a))
  <2> DEFINE r == If("second_book" \notin a.given, Refuse("only_one"))
             f == <<Try("list_portfolios")>> \o r
             e == If("other_portfolio_id" \notin a.given, f)
  <2>1. "list_portfolios" \in PlainTools /\ n \notin StrictNames /\ "only_one" \in PlainTools
    BY <1>5 DEF PlainTools, EngineTools, Refusals, StrictNames, Dated
  <2>2. Call("only_one") \in EarlyCalls(n, a) /\ Try("list_portfolios") \in EarlyCalls(n, a)
    BY <2>1, PlainCall, LenientCall
  <2>3. r \in Seq(EarlyCalls(n, a)) /\ <<Try("list_portfolios")>> \in Seq(EarlyCalls(n, a))
    BY <2>2 DEF If, Refuse
  <2>4. f \in Seq(EarlyCalls(n, a))
    BY <2>3, ConcatProperties
  <2>5. e \in Seq(EarlyCalls(n, a))
    BY <2>4, EmptySeq DEF If
  <2>6. /\ Call("get_portfolio") \in LateCalls(n, a) /\ Call("compare_portfolio_risk") \in LateCalls(n, a)
        /\ Call("get_portfolio") \in EarlyCalls(n, a)
    BY PlainCall DEF PlainTools, EngineTools
  <2>7. <<Call("get_portfolio"), Call("compare_portfolio_risk")>> \in L
    BY <2>6
  <2>8. LatestCurve(a.curve_date) \in EarlyCalls(n, a)
    BY <1>1, <1>5, LatestCall DEF AsAsked
  <2>9. BookAndCurve(a) \in Seq(EarlyCalls(n, a))
    BY <2>6, <2>8 DEF BookAndCurve
  <2>10. e \o BookAndCurve(a) \in Seq(EarlyCalls(n, a))
    BY <2>5, <2>9, ConcatProperties
  <2> HIDE DEF e
  <2>11. TwoPhased(n, a, e \o BookAndCurve(a) \o <<Call("get_portfolio"), Call("compare_portfolio_risk")>>)
    BY <2>7, <2>10 DEF TwoPhased
  <2> QED BY <2>11 DEF ComparePortfolio, e, f, r
<1> QED BY <1>2, <1>3, <1>4, <1>5

LEMMA ReplayPlans ==
  ASSUME NEW n, NEW a \in Arguments(n)
  PROVE  /\ n = "run_stress" => TwoPhased(n, a, RunStress(a))
         /\ n = "run_historical_stress" => TwoPhased(n, a, HistoricalStress(a))
         /\ n = "compute_pnl_attribution" => TwoPhased(n, a, PnlAttribution(a))
<1> DEFINE L == Seq(LateCalls(n, a))
<1>1. a.curve_date \in 0..FinalDay /\ a.start \in 0..FinalDay /\ a.end \in 0..FinalDay
  BY ArgumentFacts
<1>2. ASSUME n = "run_stress"
      PROVE  TwoPhased(n, a, RunStress(a))
  <2> DEFINE r == If(a.start # 0, ReplayCurves(a.start, a.end))
             x == IF "live_tenor" \in a.given THEN <<Call("stress")>> ELSE Refuse("no_shocks")
  <2>1. {"get_scenario", "stress"} \subseteq EngineTools /\ "no_shocks" \in Refusals
    BY DEF EngineTools, Refusals
  <2>2. /\ CurveOf("stated", a.start, "previous") \in LateCalls(n, a)
        /\ CurveOf("stated", a.end, "next") \in LateCalls(n, a)
    BY <1>1, CurveCall
  <2>3. ReplayCurves(a.start, a.end) \in L
    BY <2>2 DEF ReplayCurves
  <2>4. r \in L
    BY <2>3, EmptySeq DEF If
  <2>5. x \in L
    BY <2>1, OneCall, RefusesPhased
  <2>6. TwoPhased(n, a, BookAndCurve(a) \o <<Call("get_scenario")>>)
    BY <1>1, <1>2, <2>1, BookThen, OneCall
  <2> HIDE DEF r, x
  <2>7. TwoPhased(n, a, BookAndCurve(a) \o <<Call("get_scenario")>> \o r \o x)
    BY <2>4, <2>5, <2>6, ThenLate
  <2> QED BY <2>7 DEF RunStress, r, x
<1>3. ASSUME n = "run_historical_stress"
      PROVE  TwoPhased(n, a, HistoricalStress(a))
  <2> DEFINE from == IF "crisis_id" \in a.given THEN 1 ELSE a.start
             to == IF "crisis_id" \in a.given THEN FinalDay ELSE a.end
             x == IF from = 0 \/ to = 0 THEN Refuse("no_window")
                  ELSE <<CurveOn(from), CurveOn(to), Call("replay_forward")>>
  <2>1. from \in 0..FinalDay /\ to \in 0..FinalDay
    BY <1>1, WfNumbers
  <2> HIDE DEF from, to
  <2>2. CurveOn(from) \in LateCalls(n, a) /\ CurveOn(to) \in LateCalls(n, a)
    BY <2>1, CurveCall DEF CurveOn
  <2>3. Call("replay_forward") \in LateCalls(n, a) /\ "no_window" \in Refusals
    BY PlainCall DEF PlainTools, EngineTools, Refusals
  <2>4. <<CurveOn(from), CurveOn(to), Call("replay_forward")>> \in L
    BY <2>2, <2>3
  <2>5. x \in L
    BY <2>3, <2>4, RefusesPhased
  <2> HIDE DEF x
  <2>6. TwoPhased(n, a, BookAndCurve(a) \o x)
    BY <1>1, <1>3, <2>5, BookThen
  <2> QED BY <2>6 DEF HistoricalStress, from, to, x
<1>4. ASSUME n = "compute_pnl_attribution"
      PROVE  TwoPhased(n, a, PnlAttribution(a))
  <2> DEFINE e == IF a.end = 0 THEN LatestCurve(0) ELSE CallOn("stated_end", "none", a.end, "none")
             f == IF a.start = 0 THEN CurveOf("lookback", 0, "previous") ELSE CurveOn(a.start)
             t == CurveOf("valuation", 0, "previous")
  <2>1. a.curve_date = 0
    BY <1>4, ArgumentFacts
  <2>2. LatestCurve(0) \in EarlyCalls(n, a)
    <3>1. LatestCurve(a.curve_date) \in EarlyCalls(n, a)
      BY <1>1, <1>4, LatestCall DEF AsAsked
    <3> QED BY <2>1, <3>1
  <2>3. e \in EarlyCalls(n, a)
    BY <1>1, <1>4, <2>2, StatedEndCall
  <2>4. 0 \in 0..FinalDay
    BY WfNumbers
  <2>5. f \in LateCalls(n, a) /\ t \in LateCalls(n, a)
    BY <1>1, <2>4, CurveCall DEF CurveOn
  <2>6. Call("get_portfolio") \in EarlyCalls(n, a) /\ Call("pnl_attribution") \in LateCalls(n, a)
    BY PlainCall DEF PlainTools, EngineTools
  <2> HIDE DEF e, f, t
  <2>7. <<Call("get_portfolio")>> \in Seq(EarlyCalls(n, a)) /\ <<e>> \in Seq(EarlyCalls(n, a))
    BY <2>3, <2>6
  <2>8. <<Call("get_portfolio")>> \o <<e>> \in Seq(EarlyCalls(n, a))
    BY <2>7, ConcatProperties
  <2>9. <<f, t, Call("pnl_attribution")>> \in L
    BY <2>5, <2>6
  <2>10. TwoPhased(n, a, <<Call("get_portfolio")>> \o <<e>> \o <<f, t, Call("pnl_attribution")>>)
    BY <2>8, <2>9 DEF TwoPhased
  <2> QED BY <2>10 DEF PnlAttribution, e, f, t
<1> QED BY <1>2, <1>3, <1>4

\* What is called, from the first portfolio on
Plan(n, a) == If(n \notin Bookless, <<Call("list_portfolios")>>)
              \o If(n = "run_stress", <<Call("list_scenarios")>>) \o Workflows(a)[n]

LEMMA WorkflowPhased ==
  ASSUME NEW n \in AllNames, NEW a \in Arguments(n)
  PROVE  TwoPhased(n, a, Workflows(a)[n])
<1>1. a.curve_date \in 0..FinalDay
  BY ArgumentFacts
<1>2. n = "price_portfolio" => TwoPhased(n, a, Workflows(a)[n])
  BY <1>1, BookPlans DEF Workflows
<1>3. n = "compute_dv01" => TwoPhased(n, a, Workflows(a)[n])
  BY <1>1, MixedPlans DEF Workflows
<1>4. n = "compute_var" => TwoPhased(n, a, Workflows(a)[n])
  BY <1>1, HistoryPlans DEF Workflows
<1>5. n = "run_stress" => TwoPhased(n, a, Workflows(a)[n])
  BY <1>1, ReplayPlans DEF Workflows
<1>6. n = "compute_bond_analytics" => TwoPhased(n, a, Workflows(a)[n])
  BY <1>1, BookPlans DEF Workflows
<1>7. n = "compute_curve_analytics" => TwoPhased(n, a, Workflows(a)[n])
  BY <1>1, BarePlans DEF Workflows
<1>8. n = "compute_rate_volatility" => TwoPhased(n, a, Workflows(a)[n])
  BY <1>1, BarePlans DEF Workflows
<1>9. n = "compute_carry_roll" => TwoPhased(n, a, Workflows(a)[n])
  BY <1>1, BookPlans DEF Workflows
<1>10. n = "compute_rate_sensitivities" => TwoPhased(n, a, Workflows(a)[n])
  BY <1>1, BookPlans DEF Workflows
<1>11. n = "compute_risk_contributions" => TwoPhased(n, a, Workflows(a)[n])
  BY <1>1, HistoryPlans DEF Workflows
<1>12. n = "compute_concentration" => TwoPhased(n, a, Workflows(a)[n])
  BY <1>1, BookPlans DEF Workflows
<1>13. n = "run_rate_stress" => TwoPhased(n, a, Workflows(a)[n])
  BY <1>1, ChoicePlans DEF Workflows
<1>14. n = "run_key_rate_stress" => TwoPhased(n, a, Workflows(a)[n])
  BY <1>1, NeedsPlans DEF Workflows
<1>15. n = "run_shock_ladder" => TwoPhased(n, a, Workflows(a)[n])
  BY <1>1, BookPlans DEF Workflows
<1>16. n = "run_stress_matrix" => TwoPhased(n, a, Workflows(a)[n])
  BY <1>1, BookPlans DEF Workflows
<1>17. n = "compute_stress_contributions" => TwoPhased(n, a, Workflows(a)[n])
  BY <1>1, ChoicePlans DEF Workflows
<1>18. n = "run_historical_stress" => TwoPhased(n, a, Workflows(a)[n])
  BY <1>1, ReplayPlans DEF Workflows
<1>19. n = "find_worst_historical_stresses" => TwoPhased(n, a, Workflows(a)[n])
  BY <1>1, HistoryPlans DEF Workflows
<1>20. n = "run_reverse_stress" => TwoPhased(n, a, Workflows(a)[n])
  BY <1>1, NeedsPlans DEF Workflows
<1>21. n = "compute_stress_thresholds" => TwoPhased(n, a, Workflows(a)[n])
  BY <1>1, BookPlans DEF Workflows
<1>22. n = "find_limit_breach_stress" => TwoPhased(n, a, Workflows(a)[n])
  BY <1>1, NeedsPlans DEF Workflows
<1>23. n = "compute_parametric_risk" => TwoPhased(n, a, Workflows(a)[n])
  BY <1>1, HistoryPlans DEF Workflows
<1>24. n = "compute_monte_carlo_risk" => TwoPhased(n, a, Workflows(a)[n])
  BY <1>1, HistoryPlans DEF Workflows
<1>25. n = "compare_risk_methods" => TwoPhased(n, a, Workflows(a)[n])
  BY <1>1, HistoryPlans DEF Workflows
<1>26. n = "backtest_var" => TwoPhased(n, a, Workflows(a)[n])
  BY <1>1, MixedPlans DEF Workflows
<1>27. n = "compute_pnl_attribution" => TwoPhased(n, a, Workflows(a)[n])
  BY <1>1, ReplayPlans DEF Workflows
<1>28. n = "evaluate_risk_limits" => TwoPhased(n, a, Workflows(a)[n])
  BY <1>1, MixedPlans DEF Workflows
<1>29. n = "compare_portfolio_risk" => TwoPhased(n, a, Workflows(a)[n])
  BY <1>1, MixedPlans DEF Workflows
<1>30. n = "analyze_hypothetical_trade" => TwoPhased(n, a, Workflows(a)[n])
  BY <1>1, ChoicePlans DEF Workflows
<1>31. n = "compute_frtb_girr" => TwoPhased(n, a, Workflows(a)[n])
  BY <1>1, BookPlans DEF Workflows
<1> QED BY <1>2, <1>3, <1>4, <1>5, <1>6, <1>7, <1>8, <1>9, <1>10, <1>11,
          <1>12, <1>13, <1>14, <1>15, <1>16, <1>17, <1>18, <1>19, <1>20, <1>21,
          <1>22, <1>23, <1>24, <1>25, <1>26, <1>27, <1>28, <1>29, <1>30, <1>31 DEF AllNames, Workflows

LEMMA PlanPhased ==
  ASSUME NEW n \in AllNames, NEW a \in Arguments(n)
  PROVE  TwoPhased(n, a, Plan(n, a))
<1> DEFINE p == If(n \notin Bookless, <<Call("list_portfolios")>>)
           q == If(n = "run_stress", <<Call("list_scenarios")>>)
<1>1. <<Call("list_portfolios")>> \in Seq(EarlyCalls(n, a)) /\ <<Call("list_scenarios")>> \in Seq(EarlyCalls(n, a))
  BY OneCall DEF EngineTools
<1>2. p \in Seq(EarlyCalls(n, a)) /\ q \in Seq(EarlyCalls(n, a))
  BY <1>1, EmptySeq DEF If
<1>3. p \o q \in Seq(EarlyCalls(n, a))
  BY <1>2, ConcatProperties
<1> HIDE DEF p, q
<1>4. TwoPhased(n, a, (p \o q) \o Workflows(a)[n])
  BY <1>3, WorkflowPhased, EarlyFirst
<1> QED BY <1>4 DEF Plan, p, q

-----------------------------------------------------------------------------
(* RiskWorkflows: the two curves of a replay, and the measures.            *)

NoCurve(s) == \A i \in 1..Len(s) : s[i].tool # "get_curve"
\* The only two curves that are read besides that of the valuation, before the last call
Closes(s, f, t, x) ==
    /\ Len(s) >= 3 /\ s[Len(s) - 2] = f /\ s[Len(s) - 1] = t /\ s[Len(s)] = x
    /\ \A i \in 1..(Len(s) - 3) : s[i].tool # "get_curve"
LastRefuses(s) == s # <<>> => s[Len(s)].tool \in Refusals

LEMMA NoCurveOne ==
  ASSUME NEW c \in CallSet, c.tool # "get_curve"
  PROVE  <<c>> \in Seq(CallSet) /\ NoCurve(<<c>>) /\ Len(<<c>>) = 1
BY DEF NoCurve

LEMMA NoCurveNone == <<>> \in Seq(CallSet) /\ NoCurve(<<>>)
BY EmptySeq DEF NoCurve

LEMMA NoCurveJoin ==
  ASSUME NEW p \in Seq(CallSet), NEW q \in Seq(CallSet), NoCurve(p), NoCurve(q)
  PROVE  p \o q \in Seq(CallSet) /\ NoCurve(p \o q) /\ Len(p \o q) = Len(p) + Len(q)
<1>1. /\ p \o q \in Seq(CallSet) /\ Len(p \o q) = Len(p) + Len(q) /\ Len(p) \in Nat /\ Len(q) \in Nat
      /\ \A i \in 1..Len(p) + Len(q) : (p \o q)[i] = IF i <= Len(p) THEN p[i] ELSE q[i - Len(p)]
  BY ConcatProperties, LenProperties
<1>2. ASSUME NEW i \in 1..Len(p) + Len(q)
      PROVE  (p \o q)[i].tool # "get_curve"
  <2>1. CASE i <= Len(p)
    <3>1. (p \o q)[i] = p[i] /\ i \in 1..Len(p)
      BY <1>1, <2>1
    <3> QED BY <3>1 DEF NoCurve
  <2>2. CASE ~(i <= Len(p))
    <3>1. (p \o q)[i] = q[i - Len(p)] /\ i - Len(p) \in 1..Len(q)
      BY <1>1, <2>2
    <3> QED BY <3>1 DEF NoCurve
  <2> QED BY <2>1, <2>2
<1> QED BY <1>1, <1>2 DEF NoCurve

LEMMA PrefixCloses ==
  ASSUME NEW p \in Seq(CallSet), NEW s \in Seq(CallSet), NoCurve(p), NEW f, NEW t, NEW x,
         Closes(s, f, t, x)
  PROVE  Closes(p \o s, f, t, x)
<1>1. PICK q, k, m, n : q = p \o s /\ k = Len(p) /\ m = Len(s) /\ n = k + m
  OBVIOUS
<1>2. /\ Len(q) = n /\ k \in Nat /\ m \in Nat
      /\ \A i \in 1..n : q[i] = IF i <= k THEN p[i] ELSE s[i - k]
  BY <1>1, ConcatProperties, LenProperties
<1>3. /\ m >= 3 /\ s[m - 2] = f /\ s[m - 1] = t /\ s[m] = x
      /\ \A i \in 1..(m - 3) : s[i].tool # "get_curve"
  BY <1>1 DEF Closes
<1>4. \A i \in 1..k : p[i].tool # "get_curve"
  BY <1>1 DEF NoCurve
<1>5. /\ n - 2 \in 1..n /\ n - 1 \in 1..n /\ n \in 1..n /\ n >= 3
      /\ ~(n - 2 <= k) /\ ~(n - 1 <= k) /\ ~(n <= k)
      /\ (n - 2) - k = m - 2 /\ (n - 1) - k = m - 1 /\ n - k = m
  <2>1. n = k + m
    BY <1>1
  <2> QED BY ONLY <2>1, <1>2, <1>3
<1>6. q[n - 2] = f /\ q[n - 1] = t /\ q[n] = x
  BY ONLY <1>2, <1>3, <1>5
<1>7. ASSUME NEW i \in 1..(n - 3)
      PROVE  q[i].tool # "get_curve"
  <2>1. n = k + m
    BY <1>1
  <2>2. i \in 1..n /\ (i <= k => i \in 1..k) /\ (~(i <= k) => i - k \in 1..(m - 3))
    BY ONLY <1>2, <1>7, <2>1
  <2>3. CASE i <= k
    BY ONLY <1>2, <1>4, <2>2, <2>3
  <2>4. CASE ~(i <= k)
    BY ONLY <1>2, <1>3, <2>2, <2>4
  <2> QED BY <2>3, <2>4
<1>8. Closes(q, f, t, x)
  BY ONLY <1>2, <1>5, <1>6, <1>7 DEF Closes
<1> QED BY <1>1, <1>8

LEMMA ClosesWith ==
  ASSUME NEW p \in Seq(CallSet), NoCurve(p), NEW f \in CallSet, NEW t \in CallSet, NEW x \in CallSet
  PROVE  /\ <<f, t, x>> \in Seq(CallSet)
         /\ Closes(p \o <<f, t, x>>, f, t, x)
<1> DEFINE s == <<f, t, x>>
<1>1. s \in Seq(CallSet) /\ Len(s) = 3 /\ s[1] = f /\ s[2] = t /\ s[3] = x
  OBVIOUS
<1> HIDE DEF s
<1>2. Closes(s, f, t, x)
  BY <1>1 DEF Closes
<1>3. Closes(p \o s, f, t, x)
  BY <1>1, <1>2, PrefixCloses
<1> QED BY <1>1, <1>3 DEF s

LEMMA BookNoCurve ==
  ASSUME NEW a, a.curve_date \in 0..FinalDay
  PROVE  BookAndCurve(a) \in Seq(CallSet) /\ NoCurve(BookAndCurve(a)) /\ Len(BookAndCurve(a)) = 2
<1>1. Call("get_portfolio") \in CallSet /\ Call("get_portfolio").tool = "get_portfolio"
  BY TypedPlain DEF PlainTools, EngineTools
<1>2. LatestCurve(a.curve_date) \in CallSet /\ LatestCurve(a.curve_date).tool = "valuation_curve"
  BY TypedCall DEF DatingTools, LatestCurve, CallOn
<1> QED BY <1>1, <1>2 DEF BookAndCurve, NoCurve

\* Every plan of a strict workflow begins with the listings.
LEMMA PlanPrefix ==
  ASSUME NEW n \in StrictNames, NEW a
  PROVE  \E p \in Seq(CallSet) : /\ NoCurve(p) /\ Plan(n, a) = p \o Workflows(a)[n]
                                 /\ n # "run_stress" => Len(p) = 1
<1>1. n \notin Bookless
  BY DEF StrictNames, Dated, Bookless
<1>2. /\ Call("list_portfolios") \in CallSet /\ Call("list_portfolios").tool = "list_portfolios"
      /\ Call("list_scenarios") \in CallSet /\ Call("list_scenarios").tool = "list_scenarios"
  BY TypedPlain DEF PlainTools, EngineTools
<1> DEFINE q == If(n = "run_stress", <<Call("list_scenarios")>>)
<1>3. q \in Seq(CallSet) /\ NoCurve(q) /\ (n # "run_stress" => Len(q) = 0)
  BY <1>2, NoCurveOne, NoCurveNone, EmptySeq DEF If
<1>4. <<Call("list_portfolios")>> \in Seq(CallSet) /\ NoCurve(<<Call("list_portfolios")>>) /\ Len(<<Call("list_portfolios")>>) = 1
  BY <1>2, NoCurveOne
<1> HIDE DEF q
<1>5. /\ <<Call("list_portfolios")>> \o q \in Seq(CallSet) /\ NoCurve(<<Call("list_portfolios")>> \o q)
      /\ n # "run_stress" => Len(<<Call("list_portfolios")>> \o q) = 1
  <2> DEFINE p == <<Call("list_portfolios")>>
  <2>1. p \in Seq(CallSet) /\ NoCurve(p) /\ Len(p) = 1
    BY <1>4
  <2> HIDE DEF p
  <2>2. p \o q \in Seq(CallSet) /\ NoCurve(p \o q) /\ Len(p \o q) = Len(p) + Len(q)
    BY <1>3, <2>1, NoCurveJoin
  <2>3. n # "run_stress" => Len(p \o q) = 1
    BY <1>3, <2>1, <2>2
  <2> QED BY <2>2, <2>3 DEF p
<1>6. Plan(n, a) = (<<Call("list_portfolios")>> \o q) \o Workflows(a)[n]
  BY <1>1 DEF Plan, If, q
<1> QED BY <1>5, <1>6

\* run_stress reads no curve but that of the valuation, or the two of the stored replay.
StressPlan(a, s) ==
    IF a.start = 0 THEN NoCurve(s)
    ELSE \E x \in CallSet : /\ x.tool # "get_curve"
                            /\ Closes(s, CurveOf("stated", a.start, "previous"), CurveOf("stated", a.end, "next"), x)
\* run_historical_stress reads the two of its window, if it has one, and ends with their comparison.
HistoricalPlan(a, s) ==
    \/ LastRefuses(s)
    \/ \E from \in 1..FinalDay, to \in 1..FinalDay :
          /\ a.given = {} => to = a.end
          /\ Closes(s, CurveOn(from), CurveOn(to), Call("replay_forward"))
\* compute_pnl_attribution reads the two it attributes, after the end that was stated.
PnlPlan(a, s) ==
    /\ Len(s) = 6
    /\ a.end # 0 => s[3].tool = "stated_end"
    /\ \E f \in CallSet : /\ f.tool = "get_curve"
                          /\ Closes(s, f, CurveOf("valuation", 0, "previous"), Call("pnl_attribution"))

LEMMA CurveTyped ==
  ASSUME NEW r \in {"stated", "valuation", "lookback"}, NEW d \in 0..FinalDay,
         NEW p \in {"previous", "next"}
  PROVE  CurveOf(r, d, p) \in CallSet /\ CurveOf(r, d, p).tool = "get_curve"
<1>1. CurveOf(r, d, p) = CallOn("get_curve", r, d, p) /\ CurveOf(r, d, p).tool = "get_curve"
  BY DEF CurveOf, CallOn
<1> QED BY <1>1, TypedCall DEF Markets

LEMMA StressPlans ==
  ASSUME NEW a \in Arguments("run_stress")
  PROVE  StressPlan(a, Plan("run_stress", a))
<1>1. a.curve_date \in 0..FinalDay /\ a.start \in 0..FinalDay /\ a.end \in 0..FinalDay
  BY ArgumentFacts
<1>2. PICK p \in Seq(CallSet) : NoCurve(p) /\ Plan("run_stress", a) = p \o Workflows(a)["run_stress"]
  BY PlanPrefix DEF StrictNames, Dated
<1> DEFINE x == IF "live_tenor" \in a.given THEN Call("stress") ELSE Call("no_shocks")
           b == BookAndCurve(a) \o <<Call("get_scenario")>>
           f == CurveOf("stated", a.start, "previous")
           t == CurveOf("stated", a.end, "next")
<1>3. x \in CallSet /\ x.tool # "get_curve"
  BY TypedPlain DEF PlainTools, EngineTools, Refusals
<1>4. b \in Seq(CallSet) /\ NoCurve(b)
  <2>1. Call("get_scenario") \in CallSet /\ Call("get_scenario").tool = "get_scenario"
    BY TypedPlain DEF PlainTools, EngineTools
  <2>2. <<Call("get_scenario")>> \in Seq(CallSet) /\ NoCurve(<<Call("get_scenario")>>)
    BY <2>1, NoCurveOne
  <2> QED BY <1>1, <2>2, BookNoCurve, NoCurveJoin
<1>5. f \in CallSet /\ t \in CallSet
  BY <1>1, CurveTyped
<1>6. Workflows(a)["run_stress"] = b \o If(a.start # 0, <<f, t>>) \o <<x>>
  <2>1. RunStress(a) = b \o If(a.start # 0, <<f, t>>) \o <<x>>
    BY DEF RunStress, ReplayCurves, Refuse
  <2> QED BY <2>1 DEF Workflows
<1> HIDE DEF x, b, f, t
<1>7. <<x>> \in Seq(CallSet) /\ NoCurve(<<x>>)
  BY <1>3, NoCurveOne
<1>8. CASE a.start = 0
  <2>1. b \o If(a.start # 0, <<f, t>>) = b
    BY <1>4, <1>8, ConcatEmptySeq DEF If
  <2>2. b \o <<x>> \in Seq(CallSet) /\ NoCurve(b \o <<x>>)
    BY <1>4, <1>7, NoCurveJoin
  <2>3. NoCurve(p \o (b \o <<x>>))
    BY <1>2, <2>2, NoCurveJoin
  <2> QED BY <1>2, <1>6, <1>8, <2>1, <2>3 DEF StressPlan
<1>9. CASE a.start # 0
  <2>1. <<f, t>> \in Seq(CallSet) /\ <<f, t>> \o <<x>> = <<f, t, x>>
    BY <1>3, <1>5, TwoThenOne
  <2>2. (b \o <<f, t>>) \o <<x>> = b \o <<f, t, x>>
    <3>1. (b \o <<f, t>>) \o <<x>> = b \o (<<f, t>> \o <<x>>)
      BY <1>4, <1>7, <2>1
    <3> QED BY <2>1, <3>1
  <2>3. <<f, t, x>> \in Seq(CallSet) /\ Closes(b \o <<f, t, x>>, f, t, x)
    BY <1>3, <1>4, <1>5, ClosesWith
  <2>4. b \o <<f, t, x>> \in Seq(CallSet)
    BY <1>4, <2>3, ConcatProperties
  <2>5. Closes(p \o (b \o <<f, t, x>>), f, t, x)
    BY <1>2, <2>3, <2>4, PrefixCloses
  <2>6. Plan("run_stress", a) = p \o (b \o <<f, t, x>>)
    BY <1>2, <1>6, <1>9, <2>2 DEF If
  <2>7. Closes(Plan("run_stress", a), f, t, x)
    BY <2>5, <2>6
  <2> QED BY <1>3, <1>9, <2>7 DEF StressPlan, f, t
<1> QED BY <1>8, <1>9

LEMMA LastOfJoin ==
  ASSUME NEW p \in Seq(CallSet), NEW c \in CallSet
  PROVE  /\ p \o <<c>> \in Seq(CallSet) /\ Len(p \o <<c>>) = Len(p) + 1
         /\ (p \o <<c>>)[Len(p \o <<c>>)] = c
<1>1. <<c>> \in Seq(CallSet) /\ Len(<<c>>) = 1 /\ <<c>>[1] = c
  OBVIOUS
<1>2. /\ p \o <<c>> \in Seq(CallSet) /\ Len(p \o <<c>>) = Len(p) + 1 /\ Len(p) \in Nat
      /\ \A i \in 1..Len(p) + 1 : (p \o <<c>>)[i] = IF i <= Len(p) THEN p[i] ELSE <<c>>[i - Len(p)]
  BY <1>1, ConcatProperties, LenProperties
<1>3. Len(p) + 1 \in 1..Len(p) + 1 /\ ~(Len(p) + 1 <= Len(p)) /\ (Len(p) + 1) - Len(p) = 1
  BY <1>2
<1> QED BY <1>1, <1>2, <1>3

LEMMA HistoricalPlans ==
  ASSUME NEW a \in Arguments("run_historical_stress")
  PROVE  HistoricalPlan(a, Plan("run_historical_stress", a))
<1>1. a.curve_date \in 0..FinalDay /\ a.start \in 0..FinalDay /\ a.end \in 0..FinalDay
  BY ArgumentFacts
<1>2. PICK p \in Seq(CallSet) : NoCurve(p) /\ Plan("run_historical_stress", a) = p \o Workflows(a)["run_historical_stress"]
  BY PlanPrefix DEF StrictNames, Dated
<1> DEFINE from == IF "crisis_id" \in a.given THEN 1 ELSE a.start
           to   == IF "crisis_id" \in a.given THEN FinalDay ELSE a.end
           b == BookAndCurve(a)
<1>3. from \in 0..FinalDay /\ to \in 0..FinalDay /\ (a.given = {} => to = a.end)
  BY <1>1, WfNumbers
<1>4. Workflows(a)["run_historical_stress"] =
         b \o (IF from = 0 \/ to = 0 THEN Refuse("no_window")
               ELSE <<CurveOn(from), CurveOn(to), Call("replay_forward")>>)
  BY DEF Workflows, HistoricalStress
<1>5. b \in Seq(CallSet) /\ NoCurve(b)
  BY <1>1, BookNoCurve
<1> HIDE DEF from, to, b
<1>6. CASE from = 0 \/ to = 0
  <2>1. Call("no_window") \in CallSet /\ Call("no_window").tool \in Refusals
    BY TypedPlain DEF PlainTools, Refusals
  <2>2. Plan("run_historical_stress", a) = p \o (b \o <<Call("no_window")>>)
    BY <1>2, <1>4, <1>6 DEF Refuse
  <2>3. <<Call("no_window")>> \in Seq(CallSet)
    BY <2>1
  <2>4. p \o (b \o <<Call("no_window")>>) = (p \o b) \o <<Call("no_window")>>
    BY <1>2, <1>5, <2>3
  <2>5. p \o b \in Seq(CallSet)
    BY <1>2, <1>5, ConcatProperties
  <2>6. LastRefuses(Plan("run_historical_stress", a))
    BY <2>1, <2>2, <2>4, <2>5, LastOfJoin DEF LastRefuses
  <2> QED BY <2>6 DEF HistoricalPlan
<1>7. CASE ~(from = 0 \/ to = 0)
  <2>1. from \in 1..FinalDay /\ to \in 1..FinalDay
    BY <1>3, <1>7, WfNumbers
  <2>2. CurveOn(from) \in CallSet /\ CurveOn(to) \in CallSet /\ Call("replay_forward") \in CallSet
    BY <1>3, CurveTyped, TypedPlain DEF CurveOn, PlainTools, EngineTools
  <2> DEFINE s == <<CurveOn(from), CurveOn(to), Call("replay_forward")>>
  <2>3. s \in Seq(CallSet) /\ Closes(b \o s, CurveOn(from), CurveOn(to), Call("replay_forward"))
    BY <1>5, <2>2, ClosesWith
  <2>4. Plan("run_historical_stress", a) = p \o (b \o s)
    BY <1>2, <1>4, <1>7
  <2> HIDE DEF s
  <2>5. b \o s \in Seq(CallSet)
    BY <1>5, <2>3, ConcatProperties
  <2>6. Closes(Plan("run_historical_stress", a), CurveOn(from), CurveOn(to), Call("replay_forward"))
    BY <1>2, <2>3, <2>4, <2>5, PrefixCloses
  <2> QED BY <1>3, <2>1, <2>6 DEF HistoricalPlan
<1> QED BY <1>6, <1>7

LEMMA PnlPlans ==
  ASSUME NEW a \in Arguments("compute_pnl_attribution")
  PROVE  PnlPlan(a, Plan("compute_pnl_attribution", a))
<1>1. a.curve_date = 0 /\ a.start \in 0..FinalDay /\ a.end \in 0..FinalDay /\ 0 \in 0..FinalDay
  BY ArgumentFacts, WfNumbers
<1>2. PICK p \in Seq(CallSet) : /\ NoCurve(p) /\ Len(p) = 1
                                /\ Plan("compute_pnl_attribution", a) = p \o Workflows(a)["compute_pnl_attribution"]
  BY PlanPrefix DEF StrictNames, Dated
<1> DEFINE e == IF a.end = 0 THEN LatestCurve(0) ELSE CallOn("stated_end", "none", a.end, "none")
           f == IF a.start = 0 THEN CurveOf("lookback", 0, "previous") ELSE CurveOn(a.start)
           t == CurveOf("valuation", 0, "previous")
           g == Call("get_portfolio")
           x == Call("pnl_attribution")
<1>3. Workflows(a)["compute_pnl_attribution"] = <<g>> \o <<e>> \o <<f, t, x>>
  BY DEF Workflows, PnlAttribution
<1>4. g \in CallSet /\ g.tool # "get_curve" /\ x \in CallSet
  BY TypedPlain DEF PlainTools, EngineTools
<1>5. e \in CallSet /\ e.tool # "get_curve" /\ (a.end # 0 => e.tool = "stated_end")
  <2>1. LatestCurve(0) \in CallSet /\ LatestCurve(0).tool = "valuation_curve"
    BY <1>1, TypedCall DEF DatingTools, LatestCurve, CallOn
  <2>2. CallOn("stated_end", "none", a.end, "none") \in CallSet /\ CallOn("stated_end", "none", a.end, "none").tool = "stated_end"
    BY <1>1, TypedCall DEF DatingTools, CallOn
  <2> QED BY <2>1, <2>2
<1>6. f \in CallSet /\ f.tool = "get_curve" /\ t \in CallSet
  BY <1>1, CurveTyped DEF CurveOn
<1> HIDE DEF e, f, t, g, x
<1>7. <<g>> \in Seq(CallSet) /\ NoCurve(<<g>>) /\ Len(<<g>>) = 1 /\ <<e>> \in Seq(CallSet) /\ NoCurve(<<e>>) /\ Len(<<e>>) = 1
  BY <1>4, <1>5, NoCurveOne
<1> DEFINE b == <<g>> \o <<e>>
<1>8. b \in Seq(CallSet) /\ NoCurve(b) /\ Len(b) = 2 /\ b[2] = e
  <2>1. b \in Seq(CallSet) /\ NoCurve(b) /\ Len(b) = 2
    <3> DEFINE v == <<g>>
               w == <<e>>
    <3>1. v \in Seq(CallSet) /\ NoCurve(v) /\ Len(v) = 1 /\ w \in Seq(CallSet) /\ NoCurve(w) /\ Len(w) = 1
      BY <1>7
    <3> HIDE DEF v, w
    <3>2. v \o w \in Seq(CallSet) /\ NoCurve(v \o w) /\ Len(v \o w) = Len(v) + Len(w)
      BY <3>1, NoCurveJoin
    <3> QED BY <3>1, <3>2 DEF v, w
  <2>2. b[Len(b)] = e
    BY <1>5, <1>7, LastOfJoin
  <2> QED BY <2>1, <2>2
<1> HIDE DEF b
<1> DEFINE s == <<f, t, x>>
<1>9. s \in Seq(CallSet) /\ Len(s) = 3 /\ Closes(b \o s, f, t, x)
  BY <1>4, <1>6, <1>8, ClosesWith
<1> HIDE DEF s
<1>10. b \o s \in Seq(CallSet) /\ Len(b \o s) = 5 /\ (b \o s)[2] = e
  <2>1. /\ b \o s \in Seq(CallSet) /\ Len(b \o s) = Len(b) + Len(s)
        /\ \A i \in 1..Len(b) + Len(s) : (b \o s)[i] = IF i <= Len(b) THEN b[i] ELSE s[i - Len(b)]
    BY <1>8, <1>9, ConcatProperties
  <2> QED BY <1>8, <1>9, <2>1
<1>11. Closes(p \o (b \o s), f, t, x)
  BY <1>2, <1>9, <1>10, PrefixCloses
<1>12. Len(p \o (b \o s)) = 6 /\ (p \o (b \o s))[3] = e
  <2> DEFINE q == b \o s
  <2>1. q \in Seq(CallSet) /\ Len(q) = 5 /\ q[2] = e
    BY <1>10
  <2> HIDE DEF q
  <2>2. /\ Len(p \o q) = Len(p) + Len(q)
        /\ \A i \in 1..Len(p) + Len(q) : (p \o q)[i] = IF i <= Len(p) THEN p[i] ELSE q[i - Len(p)]
    BY <1>2, <2>1, ConcatProperties
  <2>3. Len(p \o q) = 6 /\ (p \o q)[3] = q[2]
    BY <1>2, <2>1, <2>2
  <2> QED BY <2>1, <2>3 DEF q
<1>13. Plan("compute_pnl_attribution", a) = p \o (b \o s)
  BY <1>2, <1>3 DEF b, s
<1> QED BY <1>5, <1>6, <1>11, <1>12, <1>13 DEF PnlPlan, t, x

\* evaluate_risk_limits asks for a limit, or calls what measures each that was supplied.
Includes(s, t) == \E i \in 1..Len(s) : s[i].tool = t
LimitPlan(a, s) == /\ a.given = {} => LastRefuses(s)
                   /\ \A limit \in a.given : Includes(s, Measures[limit])

LEMMA IncludesJoin ==
  ASSUME NEW p \in Seq(CallSet), NEW q \in Seq(CallSet), NEW t, Includes(p, t) \/ Includes(q, t)
  PROVE  Includes(p \o q, t)
<1>1. /\ Len(p \o q) = Len(p) + Len(q) /\ Len(p) \in Nat /\ Len(q) \in Nat
      /\ \A i \in 1..Len(p) + Len(q) : (p \o q)[i] = IF i <= Len(p) THEN p[i] ELSE q[i - Len(p)]
  BY ConcatProperties, LenProperties
<1>2. CASE Includes(p, t)
  <2>1. PICK i \in 1..Len(p) : p[i].tool = t
    BY <1>2 DEF Includes
  <2>2. i \in 1..Len(p) + Len(q) /\ (p \o q)[i] = p[i]
    BY <1>1, <2>1
  <2> QED BY <1>1, <2>1, <2>2 DEF Includes
<1>3. CASE Includes(q, t)
  <2>1. PICK i \in 1..Len(q) : q[i].tool = t
    BY <1>3 DEF Includes
  <2>2. i + Len(p) \in 1..Len(p) + Len(q) /\ (p \o q)[i + Len(p)] = q[i]
    BY <1>1, <2>1
  <2> QED BY <1>1, <2>1, <2>2 DEF Includes
<1> QED BY <1>2, <1>3

LEMMA LimitPlans ==
  ASSUME NEW a \in Arguments("evaluate_risk_limits")
  PROVE  LimitPlan(a, Plan("evaluate_risk_limits", a))
<1>1. a.curve_date \in 0..FinalDay /\ a.given \subseteq DOMAIN Measures
  BY ArgumentFacts
<1>2. PICK p \in Seq(CallSet) : Plan("evaluate_risk_limits", a) = p \o Workflows(a)["evaluate_risk_limits"]
  BY PlanPrefix DEF StrictNames
<1>3. CASE a.given = {}
  <2>1. Workflows(a)["evaluate_risk_limits"] = <<Call("needs")>>
    BY <1>3 DEF Workflows, RiskLimits, Refuse
  <2>2. Call("needs") \in CallSet /\ Call("needs").tool \in Refusals
    BY TypedPlain DEF PlainTools, Refusals
  <2>3. LastRefuses(Plan("evaluate_risk_limits", a))
    BY <1>2, <2>1, <2>2, LastOfJoin DEF LastRefuses
  <2> QED BY <1>3, <2>3 DEF LimitPlan
<1>4. CASE a.given # {}
  <2> DEFINE b == BookAndCurve(a)
             d == If("dv01_limit" \in a.given, <<Call("dv01")>>)
             v == If("var_limit" \in a.given, <<History, Call("historical_risk")>>)
             s == If("stress_limit" \in a.given, <<Call("rate_stress")>>)
             x == <<Call("evaluate_limits")>>
  <2>1. Workflows(a)["evaluate_risk_limits"] = b \o d \o v \o s \o x
    BY <1>1, <1>4 DEF Workflows, RiskLimits
  <2>2. b \in Seq(CallSet)
    BY <1>1, BookNoCurve
  <2>3. d \in Seq(CallSet) /\ ("dv01_limit" \in a.given => Includes(d, "dv01"))
    <3>1. Call("dv01") \in CallSet /\ Call("dv01").tool = "dv01"
      BY TypedPlain DEF PlainTools, EngineTools
    <3>2. <<Call("dv01")>> \in Seq(CallSet) /\ Includes(<<Call("dv01")>>, "dv01")
      BY <3>1 DEF Includes
    <3> QED BY <3>2, EmptySeq DEF If
  <2>4. v \in Seq(CallSet) /\ ("var_limit" \in a.given => Includes(v, "historical_risk"))
    <3>1. Call("historical_risk") \in CallSet /\ Call("historical_risk").tool = "historical_risk"
      BY TypedPlain DEF PlainTools, EngineTools
    <3>2. History \in CallSet
      BY HistoryCall DEF LateCalls, FitCalls
    <3> DEFINE w == <<History, Call("historical_risk")>>
    <3>3. w \in Seq(CallSet) /\ Len(w) = 2 /\ w[2].tool = "historical_risk"
      BY <3>1, <3>2
    <3> HIDE DEF w
    <3>4. Includes(w, "historical_risk")
      BY <3>3 DEF Includes
    <3> QED BY <3>3, <3>4, EmptySeq DEF If, w
  <2>5. s \in Seq(CallSet) /\ ("stress_limit" \in a.given => Includes(s, "rate_stress"))
    <3>1. Call("rate_stress") \in CallSet /\ Call("rate_stress").tool = "rate_stress"
      BY TypedPlain DEF PlainTools, EngineTools
    <3>2. <<Call("rate_stress")>> \in Seq(CallSet) /\ Includes(<<Call("rate_stress")>>, "rate_stress")
      BY <3>1 DEF Includes
    <3> QED BY <3>2, EmptySeq DEF If
  <2>6. x \in Seq(CallSet)
    <3>1. Call("evaluate_limits") \in CallSet
      BY TypedPlain DEF PlainTools, EngineTools
    <3> QED BY <3>1
  <2> HIDE DEF b, d, v, s, x
  <2>7. b \o d \in Seq(CallSet) /\ b \o d \o v \in Seq(CallSet) /\ b \o d \o v \o s \in Seq(CallSet)
        /\ b \o d \o v \o s \o x \in Seq(CallSet)
    BY <2>2, <2>3, <2>4, <2>5, <2>6, ConcatProperties
  <2>8. ASSUME NEW t, Includes(d, t) \/ Includes(v, t) \/ Includes(s, t)
        PROVE  Includes(Plan("evaluate_risk_limits", a), t)
    <3>1. Includes(d, t) => Includes(b \o d, t)
      BY <2>2, <2>3, IncludesJoin
    <3>2. Includes(d, t) \/ Includes(v, t) => Includes(b \o d \o v, t)
      BY <2>4, <2>7, <3>1, IncludesJoin
    <3>3. Includes(b \o d \o v \o s, t)
      BY <2>5, <2>7, <2>8, <3>2, IncludesJoin
    <3>4. Includes(b \o d \o v \o s \o x, t)
      BY <2>6, <2>7, <3>3, IncludesJoin
    <3>5. Includes(p \o (b \o d \o v \o s \o x), t)
      BY <1>2, <2>7, <3>4, IncludesJoin
    <3> QED BY <1>2, <2>1, <3>5
  <2>9. ASSUME NEW limit \in a.given
        PROVE  Includes(Plan("evaluate_risk_limits", a), Measures[limit])
    <3>1. limit \in {"dv01_limit", "var_limit", "stress_limit"}
      BY <1>1 DEF Measures
    <3>2. CASE limit = "dv01_limit"
      BY <2>3, <2>8, <3>2 DEF Measures
    <3>3. CASE limit = "var_limit"
      BY <2>4, <2>8, <3>3 DEF Measures
    <3>4. CASE limit = "stress_limit"
      BY <2>5, <2>8, <3>4 DEF Measures
    <3> QED BY <3>1, <3>2, <3>3, <3>4
  <2> QED BY <1>4, <2>9 DEF LimitPlan
<1> QED BY <1>3, <1>4

-----------------------------------------------------------------------------
(* RiskWorkflows: days and ranks.                                          *)

LEMMA CalendarBounds ==
  ASSUME NEW S \in SUBSET Calendar, S # {}
  PROVE  /\ Min(S) \in S /\ \A d \in S : Min(S) <= d
         /\ Max(S) \in S /\ \A d \in S : d <= Max(S)
<1>1. S \subseteq Nat /\ FinalDay \in Nat /\ \A d \in S : FinalDay - d \in Nat
  BY WfNumbers DEF Calendar
<1>2. PICK m \in S : \A d \in S : ~ (<<d, m>> \in OpToRel(<, Nat))
  BY <1>1, NatLessThanWellFounded, WFMin
<1>3. \A d \in S : ~ (d < m)
  BY <1>1, <1>2 DEF OpToRel
<1>4. \A d \in S : m <= d
  BY <1>1, <1>3
<1>5. Min(S) \in S /\ \A d \in S : Min(S) <= d
  BY <1>4 DEF Min
<1> DEFINE Off == {FinalDay - d : d \in S}
<1>6. Off \subseteq Nat /\ Off # {}
  BY <1>1
<1>7. PICK l \in Off : \A o \in Off : ~ (<<o, l>> \in OpToRel(<, Nat))
  BY <1>6, NatLessThanWellFounded, WFMin
<1>8. \A o \in Off : ~ (o < l)
  BY <1>6, <1>7 DEF OpToRel
<1>9. PICK x \in S : l = FinalDay - x
  BY <1>7
<1>10. \A d \in S : ~ (FinalDay - d < FinalDay - x)
  BY <1>8, <1>9
<1>11. \A d \in S : x >= d
  BY <1>1, <1>10
<1>12. Max(S) \in S /\ \A d \in S : Max(S) >= d
  BY <1>11 DEF Max
<1>13. \A d \in S : d <= Max(S)
  BY <1>1, <1>12
<1> QED BY <1>5, <1>12, <1>13

\* The place of a move among those of a ranking, from the earliest on
Place(R, e) == Cardinality({x \in R : x <= e})

LEMMA Places ==
  ASSUME NEW k \in Nat, NEW R \in SUBSET (1..k), NEW d \in R, NEW e \in R
  PROVE  /\ IsFiniteSet(R) /\ Place(R, e) \in 1..Cardinality(R)
         /\ d <= e => Place(R, d) <= Place(R, e)
         /\ d < e => Place(R, d) < Place(R, e)
<1> DEFINE D == {x \in R : x <= d}
           E == {x \in R : x <= e}
<1>1. IsFiniteSet(R)
  <2>1. IsFiniteSet(1..k)
    BY FS_Interval
  <2> QED BY <2>1, FS_Subset
<1>2. IsFiniteSet(D) /\ IsFiniteSet(E) /\ Cardinality(D) \in Nat /\ Cardinality(E) \in Nat /\ Cardinality(R) \in Nat
  BY <1>1, FS_Subset, FS_CardinalityType
<1>3. d \in D /\ e \in E /\ d \in 1..k /\ e \in 1..k /\ R \subseteq 1..k
  OBVIOUS
<1>4. Cardinality(E) # 0 /\ Cardinality(E) <= Cardinality(R)
  BY <1>1, <1>2, <1>3, FS_EmptySet, FS_Subset
<1>5. ASSUME d <= e
      PROVE  D \subseteq E
  <2>1. \A x \in R : x \in Nat /\ d \in Nat /\ e \in Nat
    BY <1>3
  <2>2. \A x \in R : x <= d => x <= e
    BY <1>5, <2>1
  <2> QED BY <2>2
<1>6. d <= e => Cardinality(D) <= Cardinality(E)
  BY <1>2, <1>5, FS_Subset
<1>7. ASSUME d < e
      PROVE  Cardinality(D) < Cardinality(E)
  <2>1. e \notin D /\ d <= e
    BY <1>3, <1>7
  <2>2. D \subseteq E /\ D # E
    BY <1>3, <1>5, <2>1
  <2>3. Cardinality(D) <= Cardinality(E) /\ Cardinality(E) # Cardinality(D)
    BY <1>2, <2>2, FS_Subset
  <2> QED BY <1>2, <2>3
<1>8. Cardinality(E) \in 1..Cardinality(R)
  BY <1>2, <1>4
<1> QED BY <1>1, <1>6, <1>7, <1>8 DEF Place

\* Moves that are put in order are all there, each after the one before it.
LEMMA SampleFacts ==
  ASSUME NEW n \in Nat, NEW k \in Nat, NEW ranked \in [1..n -> 1..k], IsInjective(ranked)
  PROVE  /\ Sample(ranked) \in [1..n -> 1..k]
         /\ \A i, j \in 1..n : i < j => Sample(ranked)[i] < Sample(ranked)[j]
<1> DEFINE R == Range(ranked)
<1>1. R \in SUBSET (1..k) /\ ranked \in [1..n -> R] /\ \A e \in R : \E i \in 1..n : ranked[i] = e
  BY DEF Range
<1>2. ranked \in Surjection(1..n, R) /\ ranked \in Injection(1..n, R)
  BY <1>1 DEF Surjection, Injection, IsInjective
<1>3. IsFiniteSet(1..n) /\ Cardinality(1..n) = n
  BY FS_Interval
<1> HIDE DEF R
<1>4. IsFiniteSet(R) /\ Cardinality(R) = n
  BY <1>2, <1>3, FS_Surjection
<1> DEFINE rank == [e \in R |-> Place(R, e)]
<1>5. rank \in [R -> 1..n]
  BY <1>1, <1>4, Places
<1>6. ASSUME NEW d \in R, NEW e \in R, rank[d] = rank[e]
      PROVE  d = e
  <2>1. d \in 1..k /\ e \in 1..k
    BY <1>1
  <2>2. Place(R, d) \in 1..n /\ Place(R, e) \in 1..n /\ Place(R, d) = Place(R, e)
    BY <1>1, <1>4, <1>6, Places
  <2>3. (d < e => Place(R, d) < Place(R, e)) /\ (e < d => Place(R, e) < Place(R, d))
    BY <1>1, Places
  <2>4. ~(d < e) /\ ~(e < d)
    BY <2>2, <2>3
  <2> QED BY <2>1, <2>4
<1>7. rank \in Injection(R, 1..n)
  <2>1. DOMAIN rank = R
    OBVIOUS
  <2> HIDE DEF rank
  <2> QED BY <1>5, <1>6, <2>1 DEF Injection, IsInjective
<1>8. rank \in Surjection(R, 1..n)
  <2> HIDE DEF rank
  <2> QED BY <1>3, <1>4, <1>7, FS_Injection
<1>9. \A i \in 1..n : \E e \in R : rank[e] = i
  <2> HIDE DEF rank
  <2> QED BY <1>8 DEF Surjection
<1> DEFINE s == [i \in 1..n |-> CHOOSE e \in R : rank[e] = i]
<1>10. \A i \in 1..n : s[i] \in R /\ rank[s[i]] = i
  <2> HIDE DEF rank
  <2> QED BY <1>9
<1>11. s \in [1..n -> R]
  <2>1. \A i \in 1..n : (CHOOSE e \in R : rank[e] = i) \in R
    BY <1>10
  <2> QED BY <2>1
<1>12. ASSUME NEW i \in 1..n, NEW j \in 1..n, i < j
       PROVE  s[i] < s[j]
  <2>1. s[i] \in R /\ s[j] \in R /\ Place(R, s[i]) = i /\ Place(R, s[j]) = j
    BY <1>10
  <2> HIDE DEF s
  <2>2. s[i] \in 1..k /\ s[j] \in 1..k
    BY <1>1, <2>1
  <2>3. ~(s[j] <= s[i])
    <3>1. s[j] <= s[i] => Place(R, s[j]) <= Place(R, s[i])
      BY <1>1, <2>1, Places
    <3> QED BY <1>12, <2>1, <3>1
  <2> QED BY <2>2, <2>3
<1> HIDE DEF s
<1>13. DOMAIN s = 1..n /\ DOMAIN ranked = 1..n
  BY <1>11
<1>14. \E z \in [DOMAIN ranked -> R] : \A i, j \in DOMAIN z : i < j => z[i] < z[j]
  BY <1>11, <1>12, <1>13
<1>15. Sample(ranked) \in [DOMAIN ranked -> R] /\ \A i, j \in DOMAIN Sample(ranked) : i < j => Sample(ranked)[i] < Sample(ranked)[j]
  <2>1. Sample(ranked) = CHOOSE z \in [DOMAIN ranked -> R] : \A i, j \in DOMAIN z : i < j => z[i] < z[j]
    BY DEF Sample, R
  <2> QED BY <1>14, <2>1
<1>16. Sample(ranked) \in [1..n -> R] /\ DOMAIN Sample(ranked) = 1..n
  BY <1>13, <1>15
<1> QED BY <1>1, <1>15, <1>16

-----------------------------------------------------------------------------
(* RiskWorkflows: the inductive invariant.                                 *)

CurveDays   == Calendar \ Holidays
SampleSet   == {<<>>} \cup [1..BacktestWindow -> 1..Moves]
OutcomeSet  == {"none", "result", "error", "raised"} \cup Refusals
ArgumentSet == {NoWorkflow.args} \cup UNION {Arguments(n) : n \in AllNames}
ToolSet     == PlainTools \cup Markets \cup DatingTools \cup {"history"}
WorkflowSet == [name : AllNames \cup {"none"}, args : ArgumentSet, left : Seq(CallSet),
                date : 0..FinalDay, curves : Seq(CurveDays), upTo : 0..FinalDay,
                called : SUBSET ToolSet, sample : SampleSet, outcome : OutcomeSet]
InOrder(s)  == \A i, j \in 1..Len(s) : i < j => s[i] < s[j]

\* A history is read once the valuation is dated, up to it, and nothing dates it anew.
DatedInv ==
    /\ published \in Loads
    /\ wf \in WorkflowSet
    /\ wf.name # "none" => wf.args \in Arguments(wf.name)
    /\ TwoPhased(wf.name, wf.args, wf.left)
    /\ wf.name = "none" => wf.left = <<>>
    /\ wf.outcome # "none" => wf.left = <<>>
    /\ wf.upTo # 0 => wf.left \in Seq(LateCalls(wf.name, wf.args))
    /\ AsAsked(wf.name, wf.args) => wf.date = 0
    /\ wf.args.curve_date # 0 => wf.date <= wf.args.curve_date
    /\ wf.upTo <= (IF wf.date = 0 THEN wf.args.curve_date ELSE wf.date)
    /\ InOrder(wf.sample)

Live == wf.outcome \in {"none", "result"}
\* The two curves of a replay, of which as many were read as are not left to be read
Following(w, f, t, x) ==
    /\ f.tool = "get_curve" /\ t.tool = "get_curve" /\ x.tool # "get_curve"
    /\ Len(w.left) >= 3 => w.curves = <<>> /\ Closes(w.left, f, t, x)
    /\ Len(w.left) = 2 => Len(w.curves) = 1 /\ w.left[1] = t /\ w.left[2] = x
    /\ Len(w.left) = 1 => Len(w.curves) = 2 /\ w.left[1] = x
    /\ Len(w.left) = 0 => Len(w.curves) = 2
StressInv == wf.name = "run_stress" /\ Live =>
    IF wf.args.start = 0 THEN wf.curves = <<>> /\ NoCurve(wf.left)
    ELSE \E x \in CallSet :
           /\ Following(wf, CurveOf("stated", wf.args.start, "previous"), CurveOf("stated", wf.args.end, "next"), x)
           /\ Len(wf.curves) >= 1 => wf.curves[1] <= wf.args.start
           /\ Len(wf.curves) = 2 => wf.args.end <= wf.curves[2]
HistoricalInv == wf.name = "run_historical_stress" /\ Live =>
    \/ wf.outcome = "none" /\ LastRefuses(wf.left)
    \/ \E from \in 1..FinalDay, to \in 1..FinalDay :
          /\ wf.args.given = {} => to = wf.args.end
          /\ Following(wf, CurveOn(from), CurveOn(to), Call("replay_forward"))
          /\ wf.outcome = "result" => wf.curves[1] < wf.curves[2]
          /\ Len(wf.curves) = 2 => wf.curves[2] <= to
PnlInv == wf.name = "compute_pnl_attribution" /\ Live =>
    /\ \E f \in CallSet :
          Following(wf, f, CurveOf("valuation", 0, "previous"), Call("pnl_attribution"))
    /\ wf.outcome = "result" => wf.curves[1] < wf.curves[2]
    /\ wf.args.end # 0 => /\ Len(wf.left) >= 4 => wf.left[Len(wf.left) - 3].tool = "stated_end"
                          /\ Len(wf.left) <= 3 => wf.date = wf.args.end
                          /\ Len(wf.curves) = 2 => wf.curves[2] <= wf.args.end
LimitInv == wf.name = "evaluate_risk_limits" /\ Live =>
    /\ wf.args.given = {} => wf.outcome = "none" /\ LastRefuses(wf.left)
    /\ \A limit \in wf.args.given : Measures[limit] \in wf.called \/ Includes(wf.left, Measures[limit])
RiskInv == DatedInv /\ StressInv /\ HistoricalInv /\ PnlInv /\ LimitInv

-----------------------------------------------------------------------------
(* RiskWorkflows: what is left.                                            *)

LEMMA CallsAreCalls ==
  ASSUME NEW n, NEW a
  PROVE  /\ FitCalls(n, a) \subseteq CallSet /\ EarlyCalls(n, a) \subseteq CallSet
         /\ LateCalls(n, a) \subseteq CallSet
BY DEF FitCalls, EarlyCalls, LateCalls

LEMMA PhasedCalls ==
  ASSUME NEW n, NEW a, NEW s, TwoPhased(n, a, s)
  PROVE  s \in Seq(FitCalls(n, a)) /\ s \in Seq(CallSet)
<1>1. PICK e \in Seq(EarlyCalls(n, a)), l \in Seq(LateCalls(n, a)) : s = e \o l
  BY DEF TwoPhased
<1>2. e \in Seq(FitCalls(n, a)) /\ l \in Seq(FitCalls(n, a))
  BY AllFit, SeqMonotonic
<1>3. s \in Seq(FitCalls(n, a))
  BY <1>1, <1>2, ConcatProperties
<1> QED BY <1>3, CallsAreCalls, SeqMonotonic

\* With the next call answered what is left still dates first, and a history is followed by no date.
LEMMA PhasedTail ==
  ASSUME NEW n, NEW a, NEW s, TwoPhased(n, a, s), s # <<>>
  PROVE  /\ Head(s) \in FitCalls(n, a)
         /\ TwoPhased(n, a, Tail(s))
         /\ Head(s).tool = "history" => Tail(s) \in Seq(LateCalls(n, a))
<1>1. PICK e \in Seq(EarlyCalls(n, a)), l \in Seq(LateCalls(n, a)) : s = e \o l
  BY DEF TwoPhased
<1>2. s \in Seq(FitCalls(n, a))
  BY PhasedCalls
<1>3. e \in Seq(FitCalls(n, a)) /\ l \in Seq(FitCalls(n, a))
  BY AllFit, SeqMonotonic
<1>4. CASE e = <<>>
  <2>1. s = l
    BY <1>1, <1>3, <1>4, ConcatEmptySeq
  <2>2. Tail(s) \in Seq(LateCalls(n, a))
    BY <2>1, HeadTailProperties
  <2> QED BY <1>2, <2>2, LateOnly, HeadTailProperties
<1>5. CASE e # <<>>
  <2>1. Tail(e) \in Seq(EarlyCalls(n, a)) /\ Head(e) \in EarlyCalls(n, a) /\ Len(Tail(e)) = Len(e) - 1
        /\ \A i \in 1..Len(Tail(e)) : Tail(e)[i] = e[i + 1]
    BY <1>5, HeadTailProperties
  <2>2. /\ Len(s) = Len(e) + Len(l) /\ Len(e) \in Nat \ {0} /\ Len(l) \in Nat
        /\ \A i \in 1..Len(e) + Len(l) : s[i] = IF i <= Len(e) THEN e[i] ELSE l[i - Len(e)]
    BY <1>1, <1>3, <1>5, ConcatProperties, LenProperties, EmptySeq
  <2>3. Head(s) = s[1] /\ Head(e) = e[1]
    BY <1>2, <1>3, <1>5
  <2>4. Head(s) = Head(e)
    BY <2>2, <2>3
  <2>5. Tail(s) = Tail(e) \o l
    <3>1. Tail(s) \in Seq(FitCalls(n, a)) /\ Len(Tail(s)) = Len(s) - 1 /\ \A i \in 1..Len(Tail(s)) : Tail(s)[i] = s[i + 1]
      BY <1>2, HeadTailProperties
    <3>2. Tail(e) \in Seq(FitCalls(n, a))
      BY <1>3, <1>5, HeadTailProperties
    <3>3. /\ Tail(e) \o l \in Seq(FitCalls(n, a)) /\ Len(Tail(e) \o l) = Len(Tail(e)) + Len(l)
          /\ \A i \in 1..Len(Tail(e)) + Len(l) : (Tail(e) \o l)[i] = IF i <= Len(Tail(e)) THEN Tail(e)[i] ELSE l[i - Len(Tail(e))]
      BY <1>3, <3>2, ConcatProperties
    <3>4. Len(Tail(s)) = Len(Tail(e) \o l)
      BY <2>1, <2>2, <3>1, <3>3
    <3>5. ASSUME NEW i \in 1..Len(Tail(s))
          PROVE  Tail(s)[i] = (Tail(e) \o l)[i]
      <4>1. i \in 1..(Len(e) - 1) + Len(l) /\ Tail(s)[i] = s[i + 1] /\ i + 1 \in 1..Len(e) + Len(l)
        BY <2>2, <3>1
      <4>2. CASE i + 1 <= Len(e)
        <5>1. s[i + 1] = e[i + 1] /\ i <= Len(Tail(e)) /\ i \in 1..Len(Tail(e)) /\ i \in 1..Len(Tail(e)) + Len(l)
          BY <2>1, <2>2, <4>1, <4>2
        <5> QED BY <2>1, <3>3, <4>1, <5>1
      <4>3. CASE ~(i + 1 <= Len(e))
        <5>1. s[i + 1] = l[(i + 1) - Len(e)]
          BY <2>2, <4>1, <4>3
        <5>2. ~(i <= Len(Tail(e))) /\ (i + 1) - Len(e) = i - Len(Tail(e)) /\ i \in 1..Len(Tail(e)) + Len(l)
          BY <2>1, <2>2, <4>1, <4>3
        <5>3. (Tail(e) \o l)[i] = l[i - Len(Tail(e))]
          BY <3>3, <5>2
        <5> QED BY <4>1, <5>1, <5>2, <5>3
      <4> QED BY <4>2, <4>3
    <3> QED BY <3>1, <3>3, <3>4, <3>5, SeqEqual
  <2>6. Head(s).tool # "history"
    BY <2>1, <2>4 DEF EarlyCalls
  <2>7. TwoPhased(n, a, Tail(s))
    BY <2>1, <2>5 DEF TwoPhased
  <2> QED BY <1>2, <2>6, <2>7, HeadTailProperties
<1> QED BY <1>4, <1>5

LEMMA NextCallFacts ==
  ASSUME DatedInv, Running
  PROVE  /\ wf.name \in AllNames /\ wf.args \in Arguments(wf.name)
         /\ NextCall \in FitCalls(wf.name, wf.args) /\ NextCall \in CallSet /\ NextCall = wf.left[1]
         /\ TwoPhased(wf.name, wf.args, Tail(wf.left))
         /\ NextCall.tool = "history" => Tail(wf.left) \in Seq(LateCalls(wf.name, wf.args))
         /\ wf.upTo # 0 => /\ NextCall \in LateCalls(wf.name, wf.args)
                           /\ Tail(wf.left) \in Seq(LateCalls(wf.name, wf.args))
         /\ wf.left \in Seq(CallSet) /\ Tail(wf.left) \in Seq(CallSet)
         /\ Len(wf.left) \in Nat \ {0} /\ Len(Tail(wf.left)) = Len(wf.left) - 1
         /\ \A i \in 1..(Len(wf.left) - 1) : Tail(wf.left)[i] = wf.left[i + 1]
<1>1. wf.left # <<>> /\ TwoPhased(wf.name, wf.args, wf.left) /\ wf.name # "none"
  BY DEF DatedInv, Running
<1>2. wf.name \in AllNames \cup {"none"} /\ (wf.name # "none" => wf.args \in Arguments(wf.name))
  BY DEF DatedInv, WorkflowSet
<1>3. wf.left \in Seq(CallSet)
  BY <1>1, PhasedCalls
<1>4. /\ NextCall \in FitCalls(wf.name, wf.args)
      /\ TwoPhased(wf.name, wf.args, Tail(wf.left))
      /\ NextCall.tool = "history" => Tail(wf.left) \in Seq(LateCalls(wf.name, wf.args))
  BY <1>1, PhasedTail DEF NextCall
<1>5. wf.upTo # 0 => wf.left \in Seq(LateCalls(wf.name, wf.args))
  BY DEF DatedInv
<1>6. wf.upTo # 0 => /\ NextCall \in LateCalls(wf.name, wf.args)
                     /\ Tail(wf.left) \in Seq(LateCalls(wf.name, wf.args))
  BY <1>1, <1>5, HeadTailProperties DEF NextCall
<1>7. Tail(wf.left) \in Seq(CallSet) /\ Len(Tail(wf.left)) = Len(wf.left) - 1
      /\ \A i \in 1..Len(Tail(wf.left)) : Tail(wf.left)[i] = wf.left[i + 1]
  BY <1>1, <1>3, HeadTailProperties
<1>8. Len(wf.left) \in Nat \ {0} /\ NextCall = wf.left[1]
  BY <1>1, <1>3, EmptySeq DEF NextCall
<1>9. NextCall \in CallSet
  BY <1>4, CallsAreCalls
<1> QED BY <1>1, <1>2, <1>3, <1>4, <1>6, <1>7, <1>8, <1>9

-----------------------------------------------------------------------------
(* RiskWorkflows: a call that answers.                                     *)

\* The day of a curve that was looked up for another one
DayFits(day) ==
    /\ NextCall.ref = "stated" /\ NextCall.day # 0 =>
          IF NextCall.policy = "next" THEN NextCall.day <= day ELSE day <= NextCall.day
    /\ NextCall.ref = "valuation" /\ wf.date # 0 /\ NextCall.policy = "previous" => day <= wf.date
AnswersCurve ==
    \/ /\ NextCall.tool # "get_curve" /\ wf'.curves = wf.curves
       /\ NextCall.tool \in {"replay_forward", "pnl_attribution"} => wf.curves[1] < wf.curves[2]
    \/ /\ NextCall.tool = "get_curve"
       /\ \E day \in CurveDays : wf'.curves = Append(wf.curves, day) /\ DayFits(day)
AnswersDate ==
    \/ NextCall.tool \notin DatingTools /\ wf'.date = wf.date
    \/ /\ NextCall.tool = "valuation_curve"
       /\ wf.args.curve_date # 0 => wf'.date <= wf.args.curve_date
    \/ NextCall.tool = "stated_end" /\ wf'.date = wf.args.end
AnswersHistory ==
    \/ NextCall.tool # "history" /\ wf'.upTo = wf.upTo
    \/ /\ NextCall.tool = "history"
       /\ wf'.upTo <= (IF wf.date = 0 THEN wf.args.curve_date ELSE wf.date)
Answering ==
    /\ Running /\ NextCall.tool \notin Refusals
    /\ published' = published
    /\ wf' \in WorkflowSet /\ wf'.name = wf.name /\ wf'.args = wf.args /\ wf'.left = Tail(wf.left)
    /\ wf'.called = wf.called \cup {NextCall.tool}
    /\ wf'.outcome = (IF Len(wf.left) = 1 THEN "result" ELSE "none")
    /\ AnswersCurve /\ AnswersDate /\ AnswersHistory
    /\ InOrder(wf'.sample)

LEMMA NumbersOf ==
  ASSUME NEW w \in WorkflowSet
  PROVE  /\ w.date \in 0..FinalDay /\ w.upTo \in 0..FinalDay /\ w.args.curve_date \in 0..FinalDay
         /\ w.curves \in Seq(CurveDays) /\ w.left \in Seq(CallSet) /\ w.outcome \in OutcomeSet
         /\ w.sample \in SampleSet /\ w.name \in AllNames \cup {"none"} /\ w.called \in SUBSET ToolSet
         /\ FinalDay \in Nat /\ CurveDays \subseteq 1..FinalDay
<1>1. /\ w.date \in 0..FinalDay /\ w.upTo \in 0..FinalDay /\ w.args \in ArgumentSet
      /\ w.curves \in Seq(CurveDays) /\ w.left \in Seq(CallSet) /\ w.outcome \in OutcomeSet
      /\ w.sample \in SampleSet /\ w.name \in AllNames \cup {"none"} /\ w.called \in SUBSET ToolSet
  BY DEF WorkflowSet
<1>2. w.args.curve_date \in 0..FinalDay
  <2>1. CASE w.args = NoWorkflow.args
    <3>1. NoWorkflow.args.curve_date = 0
      BY DEF NoWorkflow
    <3> QED BY <2>1, <3>1, WfNumbers
  <2>2. CASE \E n \in AllNames : w.args \in Arguments(n)
    BY <2>2, ArgumentFacts
  <2> QED BY <1>1, <2>1, <2>2 DEF ArgumentSet
<1>3. FinalDay \in Nat /\ CurveDays \subseteq 1..FinalDay
  BY WfNumbers DEF CurveDays, Calendar
<1> QED BY <1>1, <1>2, <1>3

LEMMA DatedKeeps ==
  ASSUME DatedInv, Answering
  PROVE  DatedInv'
<1> DEFINE n == wf.name
           a == wf.args
           c == NextCall
<1>1. /\ n \in AllNames /\ a \in Arguments(n) /\ c \in FitCalls(n, a)
      /\ TwoPhased(n, a, Tail(wf.left))
      /\ c.tool = "history" => Tail(wf.left) \in Seq(LateCalls(n, a))
      /\ wf.upTo # 0 => c \in LateCalls(n, a) /\ Tail(wf.left) \in Seq(LateCalls(n, a))
      /\ wf.left \in Seq(CallSet) /\ Len(wf.left) \in Nat \ {0} /\ Len(Tail(wf.left)) = Len(wf.left) - 1
      /\ Tail(wf.left) \in Seq(CallSet)
  BY NextCallFacts DEF Answering
<1>2. wf'.name = n /\ wf'.args = a /\ wf'.left = Tail(wf.left) /\ wf' \in WorkflowSet /\ published' = published
  BY DEF Answering
<1>3. /\ wf.date \in 0..FinalDay /\ wf.upTo \in 0..FinalDay /\ a.curve_date \in 0..FinalDay /\ FinalDay \in Nat
      /\ wf'.date \in 0..FinalDay /\ wf'.upTo \in 0..FinalDay
  BY <1>2, NumbersOf DEF DatedInv
<1>4. Fitting(n, a, c)
  BY <1>1 DEF FitCalls
<1>5. wf'.outcome # "none" => wf'.left = <<>>
  <2>1. ASSUME Len(wf.left) = 1
        PROVE  Tail(wf.left) = <<>>
    <3> DEFINE u == Tail(wf.left)
    <3>1. u \in Seq(CallSet) /\ Len(u) = 0
      BY <1>1, <2>1
    <3> HIDE DEF u
    <3>2. u = <<>>
      BY <3>1, EmptySeq
    <3> QED BY <3>2 DEF u
  <2> QED BY <1>2, <2>1 DEF Answering
<1>6. wf'.upTo # 0 => wf'.left \in Seq(LateCalls(n, a))
  BY <1>1, <1>2 DEF Answering, AnswersHistory
<1>7. /\ AsAsked(n, a) => wf'.date = 0
      /\ a.curve_date # 0 => wf'.date <= a.curve_date
  <2>1. (AsAsked(n, a) => wf.date = 0) /\ (a.curve_date # 0 => wf.date <= a.curve_date)
    BY DEF DatedInv
  <2>2. CASE c.tool \notin DatingTools /\ wf'.date = wf.date
    BY <2>1, <2>2
  <2>3. CASE c.tool = "valuation_curve" /\ (a.curve_date # 0 => wf'.date <= a.curve_date)
    BY <1>4, <2>3 DEF Fitting
  <2>4. CASE c.tool = "stated_end" /\ wf'.date = a.end
    <3>1. n = "compute_pnl_attribution"
      BY <1>4, <2>4 DEF Fitting
    <3>2. a.curve_date = 0
      BY <1>1, <3>1, ArgumentFacts
    <3> QED BY <3>1, <3>2 DEF AsAsked
  <2> QED BY <2>2, <2>3, <2>4 DEF Answering, AnswersDate
<1>8. wf'.upTo <= (IF wf'.date = 0 THEN a.curve_date ELSE wf'.date)
  <2>1. wf.upTo <= (IF wf.date = 0 THEN a.curve_date ELSE wf.date)
    BY DEF DatedInv
  <2>2. CASE c.tool = "history"
    <3>1. wf'.date = wf.date
      BY <2>2 DEF Answering, AnswersDate, DatingTools
    <3>2. wf'.upTo <= (IF wf.date = 0 THEN a.curve_date ELSE wf.date)
      BY <2>2 DEF Answering, AnswersHistory
    <3> QED BY <3>1, <3>2
  <2>3. CASE c.tool # "history"
    <3>1. wf'.upTo = wf.upTo
      BY <2>3 DEF Answering, AnswersHistory
    <3>2. CASE wf.upTo = 0
      BY <1>3, <3>1, <3>2
    <3>3. CASE wf.upTo # 0
      <4>1. c.tool \notin DatingTools
        BY <1>1, <3>3 DEF LateCalls
      <4>2. wf'.date = wf.date
        BY <4>1 DEF Answering, AnswersDate, DatingTools
      <4> QED BY <2>1, <3>1, <4>2
    <3> QED BY <3>2, <3>3
  <2> QED BY <2>2, <2>3
<1>9. published' \in Loads /\ InOrder(wf'.sample)
  BY <1>2 DEF DatedInv, Answering
<1>10. wf'.name # "none"
  <2>1. "none" \notin AllNames
    BY DEF AllNames, Workflows
  <2> QED BY <1>1, <1>2, <2>1
<1>11. TwoPhased(wf'.name, wf'.args, wf'.left) /\ wf'.args \in Arguments(wf'.name)
  BY <1>1, <1>2
<1>12. /\ wf'.upTo # 0 => wf'.left \in Seq(LateCalls(wf'.name, wf'.args))
       /\ AsAsked(wf'.name, wf'.args) => wf'.date = 0
       /\ wf'.args.curve_date # 0 => wf'.date <= wf'.args.curve_date
       /\ wf'.upTo <= (IF wf'.date = 0 THEN wf'.args.curve_date ELSE wf'.date)
  BY <1>2, <1>6, <1>7, <1>8
<1> QED BY <1>2, <1>5, <1>9, <1>10, <1>11, <1>12 DEF DatedInv, InOrder

LEMMA LiveBefore == Answering => Live
BY DEF Answering, Running, Live

\* The last call is none that refuses.
LEMMA NotRefusing ==
  ASSUME DatedInv, Answering, LastRefuses(wf.left)
  PROVE  wf'.outcome = "none" /\ LastRefuses(wf'.left)
<1> DEFINE s == wf.left
           k == Len(wf.left)
<1>1. /\ s \in Seq(CallSet) /\ k \in Nat \ {0} /\ NextCall = s[1] /\ Len(Tail(s)) = k - 1
      /\ \A i \in 1..(k - 1) : Tail(s)[i] = s[i + 1]
  BY NextCallFacts DEF Answering
<1>2. s[k].tool \in Refusals
  BY DEF LastRefuses, Answering, Running
<1>3. NextCall.tool \notin Refusals /\ wf'.left = Tail(s) /\ (k # 1 => wf'.outcome = "none")
  BY DEF Answering
<1> HIDE DEF s, k
<1>4. k # 1
  BY <1>1, <1>2, <1>3
<1>5. wf'.outcome = "none" /\ wf'.left = Tail(s)
  BY <1>3, <1>4
<1>6. Tail(s)[k - 1] = s[k]
  <2>1. k - 1 \in 1..(k - 1) /\ (k - 1) + 1 = k
    BY <1>1, <1>4
  <2> QED BY <1>1, <2>1
<1>7. LastRefuses(Tail(s))
  BY <1>1, <1>2, <1>6 DEF LastRefuses
<1> QED BY <1>5, <1>7 DEF s

LEMMA AppendSecond ==
  ASSUME NEW S, NEW c \in Seq(S), Len(c) = 1, NEW d \in S
  PROVE  Append(c, d) = <<c[1], d>>
<1> DEFINE e == Append(c, d)
<1>1. /\ e \in Seq(S) /\ Len(e) = Len(c) + 1 /\ e[Len(c) + 1] = d
      /\ \A i \in 1..Len(c) : e[i] = c[i]
  <2>0. c \in Seq(S) /\ d \in S
    OBVIOUS
  <2>1. Append(c, d) \in Seq(S) /\ Len(Append(c, d)) = Len(c) + 1
    BY ONLY <2>0, AppendProperties
  <2>2. Append(c, d)[Len(c) + 1] = d
    BY ONLY <2>0, AppendProperties
  <2>3. ASSUME NEW i \in 1..Len(c) PROVE Append(c, d)[i] = c[i]
    BY ONLY <2>0, <2>3, AppendProperties
  <2> QED BY <2>1, <2>2, <2>3
<1> HIDE DEF e
<1>2. c[1] \in S /\ 1 \in 1..Len(c) /\ Len(e) = 2 /\ e[1] = c[1] /\ e[2] = d
  <2>1. 1 \in 1..Len(c) /\ Len(c) + 1 = 2
    OBVIOUS
  <2>2. c[1] \in S
    BY <2>1, ElementOfSeq
  <2> QED BY <1>1, <2>1, <2>2
<1>3. <<c[1], d>> \in Seq(S) /\ Len(<<c[1], d>>) = 2
  BY <1>2
<1>4. \A i \in 1..2 : i = 1 \/ i = 2
  OBVIOUS
<1>5. \A i \in 1..2 : e[i] = <<c[1], d>>[i]
  BY <1>2, <1>4
<1>6. e = <<c[1], d>>
  BY <1>1, <1>2, <1>3, <1>5, SeqEqual
<1> QED BY <1>6 DEF e

\* One call answered: the curves that are read are those of the period, in their order.
LEMMA FollowingKeeps ==
  ASSUME DatedInv, Answering, NEW f, NEW t, NEW x, Following(wf, f, t, x)
  PROVE  /\ Following(wf', f, t, x)
         /\ Len(wf.left) >= 4 => NextCall.tool # "get_curve" /\ wf'.curves = <<>> /\ Len(wf'.curves) = 0
         /\ Len(wf.left) = 3 => NextCall = f /\ \E day \in CurveDays : DayFits(day) /\ wf'.curves = <<day>>
         /\ Len(wf.left) = 2 => NextCall = t /\ \E day \in CurveDays : DayFits(day) /\ wf'.curves = <<wf.curves[1], day>>
         /\ Len(wf.left) = 1 => NextCall = x /\ wf'.curves = wf.curves
<1> DEFINE s == wf.left
           k == Len(wf.left)
           u == Tail(wf.left)
<1>1. /\ s \in Seq(CallSet) /\ k \in Nat \ {0} /\ NextCall = s[1] /\ Len(u) = k - 1
      /\ u \in Seq(CallSet) /\ \A i \in 1..(k - 1) : u[i] = s[i + 1]
  BY NextCallFacts DEF Answering
<1>2. wf'.left = u /\ wf.curves \in Seq(CurveDays) /\ wf'.curves \in Seq(CurveDays)
  BY NumbersOf DEF Answering, DatedInv
<1>3. f.tool = "get_curve" /\ t.tool = "get_curve" /\ x.tool # "get_curve"
  BY DEF Following
<1>4. NextCall.tool # "get_curve" => wf'.curves = wf.curves
  BY DEF Answering, AnswersCurve
<1>5. NextCall.tool = "get_curve" => \E day \in CurveDays : wf'.curves = Append(wf.curves, day) /\ DayFits(day)
  BY DEF Answering, AnswersCurve
<1> HIDE DEF s, k, u
<1>6. CASE k >= 4
  <2>1. wf.curves = <<>> /\ Closes(s, f, t, x)
    BY <1>1, <1>6 DEF Following, s, k
  <2>2. 1 \in 1..(k - 3)
    BY <1>1, <1>6
  <2>3. NextCall.tool # "get_curve"
    BY <1>1, <2>1, <2>2 DEF Closes, k, s
  <2>4. wf'.curves = <<>>
    BY <1>4, <2>1, <2>3
  <2>5. Closes(u, f, t, x)
    <3>1. s[k - 2] = f /\ s[k - 1] = t /\ s[k] = x /\ \A i \in 1..(k - 3) : s[i].tool # "get_curve"
      BY <2>1 DEF Closes, s, k
    <3>2. u[k - 3] = s[k - 2] /\ u[k - 2] = s[k - 1] /\ u[k - 1] = s[k]
      BY <1>1, <1>6
    <3>3. \A i \in 1..(k - 4) : u[i].tool # "get_curve"
      <4>1. ASSUME NEW i \in 1..(k - 4)
            PROVE  u[i].tool # "get_curve"
        <5>1. i \in 1..(k - 1) /\ i + 1 \in 1..(k - 3)
          BY <1>1, <1>6
        <5> QED BY <1>1, <3>1, <5>1
      <4> QED BY <4>1
    <3>4. Len(u) >= 3 /\ Len(u) - 2 = k - 3 /\ Len(u) - 1 = k - 2 /\ Len(u) = k - 1 /\ Len(u) - 3 = k - 4
      BY <1>1, <1>6
    <3> QED BY <3>1, <3>2, <3>3, <3>4 DEF Closes
  <2>6. Len(u) # 2 /\ Len(u) # 1 /\ Len(u) # 0 /\ Len(wf'.left) = Len(u)
    BY <1>1, <1>2, <1>6
  <2>7. Following(wf', f, t, x)
    BY <1>2, <1>3, <2>4, <2>5, <2>6 DEF Following
  <2>8. Len(wf'.curves) = 0
    BY <2>4
  <2>9. k # 3 /\ k # 2 /\ k # 1
    BY <1>1, <1>6
  <2> QED BY <2>3, <2>4, <2>7, <2>8, <2>9 DEF k
<1>7. CASE k = 3
  <2>1. wf.curves = <<>> /\ Closes(s, f, t, x)
    BY <1>7 DEF Following, s, k
  <2>2. s[1] = f /\ s[2] = t /\ s[3] = x
    BY <1>7, <2>1 DEF Closes, s, k
  <2>3. NextCall = f /\ NextCall.tool = "get_curve"
    BY <1>1, <1>3, <2>2
  <2>4. PICK day \in CurveDays : wf'.curves = Append(wf.curves, day) /\ DayFits(day)
    BY <1>5, <2>3
  <2>5. wf'.curves = <<day>> /\ Len(wf'.curves) = 1
    BY <2>1, <2>4
  <2>6. Len(u) = 2 /\ u[1] = t /\ u[2] = x
    BY <1>1, <1>7, <2>2
  <2>7. Following(wf', f, t, x)
    BY <1>2, <1>3, <2>5, <2>6 DEF Following
  <2> QED BY <1>7, <2>3, <2>4, <2>5, <2>7 DEF k
<1>8. CASE k = 2
  <2>1. Len(wf.curves) = 1 /\ s[1] = t /\ s[2] = x
    BY <1>8 DEF Following, s, k
  <2>2. NextCall = t /\ NextCall.tool = "get_curve"
    BY <1>1, <1>3, <2>1
  <2>3. PICK day \in CurveDays : wf'.curves = Append(wf.curves, day) /\ DayFits(day)
    BY <1>5, <2>2
  <2>4. wf'.curves = <<wf.curves[1], day>> /\ Len(wf'.curves) = 2
    <3>1. Append(wf.curves, day) = <<wf.curves[1], day>>
      BY <1>2, <2>1, AppendSecond
    <3>2. Len(<<wf.curves[1], day>>) = 2
      OBVIOUS
    <3> QED BY <2>3, <3>1, <3>2
  <2>5. Len(u) = 1 /\ u[1] = x
    BY <1>1, <1>8, <2>1
  <2>6. Following(wf', f, t, x)
    BY <1>2, <1>3, <2>4, <2>5 DEF Following
  <2> QED BY <1>8, <2>2, <2>3, <2>4, <2>6 DEF k
<1>9. CASE k = 1
  <2>1. Len(wf.curves) = 2 /\ s[1] = x
    BY <1>9 DEF Following, s, k
  <2>2. NextCall = x /\ wf'.curves = wf.curves
    BY <1>1, <1>3, <1>4, <2>1
  <2>3. Len(u) = 0
    BY <1>1, <1>9
  <2>4. Following(wf', f, t, x)
    BY <1>2, <1>3, <2>1, <2>2, <2>3 DEF Following
  <2> QED BY <1>9, <2>2, <2>4 DEF k
<1>10. k >= 4 \/ k = 3 \/ k = 2 \/ k = 1
  BY <1>1
<1> QED BY <1>6, <1>7, <1>8, <1>9, <1>10

LEMMA OneDay ==
  ASSUME NEW d
  PROVE  Len(<<d>>) = 1 /\ <<d>>[1] = d
OBVIOUS

LEMMA TwoDays ==
  ASSUME NEW c, NEW d
  PROVE  Len(<<c, d>>) = 2 /\ <<c, d>>[1] = c /\ <<c, d>>[2] = d
OBVIOUS

LEMMA StressKeeps ==
  ASSUME DatedInv, Answering, StressInv
  PROVE  StressInv'
<1> SUFFICES ASSUME wf.name = "run_stress"
             PROVE  StressInv'
  BY DEF Answering, StressInv
<1>1. wf'.args = wf.args /\ wf'.left = Tail(wf.left) /\ Live
  BY LiveBefore DEF Answering
<1>2. wf.args \in Arguments("run_stress")
  BY NextCallFacts DEF Answering
<1> PICK a \in Arguments("run_stress") : a = wf.args
  BY <1>2
<1> DEFINE f == CurveOf("stated", a.start, "previous")
           t == CurveOf("stated", a.end, "next")
<1>3. a.start \in 0..FinalDay /\ a.end \in 0..FinalDay /\ ((a.start = 0 /\ a.end = 0) \/ (0 < a.start /\ a.start < a.end))
  BY ArgumentFacts
<1>4. CASE a.start = 0
  <2>1. wf.curves = <<>> /\ NoCurve(wf.left)
    BY <1>1, <1>4 DEF StressInv
  <2>2. /\ Len(wf.left) \in Nat \ {0} /\ NextCall = wf.left[1] /\ Len(Tail(wf.left)) = Len(wf.left) - 1
        /\ \A i \in 1..(Len(wf.left) - 1) : Tail(wf.left)[i] = wf.left[i + 1]
    BY NextCallFacts DEF Answering
  <2>3. NextCall.tool # "get_curve"
    BY <2>1, <2>2 DEF NoCurve
  <2>4. wf'.curves = <<>>
    BY <2>1, <2>3 DEF Answering, AnswersCurve
  <2>5. ASSUME NEW i \in 1..Len(Tail(wf.left))
        PROVE  Tail(wf.left)[i].tool # "get_curve"
    <3> DEFINE k == Len(wf.left)
    <3>1. k \in Nat \ {0} /\ i \in 1..(k - 1)
      BY <2>2
    <3> HIDE DEF k
    <3>2. i + 1 \in 1..k
      BY <3>1
    <3>3. wf.left[i + 1].tool # "get_curve"
      BY <2>1, <3>2 DEF NoCurve, k
    <3> QED BY <2>2, <3>1, <3>3 DEF k
  <2>6. NoCurve(wf'.left)
    BY <1>1, <2>5 DEF NoCurve
  <2> QED BY <1>1, <1>4, <2>4, <2>6 DEF StressInv
<1>5. CASE a.start # 0
  <2>1. PICK x \in CallSet : /\ Following(wf, f, t, x)
                             /\ Len(wf.curves) >= 1 => wf.curves[1] <= a.start
                             /\ Len(wf.curves) = 2 => a.end <= wf.curves[2]
    BY <1>1, <1>5 DEF StressInv
  <2>2. /\ f.ref = "stated" /\ f.day = a.start /\ f.policy = "previous"
        /\ t.ref = "stated" /\ t.day = a.end /\ t.policy = "next"
    BY DEF CurveOf, CallOn
  <2>3. Following(wf', f, t, x)
    BY <2>1, FollowingKeeps
  <2> DEFINE k == Len(wf.left)
  <2>4. k \in Nat \ {0}
    BY NextCallFacts DEF Answering
  <2>5. /\ Len(wf'.curves) >= 1 => wf'.curves[1] <= a.start
        /\ Len(wf'.curves) = 2 => a.end <= wf'.curves[2]
    <3>1. CASE k >= 4
      <4>1. Len(wf'.curves) = 0
        BY <2>1, <3>1, FollowingKeeps
      <4> QED BY <4>1
    <3>2. CASE k = 3
      <4>1. NextCall = f /\ \E day \in CurveDays : DayFits(day) /\ wf'.curves = <<day>>
        BY <2>1, <3>2, FollowingKeeps
      <4>2. PICK day \in CurveDays : DayFits(day) /\ wf'.curves = <<day>>
        BY <4>1
      <4>3. day <= a.start
        BY <1>5, <2>2, <4>1, <4>2 DEF DayFits
      <4> QED BY <4>2, <4>3, OneDay
    <3>3. CASE k = 2
      <4>1. NextCall = t /\ \E day \in CurveDays : DayFits(day) /\ wf'.curves = <<wf.curves[1], day>>
        BY <2>1, <3>3, FollowingKeeps
      <4>2. PICK day \in CurveDays : DayFits(day) /\ wf'.curves = <<wf.curves[1], day>>
        BY <4>1
      <4>3. a.end <= day
        BY <1>3, <1>5, <2>2, <4>1, <4>2 DEF DayFits
      <4>4. wf.curves[1] <= a.start
        BY <2>1, <3>3 DEF Following
      <4> QED BY <4>2, <4>3, <4>4, TwoDays
    <3>4. CASE k = 1
      <4>1. wf'.curves = wf.curves
        BY <2>1, <3>4, FollowingKeeps
      <4> QED BY <2>1, <4>1
    <3> HIDE DEF k
    <3>5. k >= 4 \/ k = 3 \/ k = 2 \/ k = 1
      BY <2>4
    <3> QED BY <3>1, <3>2, <3>3, <3>4, <3>5
  <2>6. wf'.args = a
    BY <1>1
  <2> QED BY <1>5, <2>3, <2>5, <2>6 DEF StressInv
<1> QED BY <1>4, <1>5

LEMMA HistoricalKeeps ==
  ASSUME DatedInv, Answering, HistoricalInv
  PROVE  HistoricalInv'
<1> SUFFICES ASSUME wf.name = "run_historical_stress"
             PROVE  HistoricalInv'
  BY DEF Answering, HistoricalInv
<1>1. wf'.args = wf.args /\ wf'.left = Tail(wf.left) /\ Live
  BY LiveBefore DEF Answering
<1> PICK a \in Arguments("run_historical_stress") : a = wf.args
  BY NextCallFacts DEF Answering
<1>2. CASE LastRefuses(wf.left)
  BY <1>2, NotRefusing DEF HistoricalInv
<1>3. CASE ~LastRefuses(wf.left)
  <2>1. PICK from \in 1..FinalDay, to \in 1..FinalDay :
           /\ a.given = {} => to = a.end
           /\ Following(wf, CurveOn(from), CurveOn(to), Call("replay_forward"))
           /\ Len(wf.curves) = 2 => wf.curves[2] <= to
    BY <1>1, <1>3 DEF HistoricalInv
  <2> DEFINE f == CurveOn(from)
             t == CurveOn(to)
             x == Call("replay_forward")
             k == Len(wf.left)
  <2>2. t.ref = "stated" /\ t.day = to /\ t.policy = "previous" /\ to # 0 /\ x.tool = "replay_forward"
    BY WfNumbers DEF CurveOn, CurveOf, CallOn, Call
  <2>3. Following(wf, f, t, x)
    BY <2>1
  <2> HIDE DEF f, t, x
  <2>4. Following(wf', f, t, x)
    BY <2>3, FollowingKeeps
  <2>5. k \in Nat \ {0} /\ (wf'.outcome = "result" => k = 1)
    BY NextCallFacts DEF Answering
  <2>6. ASSUME k = 1
        PROVE  wf'.curves = wf.curves /\ wf.curves[1] < wf.curves[2]
    <3>1. NextCall = x /\ wf'.curves = wf.curves
      BY <2>3, <2>6, FollowingKeeps
    <3> QED BY <2>2, <3>1 DEF Answering, AnswersCurve
  <2>7. Len(wf'.curves) = 2 => wf'.curves[2] <= to
    <3>1. CASE k >= 4
      <4>1. Len(wf'.curves) = 0
        BY <2>3, <3>1, FollowingKeeps
      <4> QED BY <4>1
    <3>2. CASE k = 3
      <4>1. PICK day \in CurveDays : wf'.curves = <<day>>
        BY <2>3, <3>2, FollowingKeeps
      <4> QED BY <4>1, OneDay
    <3>3. CASE k = 2
      <4>1. NextCall = t /\ \E day \in CurveDays : DayFits(day) /\ wf'.curves = <<wf.curves[1], day>>
        BY <2>3, <3>3, FollowingKeeps
      <4>2. PICK day \in CurveDays : DayFits(day) /\ wf'.curves = <<wf.curves[1], day>>
        BY <4>1
      <4>3. day <= to
        BY <2>2, <4>1, <4>2 DEF DayFits
      <4> QED BY <4>2, <4>3, TwoDays
    <3>4. CASE k = 1
      BY <2>1, <2>6, <3>4
    <3> HIDE DEF k
    <3>5. k >= 4 \/ k = 3 \/ k = 2 \/ k = 1
      BY <2>5
    <3> QED BY <3>1, <3>2, <3>3, <3>4, <3>5
  <2>8. wf'.outcome = "result" => wf'.curves[1] < wf'.curves[2]
    BY <2>5, <2>6
  <2>9. wf'.args = a
    BY <1>1
  <2> QED BY <2>1, <2>4, <2>7, <2>8, <2>9 DEF HistoricalInv, f, t, x
<1> QED BY <1>2, <1>3

LEMMA PnlKeeps ==
  ASSUME DatedInv, Answering, PnlInv
  PROVE  PnlInv'
<1> SUFFICES ASSUME wf.name = "compute_pnl_attribution"
             PROVE  PnlInv'
  BY DEF Answering, PnlInv
<1>1. wf'.args = wf.args /\ wf'.left = Tail(wf.left) /\ Live
  BY LiveBefore DEF Answering
<1> PICK a \in Arguments("compute_pnl_attribution") : a = wf.args
  BY NextCallFacts DEF Answering
<1> DEFINE t == CurveOf("valuation", 0, "previous")
           x == Call("pnl_attribution")
           k == Len(wf.left)
<1>2. PICK f \in CallSet : Following(wf, f, t, x)
  BY <1>1 DEF PnlInv
<1>3. t.ref = "valuation" /\ t.policy = "previous" /\ t.tool = "get_curve" /\ x.tool = "pnl_attribution"
  BY DEF CurveOf, CallOn, Call
<1> HIDE DEF t, x
<1>4. Following(wf', f, t, x) /\ f.tool = "get_curve"
  <2>1. Following(wf', f, t, x)
    BY ONLY DatedInv, Answering, <1>2, FollowingKeeps
  <2>2. f.tool = "get_curve"
    BY <1>2 DEF Following
  <2> QED BY <2>1, <2>2
<1>5. /\ k \in Nat \ {0} /\ (wf'.outcome = "result" => k = 1) /\ NextCall = wf.left[1]
      /\ Len(wf'.left) = k - 1 /\ \A i \in 1..(k - 1) : wf'.left[i] = wf.left[i + 1]
  BY <1>1, NextCallFacts DEF Answering
<1>6. ASSUME k = 1
      PROVE  wf'.curves = wf.curves /\ wf.curves[1] < wf.curves[2] /\ NextCall.tool = "pnl_attribution"
  <2>1. NextCall = x /\ wf'.curves = wf.curves
    BY <1>2, <1>6, FollowingKeeps
  <2> QED BY <1>3, <2>1 DEF Answering, AnswersCurve
<1>7. ASSUME a.end # 0
      PROVE  /\ k - 1 >= 4 => wf'.left[(k - 1) - 3].tool = "stated_end"
             /\ k - 1 <= 3 => wf'.date = a.end
             /\ Len(wf'.curves) = 2 => wf'.curves[2] <= a.end
  <2>1. /\ k >= 4 => wf.left[k - 3].tool = "stated_end"
        /\ k <= 3 => wf.date = a.end
        /\ Len(wf.curves) = 2 => wf.curves[2] <= a.end
    BY <1>1, <1>7 DEF PnlInv
  <2>2. ASSUME k <= 3
        PROVE  NextCall.tool \notin DatingTools
    <3> HIDE DEF k
    <3>1. k = 3 \/ k = 2 \/ k = 1
      BY <1>5, <2>2
    <3>2. CASE k = 3
      <4>1. NextCall = f
        BY <1>2, <3>2, FollowingKeeps DEF k
      <4> QED BY <1>4, <4>1 DEF DatingTools
    <3>3. CASE k = 2
      <4>1. NextCall = t
        BY <1>2, <3>3, FollowingKeeps DEF k
      <4> QED BY <1>3, <4>1 DEF DatingTools
    <3>4. CASE k = 1
      BY <1>6, <3>4 DEF DatingTools
    <3> QED BY <3>1, <3>2, <3>3, <3>4
  <2>3. k <= 3 => wf'.date = a.end
    BY <2>1, <2>2 DEF Answering, AnswersDate, DatingTools
  <2>4. k = 4 => wf'.date = a.end
    <3>1. ASSUME k = 4
          PROVE  NextCall.tool = "stated_end"
      BY <1>5, <2>1, <3>1
    <3> QED BY <3>1 DEF Answering, AnswersDate, DatingTools
  <2>5. ASSUME k - 1 >= 4
        PROVE  wf'.left[(k - 1) - 3].tool = "stated_end"
    <3> HIDE DEF k
    <3>1. (k - 1) - 3 \in 1..(k - 1) /\ ((k - 1) - 3) + 1 = k - 3 /\ k >= 4
      BY <1>5, <2>5
    <3> QED BY <1>5, <2>1, <3>1
  <2>6. ASSUME k - 1 <= 3
        PROVE  wf'.date = a.end
    <3> HIDE DEF k
    <3>1. k <= 3 \/ k = 4
      BY <1>5, <2>6
    <3> QED BY <2>3, <2>4, <3>1
  <2>7. Len(wf'.curves) = 2 => wf'.curves[2] <= a.end
    <3>1. CASE k >= 4
      <4>1. Len(wf'.curves) = 0
        BY <1>2, <3>1, FollowingKeeps
      <4> QED BY <4>1
    <3>2. CASE k = 3
      <4>1. PICK day \in CurveDays : wf'.curves = <<day>>
        BY <1>2, <3>2, FollowingKeeps
      <4> QED BY <4>1, OneDay
    <3>3. CASE k = 2
      <4>1. NextCall = t /\ \E day \in CurveDays : DayFits(day) /\ wf'.curves = <<wf.curves[1], day>>
        BY <1>2, <3>3, FollowingKeeps
      <4>2. PICK day \in CurveDays : DayFits(day) /\ wf'.curves = <<wf.curves[1], day>>
        BY <4>1
      <4>3. wf.date = a.end
        BY <2>1, <3>3
      <4>4. day <= a.end
        BY <1>3, <1>7, <4>1, <4>2, <4>3 DEF DayFits
      <4> QED BY <4>2, <4>4, TwoDays
    <3>4. CASE k = 1
      BY <1>6, <2>1, <3>4
    <3> HIDE DEF k
    <3>5. k >= 4 \/ k = 3 \/ k = 2 \/ k = 1
      BY <1>5
    <3> QED BY <3>1, <3>2, <3>3, <3>4, <3>5
  <2> QED BY <2>5, <2>6, <2>7
<1>8. wf'.outcome = "result" => wf'.curves[1] < wf'.curves[2]
  BY <1>5, <1>6
<1>9. wf'.args = a
  BY <1>1
<1>10. a.end # 0 => /\ Len(wf'.left) >= 4 => wf'.left[Len(wf'.left) - 3].tool = "stated_end"
                    /\ Len(wf'.left) <= 3 => wf'.date = a.end
                    /\ Len(wf'.curves) = 2 => wf'.curves[2] <= a.end
  BY <1>5, <1>7
<1>11. \E g \in CallSet : Following(wf', g, CurveOf("valuation", 0, "previous"), Call("pnl_attribution"))
  BY <1>4 DEF t, x
<1> HIDE DEF k
<1> QED BY <1>8, <1>9, <1>10, <1>11 DEF PnlInv

LEMMA LimitKeeps ==
  ASSUME DatedInv, Answering, LimitInv
  PROVE  LimitInv'
<1> SUFFICES ASSUME wf.name = "evaluate_risk_limits"
             PROVE  LimitInv'
  BY DEF Answering, LimitInv
<1>1. wf'.args = wf.args /\ wf'.left = Tail(wf.left) /\ Live /\ wf'.called = wf.called \cup {NextCall.tool}
  BY LiveBefore DEF Answering
<1>2. wf.args.given = {} => wf'.outcome = "none" /\ LastRefuses(wf'.left)
  BY <1>1, NotRefusing DEF LimitInv
<1>3. ASSUME NEW limit \in wf.args.given
      PROVE  Measures[limit] \in wf'.called \/ Includes(wf'.left, Measures[limit])
  <2> DEFINE m == Measures[limit]
             k == Len(wf.left)
  <2>1. m \in wf.called \/ Includes(wf.left, m)
    BY <1>1 DEF LimitInv
  <2>2. /\ k \in Nat \ {0} /\ NextCall = wf.left[1] /\ Len(Tail(wf.left)) = k - 1
        /\ \A i \in 1..(k - 1) : Tail(wf.left)[i] = wf.left[i + 1]
    BY NextCallFacts DEF Answering
  <2>3. CASE m \in wf.called
    BY <1>1, <2>3
  <2>4. CASE Includes(wf.left, m)
    <3>1. PICK i \in 1..k : wf.left[i].tool = m
      BY <2>4 DEF Includes
    <3> HIDE DEF m, k
    <3>2. CASE i = 1
      <4>1. m \in wf'.called
        BY <1>1, <2>2, <3>1, <3>2
      <4> QED BY <4>1 DEF m
    <3>3. CASE i # 1
      <4>1. i - 1 \in 1..(k - 1) /\ (i - 1) + 1 = i
        BY <2>2, <3>1, <3>3
      <4>2. Tail(wf.left)[i - 1].tool = m
        BY <2>2, <3>1, <4>1
      <4>3. Includes(wf'.left, m)
        BY <1>1, <2>2, <4>1, <4>2 DEF Includes
      <4> QED BY <4>3 DEF m
    <3> QED BY <3>2, <3>3
  <2> QED BY <2>1, <2>3, <2>4
<1> QED BY <1>1, <1>2, <1>3 DEF LimitInv

-----------------------------------------------------------------------------
(* RiskWorkflows: the steps.                                               *)

LEMMA LoadedDays ==
  ASSUME NEW p \in Loads
  PROVE  p \subseteq CurveDays /\ p \in SUBSET Calendar
BY DEF Loads, CurveDays

\* A day in the coverage resolves to a published one, on its side of it.
LEMMA ResolveFacts ==
  ASSUME published \in Loads, NEW d \in Int, NEW policy, Covered(d)
  PROVE  /\ Resolve(d, policy) \in published
         /\ d # 0 => IF policy = "next" THEN d <= Resolve(d, policy) ELSE Resolve(d, policy) <= d
<1>1. published \in SUBSET Calendar /\ published # {} /\ \A e \in published : e \in Nat
  BY LoadedDays, WfNumbers DEF Covered, Calendar
<1>2. /\ Min(published) \in published /\ Max(published) \in published
      /\ \A e \in published : Min(published) <= e /\ e <= Max(published)
  BY <1>1, CalendarBounds
<1>3. CASE d = 0
  BY <1>2, <1>3 DEF Resolve
<1>4. CASE d # 0 /\ policy = "next"
  <2> DEFINE S == {e \in published : e >= d}
  <2>1. Max(published) \in S
    <3>1. d <= Max(published)
      BY <1>4 DEF Covered
    <3>2. Max(published) >= d
      BY <1>1, <1>2, <3>1
    <3> QED BY <1>2, <3>2
  <2>2. S \in SUBSET Calendar /\ S # {}
    BY <1>1, <2>1
  <2>3. Min(S) \in S
    BY <2>2, CalendarBounds
  <2>4. Min(S) \in published /\ Min(S) >= d
    BY <2>3
  <2>5. Resolve(d, policy) = Min(S)
    BY <1>4 DEF Resolve
  <2> HIDE DEF S
  <2>6. d <= Min(S)
    BY <1>1, <2>4
  <2> QED BY <1>4, <2>4, <2>5, <2>6
<1>5. CASE d # 0 /\ policy # "next"
  <2> DEFINE S == UpTo(d)
  <2>1. Min(published) \in S
    <3>1. Min(published) <= d
      BY <1>5 DEF Covered
    <3> QED BY <1>2, <3>1 DEF UpTo
  <2>2. S \in SUBSET Calendar /\ S # {}
    BY <1>1, <2>1 DEF UpTo
  <2>3. Max(S) \in S
    BY <2>2, CalendarBounds
  <2>4. Max(S) \in published /\ Max(S) <= d
    BY <2>3 DEF UpTo
  <2>5. Resolve(d, policy) = Max(S)
    BY <1>5 DEF Resolve
  <2> QED BY <1>5, <2>4, <2>5
<1> QED BY <1>3, <1>4, <1>5

\* What an answer changes
LEMMA AnsweredFields ==
  ASSUME DatedInv, Running
  PROVE  /\ Answered \in WorkflowSet
         /\ Answered.name = wf.name /\ Answered.args = wf.args /\ Answered.left = Tail(wf.left)
         /\ Answered.called = wf.called \cup {NextCall.tool}
         /\ Answered.outcome = (IF Len(wf.left) = 1 THEN "result" ELSE "none")
         /\ Answered.date = wf.date /\ Answered.curves = wf.curves /\ Answered.upTo = wf.upTo
         /\ Answered.sample = wf.sample
<1>1. wf \in WorkflowSet /\ Tail(wf.left) \in Seq(CallSet) /\ NextCall \in CallSet
  BY NextCallFacts DEF DatedInv
<1>2. NextCall.tool \in ToolSet
  BY <1>1 DEF CallSet, ToolSet
<1>3. wf.called \cup {NextCall.tool} \in SUBSET ToolSet
  BY <1>1, <1>2, NumbersOf
<1>4. (IF Len(wf.left) = 1 THEN "result" ELSE "none") \in OutcomeSet
  BY DEF OutcomeSet
<1> QED BY <1>1, <1>3, <1>4 DEF Answered, WorkflowSet

LEMMA GetCurveAnswers == ASSUME DatedInv, GetCurve PROVE Answering
<1> DEFINE c == NextCall
           A == Answered
           day == Resolve(DayOf(c), c.policy)
<1>1. Running /\ c.tool \in Markets /\ Covered(DayOf(c)) /\ published' = published /\ published \in Loads
  BY DEF GetCurve, DatedInv
<1>2. /\ c \in FitCalls(wf.name, wf.args) /\ c \in CallSet
      /\ wf \in WorkflowSet /\ InOrder(wf.sample)
  BY <1>1, NextCallFacts DEF DatedInv
<1>3. /\ A \in WorkflowSet /\ A.name = wf.name /\ A.args = wf.args /\ A.left = Tail(wf.left)
      /\ A.called = wf.called \cup {NextCall.tool}
      /\ A.outcome = (IF Len(wf.left) = 1 THEN "result" ELSE "none")
      /\ A.date = wf.date /\ A.curves = wf.curves /\ A.upTo = wf.upTo /\ A.sample = wf.sample
  BY <1>1, AnsweredFields
<1>4. wf' = IF c.tool = "valuation_curve" THEN [A EXCEPT !.date = day]
            ELSE [A EXCEPT !.curves = Append(@, day)]
  BY DEF GetCurve
<1>5. Fitting(wf.name, wf.args, c) /\ c.day \in 0..FinalDay /\ c.ref \in {"none", "stated", "valuation", "lookback"}
  BY <1>2 DEF FitCalls, CallSet
<1>6. wf.date \in 0..FinalDay /\ FinalDay \in Nat /\ LookbackDays \in Nat /\ CurveDays \subseteq 1..FinalDay
      /\ wf.curves \in Seq(CurveDays)
  BY <1>2, NumbersOf, WfNumbers
<1>7. c.ref # "none"
  BY <1>1, <1>5 DEF Fitting, Markets
<1>8. /\ DayOf(c) \in Int
      /\ c.ref = "stated" => DayOf(c) = c.day
      /\ c.ref = "valuation" => DayOf(c) = wf.date
  BY <1>5, <1>6, <1>7 DEF DayOf
<1>9. day \in CurveDays /\ (DayOf(c) # 0 => IF c.policy = "next" THEN DayOf(c) <= day ELSE day <= DayOf(c))
  BY <1>1, <1>8, ResolveFacts, LoadedDays
<1>10. c.tool \notin Refusals /\ c.tool # "history" /\ c.tool # "stated_end"
  BY <1>1 DEF Markets, Refusals
<1> HIDE DEF A, c, day
<1>11. CASE c.tool = "valuation_curve"
  <2>1. wf' = [A EXCEPT !.date = day]
    BY <1>4, <1>11
  <2>2. day \in 0..FinalDay
    BY <1>6, <1>9
  <2>3. /\ wf' \in WorkflowSet /\ wf'.date = day /\ wf'.name = A.name /\ wf'.args = A.args /\ wf'.left = A.left
        /\ wf'.called = A.called /\ wf'.outcome = A.outcome /\ wf'.curves = A.curves /\ wf'.upTo = A.upTo
        /\ wf'.sample = A.sample
    BY <1>3, <2>1, <2>2 DEF WorkflowSet
  <2>4. wf.args.curve_date # 0 => day <= wf.args.curve_date
    <3>1. c.ref = "stated" /\ c.day = wf.args.curve_date /\ c.policy = "previous"
      BY <1>5, <1>11 DEF Fitting
    <3> QED BY <1>8, <1>9, <3>1
  <2>5. AnswersDate
    BY <1>11, <2>3, <2>4 DEF AnswersDate, c
  <2>6. AnswersCurve /\ AnswersHistory
    BY <1>3, <1>11, <2>3 DEF AnswersCurve, AnswersHistory, c
  <2> QED BY <1>1, <1>2, <1>3, <1>10, <2>3, <2>5, <2>6 DEF Answering, c
<1>12. CASE c.tool # "valuation_curve"
  <2>1. wf' = [A EXCEPT !.curves = Append(@, day)] /\ c.tool = "get_curve"
    BY <1>1, <1>4, <1>12 DEF Markets, c
  <2>2. Append(wf.curves, day) \in Seq(CurveDays)
    BY <1>6, <1>9
  <2>3. /\ wf' \in WorkflowSet /\ wf'.curves = Append(wf.curves, day) /\ wf'.name = A.name /\ wf'.args = A.args
        /\ wf'.left = A.left /\ wf'.called = A.called /\ wf'.outcome = A.outcome /\ wf'.date = A.date
        /\ wf'.upTo = A.upTo /\ wf'.sample = A.sample
    BY <1>3, <2>1, <2>2 DEF WorkflowSet
  <2>4. DayFits(day)
    BY <1>8, <1>9 DEF DayFits, c
  <2>5. AnswersCurve
    BY <1>9, <2>1, <2>3, <2>4 DEF AnswersCurve, c
  <2>6. AnswersDate /\ AnswersHistory
    BY <1>3, <2>1, <2>3 DEF AnswersDate, AnswersHistory, DatingTools, c
  <2> QED BY <1>1, <1>2, <1>3, <1>10, <2>3, <2>5, <2>6 DEF Answering, c
<1> QED BY <1>11, <1>12

LEMMA StatedEndAnswers == ASSUME DatedInv, StatedEnd PROVE Answering
<1> DEFINE c == NextCall
           A == Answered
<1>1. Running /\ c.tool = "stated_end" /\ published' = published /\ wf' = [A EXCEPT !.date = c.day]
  BY DEF StatedEnd
<1>2. /\ c \in FitCalls(wf.name, wf.args) /\ c \in CallSet
      /\ wf \in WorkflowSet /\ InOrder(wf.sample)
  BY <1>1, NextCallFacts DEF DatedInv
<1>3. /\ A \in WorkflowSet /\ A.name = wf.name /\ A.args = wf.args /\ A.left = Tail(wf.left)
      /\ A.called = wf.called \cup {NextCall.tool}
      /\ A.outcome = (IF Len(wf.left) = 1 THEN "result" ELSE "none")
      /\ A.date = wf.date /\ A.curves = wf.curves /\ A.upTo = wf.upTo /\ A.sample = wf.sample
  BY <1>1, AnsweredFields
<1>4. c.day \in 0..FinalDay /\ c.day = wf.args.end
  BY <1>1, <1>2 DEF FitCalls, Fitting, CallSet
<1> HIDE DEF A, c
<1>5. /\ wf' \in WorkflowSet /\ wf'.date = c.day /\ wf'.name = A.name /\ wf'.args = A.args /\ wf'.left = A.left
      /\ wf'.called = A.called /\ wf'.outcome = A.outcome /\ wf'.curves = A.curves /\ wf'.upTo = A.upTo
      /\ wf'.sample = A.sample
  BY <1>1, <1>3, <1>4 DEF WorkflowSet
<1>6. AnswersDate /\ AnswersCurve /\ AnswersHistory
  BY <1>1, <1>3, <1>4, <1>5 DEF AnswersDate, AnswersCurve, AnswersHistory, c
<1>7. NextCall.tool \notin Refusals
  BY <1>1 DEF Refusals, c
<1> QED BY <1>1, <1>2, <1>3, <1>5, <1>6, <1>7 DEF Answering

\* No history reaches beyond the valuation.
LEMMA GetHistoryAnswers == ASSUME DatedInv, GetHistory PROVE Answering
<1> DEFINE c == NextCall
           A == Answered
           S == UpTo(DayOf(c))
<1>1. Running /\ c.tool = "history" /\ published' = published /\ Cardinality(S) >= TradingDays
      /\ wf' = [A EXCEPT !.upTo = Max(S)] /\ published \in Loads
  BY DEF GetHistory, DatedInv
<1>2. /\ c \in FitCalls(wf.name, wf.args) /\ c \in CallSet
      /\ wf \in WorkflowSet /\ InOrder(wf.sample)
  BY <1>1, NextCallFacts DEF DatedInv
<1>3. /\ A \in WorkflowSet /\ A.name = wf.name /\ A.args = wf.args /\ A.left = Tail(wf.left)
      /\ A.called = wf.called \cup {NextCall.tool}
      /\ A.outcome = (IF Len(wf.left) = 1 THEN "result" ELSE "none")
      /\ A.date = wf.date /\ A.curves = wf.curves /\ A.upTo = wf.upTo /\ A.sample = wf.sample
  BY <1>1, AnsweredFields
<1>4. S \in SUBSET Calendar /\ S # {}
  <2>1. S \in SUBSET Calendar
    BY <1>1, LoadedDays DEF UpTo
  <2>2. S # {}
    BY <1>1, WfNumbers, FS_EmptySet
  <2> QED BY <2>1, <2>2
<1>5. Max(S) \in 1..FinalDay /\ Max(S) <= DayOf(c) /\ FinalDay \in Nat
  <2>1. Max(S) \in S
    BY <1>4, CalendarBounds
  <2>2. Max(S) <= DayOf(c)
    BY <2>1 DEF UpTo
  <2> QED BY <1>4, <2>1, <2>2, WfNumbers DEF Calendar
<1>6. wf.date \in 0..FinalDay /\ wf.args.curve_date \in 0..FinalDay
  BY <1>2, NumbersOf
<1>7. Max(S) <= (IF wf.date = 0 THEN wf.args.curve_date ELSE wf.date)
  <2>1. \/ c.ref = "valuation"
        \/ c.ref = "stated" /\ c.day = wf.args.curve_date /\ AsAsked(wf.name, wf.args)
    BY <1>1, <1>2 DEF FitCalls, Fitting
  <2>2. CASE c.ref = "valuation"
    <3>1. DayOf(c) = wf.date
      BY <2>2 DEF DayOf
    <3> HIDE DEF S
    <3> QED BY <1>5, <1>6, <3>1
  <2>3. CASE c.ref = "stated" /\ c.day = wf.args.curve_date /\ AsAsked(wf.name, wf.args)
    <3>1. DayOf(c) = wf.args.curve_date /\ wf.date = 0
      BY <2>3 DEF DayOf, DatedInv
    <3> QED BY <1>5, <3>1
  <2> QED BY <2>1, <2>2, <2>3
<1>8. Max(S) \in 0..FinalDay
  BY <1>5
<1> HIDE DEF A, c, S
<1>9. /\ wf' \in WorkflowSet /\ wf'.upTo = Max(S) /\ wf'.name = A.name /\ wf'.args = A.args /\ wf'.left = A.left
      /\ wf'.called = A.called /\ wf'.outcome = A.outcome /\ wf'.curves = A.curves /\ wf'.date = A.date
      /\ wf'.sample = A.sample
  BY <1>1, <1>3, <1>8 DEF WorkflowSet
<1>10. AnswersDate /\ AnswersCurve /\ AnswersHistory
  BY <1>1, <1>3, <1>7, <1>9 DEF AnswersDate, AnswersCurve, AnswersHistory, DatingTools, c
<1>11. NextCall.tool \notin Refusals
  BY <1>1 DEF Refusals, c
<1> QED BY <1>1, <1>2, <1>3, <1>9, <1>10, <1>11 DEF Answering

LEMMA SampleLen ==
  ASSUME NEW n \in Nat, NEW k \in Nat, NEW s \in [1..n -> 1..k]
  PROVE  Len(s) = n
<1>1. s \in Seq(1..k)
  OBVIOUS
<1>2. DOMAIN s = 1..Len(s) /\ DOMAIN s = 1..n /\ Len(s) \in Nat
  BY <1>1, LenProperties
<1> QED BY <1>2

LEMMA EngineAnswers == ASSUME DatedInv, Engine PROVE Answering
<1> DEFINE c == NextCall
           A == Answered
<1>1. Running /\ c.tool \notin Markets \cup Refusals \cup {"history", "stated_end"} /\ published' = published
  BY DEF Engine
<1>2. wf \in WorkflowSet /\ InOrder(wf.sample)
  BY DEF DatedInv
<1>3. /\ A \in WorkflowSet /\ A.name = wf.name /\ A.args = wf.args /\ A.left = Tail(wf.left)
      /\ A.called = wf.called \cup {NextCall.tool}
      /\ A.outcome = (IF Len(wf.left) = 1 THEN "result" ELSE "none")
      /\ A.date = wf.date /\ A.curves = wf.curves /\ A.upTo = wf.upTo /\ A.sample = wf.sample
  BY <1>1, AnsweredFields
<1>4. CASE c.tool = "worst_stresses" /\ wf.name = "backtest_var"
  <2>1. PICK ranked \in RankedMoves : wf' = [A EXCEPT !.sample = Sample(ranked)]
    BY <1>4 DEF Engine
  <2>2. BacktestWindow \in Nat /\ Moves \in Nat
    BY WfNumbers DEF BacktestWindow, Moves
  <2>3. ranked \in [1..BacktestWindow -> 1..Moves] /\ IsInjective(ranked)
    BY DEF RankedMoves
  <2>4. Sample(ranked) \in [1..BacktestWindow -> 1..Moves]
        /\ \A i, j \in 1..BacktestWindow : i < j => Sample(ranked)[i] < Sample(ranked)[j]
    BY <2>2, <2>3, SampleFacts
  <2>5. Sample(ranked) \in SampleSet /\ InOrder(Sample(ranked))
    <3>1. Len(Sample(ranked)) = BacktestWindow
      BY <2>2, <2>4, SampleLen
    <3> QED BY <2>4, <3>1 DEF SampleSet, InOrder
  <2> HIDE DEF A, c
  <2>6. /\ wf' \in WorkflowSet /\ wf'.upTo = A.upTo /\ wf'.name = A.name /\ wf'.args = A.args /\ wf'.left = A.left
        /\ wf'.called = A.called /\ wf'.outcome = A.outcome /\ wf'.curves = A.curves /\ wf'.date = A.date
        /\ wf'.sample = Sample(ranked)
    BY <1>3, <2>1, <2>5 DEF WorkflowSet
  <2>7. AnswersDate /\ AnswersCurve /\ AnswersHistory
    BY <1>3, <1>4, <2>6 DEF AnswersDate, AnswersCurve, AnswersHistory, DatingTools, c
  <2> QED BY <1>1, <1>3, <2>5, <2>6, <2>7 DEF Answering, c
<1>5. CASE ~(c.tool = "worst_stresses" /\ wf.name = "backtest_var")
  <2>1. wf' = A /\ (c.tool \in {"replay_forward", "pnl_attribution"} => wf.curves[1] < wf.curves[2])
    BY <1>5 DEF Engine
  <2> HIDE DEF A, c
  <2>2. AnswersDate /\ AnswersCurve /\ AnswersHistory
    BY <1>1, <1>3, <2>1 DEF AnswersDate, AnswersCurve, AnswersHistory, DatingTools, Markets, c
  <2> QED BY <1>1, <1>2, <1>3, <2>1, <2>2 DEF Answering, c
<1> QED BY <1>4, <1>5

\* An end without a result
LEMMA FinishKeeps ==
  ASSUME RiskInv, Running, published' = published, NEW o \in OutcomeSet, o # "none",
         wf.name \in StrictNames => o # "result", Finish(o)
  PROVE  RiskInv'
<1>1. wf \in WorkflowSet /\ wf.name # "none"
  BY DEF RiskInv, DatedInv, Running
<1>2. wf' = [wf EXCEPT !.outcome = o, !.left = <<>>]
  BY DEF Finish
<1>3. <<>> \in Seq(CallSet)
  BY EmptySeq
<1>4. /\ wf' \in WorkflowSet /\ wf'.name = wf.name /\ wf'.args = wf.args /\ wf'.left = <<>> /\ wf'.outcome = o
      /\ wf'.date = wf.date /\ wf'.curves = wf.curves /\ wf'.upTo = wf.upTo /\ wf'.called = wf.called
      /\ wf'.sample = wf.sample
  BY <1>1, <1>2, <1>3 DEF WorkflowSet
<1>5. TwoPhased(wf.name, wf.args, <<>>) /\ <<>> \in Seq(LateCalls(wf.name, wf.args))
  BY EmptySeq, LateOnly
<1>6. DatedInv'
  BY <1>1, <1>4, <1>5 DEF RiskInv, DatedInv
<1>7. wf'.name \in StrictNames => ~Live'
  BY <1>4 DEF Live
<1>8. StressInv' /\ HistoricalInv' /\ PnlInv' /\ LimitInv'
  <2>1. {"run_stress", "run_historical_stress", "compute_pnl_attribution", "evaluate_risk_limits"} \subseteq StrictNames
    BY DEF StrictNames, Dated
  <2> QED BY <1>7, <2>1 DEF StressInv, HistoricalInv, PnlInv, LimitInv
<1> QED BY <1>6, <1>8 DEF RiskInv

LEMMA EndsKeep ==
  ASSUME RiskInv, Refused \/ CallFails \/ CallRaises
  PROVE  RiskInv'
<1>1. CASE Refused
  <2>1. Running /\ published' = published /\ NextCall.tool \in Refusals /\ Finish(NextCall.tool)
    BY <1>1 DEF Refused
  <2>2. NextCall.tool \in OutcomeSet /\ NextCall.tool # "none" /\ NextCall.tool # "result"
    BY <2>1 DEF OutcomeSet, Refusals
  <2> QED BY <2>1, <2>2, FinishKeeps
<1>2. CASE CallFails
  <2>1. Running /\ published' = published
    BY <1>2 DEF CallFails
  <2>2. {"error", "only_one", "result"} \subseteq OutcomeSet
    BY DEF OutcomeSet, Refusals
  <2>3. CASE ~NextCall.lenient
    <3>1. Finish("error")
      BY <1>2, <2>3 DEF CallFails
    <3> QED BY <2>1, <2>2, <3>1, FinishKeeps
  <2>4. CASE NextCall.lenient
    <3>1. wf.name \notin StrictNames
      BY <2>1, <2>4, NextCallFacts DEF FitCalls, Fitting, RiskInv
    <3>2. Finish("only_one") \/ Finish("result")
      BY <1>2, <2>4 DEF CallFails
    <3> QED BY <2>1, <2>2, <3>1, <3>2, FinishKeeps
  <2> QED BY <2>3, <2>4
<1>3. CASE CallRaises
  <2>1. Running /\ published' = published /\ Finish("raised")
    BY <1>3 DEF CallRaises
  <2>2. "raised" \in OutcomeSet
    BY DEF OutcomeSet
  <2> QED BY <2>1, <2>2, FinishKeeps
<1> QED BY <1>1, <1>2, <1>3

LEMMA NoWorkflowFields ==
  /\ NoWorkflow \in WorkflowSet
  /\ NoWorkflow.name = "none" /\ NoWorkflow.left = <<>> /\ NoWorkflow.date = 0 /\ NoWorkflow.upTo = 0
  /\ NoWorkflow.curves = <<>> /\ NoWorkflow.sample = <<>> /\ NoWorkflow.outcome = "none"
  /\ NoWorkflow.called = {} /\ NoWorkflow.args.curve_date = 0
<1>1. /\ NoWorkflow.name = "none" /\ NoWorkflow.left = <<>> /\ NoWorkflow.date = 0 /\ NoWorkflow.upTo = 0
      /\ NoWorkflow.curves = <<>> /\ NoWorkflow.sample = <<>> /\ NoWorkflow.outcome = "none"
      /\ NoWorkflow.called = {} /\ NoWorkflow.args.curve_date = 0
  BY DEF NoWorkflow
<1>2. NoWorkflow.args \in ArgumentSet
  BY DEF ArgumentSet
<1> DEFINE g == NoWorkflow.args
<1>3. NoWorkflow = [name |-> "none", args |-> g, left |-> <<>>, date |-> 0, curves |-> <<>>, upTo |-> 0,
                    called |-> {}, sample |-> <<>>, outcome |-> "none"]
  BY DEF NoWorkflow
<1> HIDE DEF g
<1>4. /\ <<>> \in Seq(CallSet) /\ <<>> \in Seq(CurveDays) /\ 0 \in 0..FinalDay /\ <<>> \in SampleSet
      /\ "none" \in OutcomeSet /\ {} \in SUBSET ToolSet
  BY EmptySeq, WfNumbers DEF SampleSet, OutcomeSet
<1>5. g \in ArgumentSet
  BY <1>2 DEF g
<1>6. NoWorkflow \in WorkflowSet
  BY <1>3, <1>4, <1>5 DEF WorkflowSet
<1> QED BY <1>1, <1>6

LEMMA EmptyOrder == InOrder(<<>>)
BY EmptySeq DEF InOrder

LEMMA CalculateKeeps ==
  ASSUME RiskInv, NEW n \in AllNames, NEW a \in Arguments(n), Calculate(n, a)
  PROVE  RiskInv'
<1> DEFINE p == Plan(n, a)
<1>1. wf = NoWorkflow /\ published' = published /\ wf' = [NoWorkflow EXCEPT !.name = n, !.args = a, !.left = p]
  BY DEF Calculate, Plan
<1>2. TwoPhased(n, a, p) /\ p \in Seq(CallSet)
  BY PlanPhased, PhasedCalls
<1>3. a \in ArgumentSet /\ "none" \notin AllNames
  <2>1. "none" \notin AllNames
    BY DEF AllNames, Workflows
  <2> QED BY <2>1 DEF ArgumentSet
<1> DEFINE w == NoWorkflow
<1>4. /\ w \in WorkflowSet /\ w.date = 0 /\ w.upTo = 0 /\ w.curves = <<>> /\ w.sample = <<>> /\ w.outcome = "none"
      /\ w.called = {}
  BY NoWorkflowFields
<1> HIDE DEF w, p
<1>5. wf' = [w EXCEPT !.name = n, !.args = a, !.left = p]
  BY <1>1 DEF w
<1>6. /\ wf' \in WorkflowSet /\ wf'.name = n /\ wf'.args = a /\ wf'.left = p /\ wf'.date = 0 /\ wf'.upTo = 0
      /\ wf'.curves = <<>> /\ wf'.sample = <<>> /\ wf'.outcome = "none" /\ wf'.called = {}
  BY <1>2, <1>3, <1>4, <1>5 DEF WorkflowSet
<1>7. DatedInv'
  <2>1. published' \in Loads
    BY <1>1 DEF RiskInv, DatedInv
  <2>2. 0 <= a.curve_date
    BY ArgumentFacts, WfNumbers
  <2> QED BY <1>2, <1>3, <1>6, <2>1, <2>2, EmptyOrder DEF DatedInv
<1>8. ASSUME NEW f, NEW t, NEW x, f.tool = "get_curve", t.tool = "get_curve", x.tool # "get_curve", Closes(p, f, t, x)
      PROVE  Following(wf', f, t, x)
  <2>1. Len(p) \in Nat /\ Len(p) >= 3
    BY <1>2, <1>8, LenProperties DEF Closes
  <2>2. Len(p) # 2 /\ Len(p) # 1 /\ Len(p) # 0
    <3>1. \A k \in Nat : k >= 3 => k # 2 /\ k # 1 /\ k # 0
      OBVIOUS
    <3> QED BY <2>1, <3>1
  <2> QED BY <1>6, <1>8, <2>2 DEF Following
<1>9. Len(wf'.curves) = 0
  BY <1>6
<1>10. a.start \in 0..FinalDay /\ a.end \in 0..FinalDay
  BY ArgumentFacts
<1>11. StressInv'
  <2> SUFFICES ASSUME n = "run_stress"
               PROVE  StressInv'
    BY <1>6 DEF StressInv
  <2>1. StressPlan(a, p)
    BY StressPlans DEF p
  <2>2. CASE a.start = 0
    BY <1>6, <2>1, <2>2 DEF StressPlan, StressInv
  <2>3. CASE a.start # 0
    <3>1. PICK x \in CallSet : /\ x.tool # "get_curve"
                               /\ Closes(p, CurveOf("stated", a.start, "previous"), CurveOf("stated", a.end, "next"), x)
      BY <2>1, <2>3 DEF StressPlan
    <3>2. CurveOf("stated", a.start, "previous").tool = "get_curve" /\ CurveOf("stated", a.end, "next").tool = "get_curve"
      BY <1>10, CurveTyped
    <3>3. Following(wf', CurveOf("stated", a.start, "previous"), CurveOf("stated", a.end, "next"), x)
      BY <1>8, <3>1, <3>2
    <3> QED BY <1>6, <1>9, <2>3, <3>3 DEF StressInv
  <2> QED BY <2>2, <2>3
<1>12. HistoricalInv'
  <2> SUFFICES ASSUME n = "run_historical_stress"
               PROVE  HistoricalInv'
    BY <1>6 DEF HistoricalInv
  <2>1. HistoricalPlan(a, p)
    BY HistoricalPlans DEF p
  <2>2. CASE LastRefuses(p)
    BY <1>6, <2>2 DEF HistoricalInv
  <2>3. CASE ~LastRefuses(p)
    <3>1. PICK from \in 1..FinalDay, to \in 1..FinalDay :
             /\ a.given = {} => to = a.end
             /\ Closes(p, CurveOn(from), CurveOn(to), Call("replay_forward"))
      BY <2>1, <2>3 DEF HistoricalPlan
    <3>2. /\ CurveOn(from).tool = "get_curve" /\ CurveOn(to).tool = "get_curve"
          /\ Call("replay_forward").tool # "get_curve"
      BY DEF CurveOn, CurveOf, CallOn, Call
    <3>3. Following(wf', CurveOn(from), CurveOn(to), Call("replay_forward"))
      BY <1>8, <3>1, <3>2
    <3> QED BY <1>6, <1>9, <3>1, <3>3 DEF HistoricalInv
  <2> QED BY <2>2, <2>3
<1>13. PnlInv'
  <2> SUFFICES ASSUME n = "compute_pnl_attribution"
               PROVE  PnlInv'
    BY <1>6 DEF PnlInv
  <2>1. PnlPlan(a, p)
    BY PnlPlans DEF p
  <2>2. PICK f \in CallSet : /\ f.tool = "get_curve"
                             /\ Closes(p, f, CurveOf("valuation", 0, "previous"), Call("pnl_attribution"))
    BY <2>1 DEF PnlPlan
  <2>3. CurveOf("valuation", 0, "previous").tool = "get_curve" /\ Call("pnl_attribution").tool # "get_curve"
    BY DEF CurveOf, CallOn, Call
  <2>4. Following(wf', f, CurveOf("valuation", 0, "previous"), Call("pnl_attribution"))
    BY <1>8, <2>2, <2>3
  <2>5. Len(wf'.left) = 6 /\ (a.end # 0 => wf'.left[Len(wf'.left) - 3].tool = "stated_end")
    BY <1>6, <2>1 DEF PnlPlan
  <2> QED BY <1>6, <1>9, <2>4, <2>5 DEF PnlInv
<1>14. LimitInv'
  <2> SUFFICES ASSUME n = "evaluate_risk_limits"
               PROVE  LimitInv'
    BY <1>6 DEF LimitInv
  <2>1. LimitPlan(a, p)
    BY LimitPlans DEF p
  <2> QED BY <1>6, <2>1 DEF LimitPlan, LimitInv
<1> QED BY <1>7, <1>11, <1>12, <1>13, <1>14 DEF RiskInv

LEMMA LoadKeepsWorkflow ==
  ASSUME RiskInv, published' \in Loads, wf' = wf
  PROVE  RiskInv'
<1>1. DatedInv'
  BY DEF RiskInv, DatedInv
<1> QED BY <1>1 DEF RiskInv, StressInv, HistoricalInv, PnlInv, LimitInv, Live

LEMMA RiskStarts == WfInit => RiskInv
<1> SUFFICES ASSUME WfInit
             PROVE  RiskInv
  OBVIOUS
<1>1. wf = NoWorkflow /\ published \in Loads
  BY DEF WfInit, Loads
<1> DEFINE w == NoWorkflow
<1>2. /\ w \in WorkflowSet /\ w.name = "none" /\ w.left = <<>> /\ w.date = 0 /\ w.upTo = 0 /\ w.sample = <<>>
      /\ w.outcome = "none" /\ w.args.curve_date = 0
  BY NoWorkflowFields
<1>3. wf = w
  BY <1>1
<1> HIDE DEF w
<1>4. TwoPhased(w.name, w.args, <<>>)
  BY EmptySeq, LateOnly
<1>5. DatedInv
  BY <1>1, <1>2, <1>3, <1>4, EmptyOrder DEF DatedInv
<1>6. StressInv /\ HistoricalInv /\ PnlInv /\ LimitInv
  BY <1>2, <1>3 DEF StressInv, HistoricalInv, PnlInv, LimitInv
<1> QED BY <1>5, <1>6 DEF RiskInv

LEMMA RiskInductive == RiskInv /\ [WfNext]_wfVars => RiskInv'
<1> SUFFICES ASSUME RiskInv, [WfNext]_wfVars
             PROVE  RiskInv'
  OBVIOUS
<1>1. ASSUME Answering
      PROVE  RiskInv'
  BY <1>1, DatedKeeps, StressKeeps, HistoricalKeeps, PnlKeeps, LimitKeeps DEF RiskInv
<1>2. CASE \E n \in AllNames : \E a \in Arguments(n) : Calculate(n, a)
  BY <1>2, CalculateKeeps
<1>3. CASE Refused \/ CallFails \/ CallRaises
  BY <1>3, EndsKeep
<1>4. CASE GetCurve
  BY <1>1, <1>4, GetCurveAnswers DEF RiskInv
<1>5. CASE StatedEnd
  BY <1>1, <1>5, StatedEndAnswers DEF RiskInv
<1>6. CASE GetHistory
  BY <1>1, <1>6, GetHistoryAnswers DEF RiskInv
<1>7. CASE Engine
  BY <1>1, <1>7, EngineAnswers DEF RiskInv
<1>8. CASE LoadBetween
  BY <1>8, LoadKeepsWorkflow DEF LoadBetween
<1>9. CASE UNCHANGED wfVars
  BY <1>9, LoadKeepsWorkflow DEF wfVars, RiskInv, DatedInv
<1> QED BY <1>2, <1>3, <1>4, <1>5, <1>6, <1>7, <1>8, <1>9 DEF WfNext, AllNames

LEMMA RiskIsEnough == RiskInv => WorkflowsHold
<1> SUFFICES ASSUME RiskInv
             PROVE  WorkflowsHold
  OBVIOUS
<1>1. /\ wf.date \in 0..FinalDay /\ wf.upTo \in 0..FinalDay /\ wf.curves \in Seq(CurveDays)
      /\ wf.outcome \in OutcomeSet /\ wf.sample \in SampleSet /\ wf.left \in Seq(CallSet)
  BY NumbersOf DEF RiskInv, DatedInv
<1>2. WfTypeOK
  <2>1. ToSet(wf.curves) \subseteq Calendar \ Holidays
    <3>1. ASSUME NEW i \in DOMAIN wf.curves
          PROVE  wf.curves[i] \in CurveDays
      BY <1>1, <3>1, LenProperties, ElementOfSeq
    <3> QED BY <3>1 DEF ToSet, CurveDays
  <2> QED BY <1>1, <2>1 DEF WfTypeOK, OutcomeSet, SampleSet, RiskInv, DatedInv
<1>3. NoLookAhead
  BY DEF NoLookAhead, RiskInv, DatedInv
<1>4. ASSUME wf.outcome = "result"
      PROVE  Live /\ wf.left = <<>> /\ Len(wf.left) = 0
  BY <1>4 DEF Live, RiskInv, DatedInv
<1>5. ReplayCoversItsWindow
  <2>1. ASSUME wf.outcome = "result", wf.name = "run_stress", wf.curves # <<>>
        PROVE  wf.curves[1] <= wf.args.start /\ wf.args.end <= wf.curves[2]
    <3>1. wf.args.start # 0
      BY <1>4, <2>1 DEF RiskInv, StressInv
    <3>2. PICK x \in CallSet :
             /\ Following(wf, CurveOf("stated", wf.args.start, "previous"), CurveOf("stated", wf.args.end, "next"), x)
             /\ Len(wf.curves) >= 1 => wf.curves[1] <= wf.args.start
             /\ Len(wf.curves) = 2 => wf.args.end <= wf.curves[2]
      BY <1>4, <2>1, <3>1 DEF RiskInv, StressInv
    <3>3. Len(wf.curves) = 2
      BY <1>4, <2>1, <3>2 DEF Following
    <3> QED BY <3>2, <3>3
  <2>2. ASSUME wf.outcome = "result", wf.name = "run_historical_stress"
        PROVE  /\ wf.curves[1] < wf.curves[2]
               /\ wf.args.end # 0 /\ wf.args.given = {} => wf.curves[2] <= wf.args.end
    <3>1. PICK from \in 1..FinalDay, to \in 1..FinalDay :
             /\ wf.args.given = {} => to = wf.args.end
             /\ Following(wf, CurveOn(from), CurveOn(to), Call("replay_forward"))
             /\ wf.outcome = "result" => wf.curves[1] < wf.curves[2]
             /\ Len(wf.curves) = 2 => wf.curves[2] <= to
      BY <1>4, <2>2 DEF RiskInv, HistoricalInv
    <3>2. Len(wf.curves) = 2
      BY <1>4, <2>2, <3>1 DEF Following
    <3> QED BY <2>2, <3>1, <3>2
  <2>3. ASSUME wf.outcome = "result", wf.name = "compute_pnl_attribution"
        PROVE  /\ wf.curves[1] < wf.curves[2]
               /\ wf.args.end # 0 /\ wf.args.given = {} => wf.curves[2] <= wf.args.end
    <3>1. PICK f \in CallSet : Following(wf, f, CurveOf("valuation", 0, "previous"), Call("pnl_attribution"))
      BY <1>4, <2>3 DEF RiskInv, PnlInv
    <3>2. Len(wf.curves) = 2
      BY <1>4, <2>3, <3>1 DEF Following
    <3> QED BY <1>4, <2>3, <3>2 DEF RiskInv, PnlInv
  <2> QED BY <2>1, <2>2, <2>3 DEF ReplayCoversItsWindow, Result
<1>6. EveryLimitMeasured
  <2> SUFFICES ASSUME wf.outcome = "result", wf.name = "evaluate_risk_limits"
               PROVE  wf.args.given # {} /\ \A limit \in wf.args.given : Measures[limit] \in wf.called
    BY DEF EveryLimitMeasured, Result
  <2>1. \A t : ~Includes(wf.left, t)
    BY <1>4 DEF Includes
  <2> QED BY <1>4, <2>1 DEF RiskInv, LimitInv
<1>7. BacktestInOrder
  BY DEF BacktestInOrder, RiskInv, DatedInv, InOrder
<1> QED BY <1>2, <1>3, <1>5, <1>6, <1>7 DEF WorkflowsHold

\* The workflows of the risk calculations read nothing that lies after their valuation, all of the
\* period they replay, a measure for every limit, and the moves in their order, whatever is asked
\* and whatever is loaded, answered, refused or raised between two calls (risk_workflows.py).
THEOREM WorkflowsAreSound == WfSpec => []WorkflowsHold
<1>1. WfInit => RiskInv
  BY RiskStarts
<1>2. RiskInv /\ [WfNext]_wfVars => RiskInv'
  BY RiskInductive
<1>3. RiskInv => WorkflowsHold
  BY RiskIsEnough
<1> QED BY <1>1, <1>2, <1>3, PTL DEF WfSpec
=============================================================================
